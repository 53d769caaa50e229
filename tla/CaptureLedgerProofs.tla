------------------------- MODULE CaptureLedgerProofs -------------------------
(***************************************************************************)
(* What reaches the database from a capture, for every queue capacity,     *)
(* batch size, number of sessions and frames and every set of faults: the  *)
(* observations are conserved and in order, a session is closed drained,   *)
(* and the threads implement CaptureLedger.                                *)
(*                                                                         *)
(* The session and its log belong to the threads in turn (the reader until *)
(* the parser starts, then the parser until it closes the session), and    *)
(* what the parser has recorded, batched, still has in the queue and what  *)
(* the reader holds are frames of increasing numbers. That, with the       *)
(* invariant of CapturePipelineProofs, is inductive.                       *)
(***************************************************************************)
EXTENDS CapturePipelineProofs, SequenceTheorems

-----------------------------------------------------------------------------
(* The session of a capture in progress is the newest one, and it is open  *)
(* until its parser, or the reader of a capture that never opened, ends it.*)
OwnSession ==
  /\ ReaderAlive \/ ParserAlive => session_id = rows /\ rows > 0
  /\ reader \in {"open", "abort"} \/ ParserAlive => ~ended[session_id]

(* A session that has not begun has no row.                                *)
UnusedSessions ==
  \A s \in Sessions : s > rows => ~ended[s] /\ log[s] = <<>>

(* Outside its loop the parser has no batch.                               *)
NoBatchOutside ==
  parser \notin {"get", "check", "idle", "final"} => batch = <<>>

(* A batch is written when it is full.                                     *)
BatchBounded ==
  /\ Len(batch) <= BatchSize
  /\ parser \in {"get", "idle", "final"} => Len(batch) < BatchSize

(* A capture that has not opened yet has nothing recorded.                 *)
FreshSession ==
  reader \in {"open", "abort"} => observed = 0 /\ log[session_id] = <<>>

Ownership == OwnSession /\ UnusedSessions /\ NoBatchOutside /\ FreshSession

-----------------------------------------------------------------------------
(* A frame in the reader's hand is newer than any it handed over.          *)
Newer(x) == x <= frames /\ (reader \in {"got", "put"} => x < frames)

(* A value that is older than every frame in the queue.                    *)
BeforeQueue(x) == \A j \in 1..Len(queue) : queue[j] # None => x < queue[j]

(* What a live parser has taken is older than what waits in the queue, and *)
(* that is in the order of arrival.                                        *)
QueueInOrder ==
  ParserAlive =>
    /\ \A i \in 1..Len(queue) : queue[i] # None => Newer(queue[i])
    /\ \A i, j \in 1..Len(queue) :
         i < j /\ queue[i] # None /\ queue[j] # None => queue[i] < queue[j]

BatchInOrder ==
  /\ Increasing(batch)
  /\ ParserAlive => \A i \in 1..Len(batch) : Newer(batch[i]) /\ BeforeQueue(batch[i])

LogInOrder ==
  /\ \A s \in Sessions : Increasing(log[s])
  /\ session_id # 0 =>
       \A i \in 1..Len(log[session_id]), j \in 1..Len(batch) : log[session_id][i] < batch[j]
  /\ ParserAlive => \A i \in 1..Len(log[session_id]) :
       Newer(log[session_id][i]) /\ BeforeQueue(log[session_id][i])

Order == QueueInOrder /\ BatchInOrder /\ LogInOrder

-----------------------------------------------------------------------------
(* No more is recorded than was decoded, no more decoded than parsed.      *)
Counted ==
  /\ ParserAlive => Len(log[session_id]) + Len(batch) <= observed
  /\ observed <= parsed

(* The PCAP holds frames that were received, the one in hand not yet.      *)
SavedBound ==
  Capturing => saved <= frames /\ (reader = "got" => saved < frames)

LedgerInv ==
  /\ IInv /\ Ownership /\ BatchBounded /\ Order /\ Counted /\ SavedBound
  /\ ObservationsConserved /\ ClosedMeansDrained
-----------------------------------------------------------------------------
(* The constants' assumption, in the form the steps use it.                *)
USE PipelineAssumption DEF None, Sessions, NoTally

-----------------------------------------------------------------------------
LEMMA OwnershipNext == IInv /\ Ownership /\ [Next]_vars => Ownership'
<1> SUFFICES ASSUME IInv, Ownership, [Next]_vars PROVE Ownership'
  OBVIOUS
<1>0. /\ ParserNeedsReader /\ rows \in 0..MaxSessions /\ session_id \in 0..rows
      /\ ended \in [Sessions -> BOOLEAN] /\ log \in [Sessions -> Seq(Nat)]
  BY DEF IInv, Control, TypeOK, DatabaseOK
<1> USE DEF Ownership, OwnSession, UnusedSessions, NoBatchOutside, FreshSession,
            ReaderAlive, ParserAlive, Capturing, manager, counters, database
<1>1. CASE Start
  <2>1. rows + 1 \in Sessions /\ session_id' = rows + 1 /\ rows' = rows + 1
    BY <1>0, <1>1 DEF Start, BeginSession
  <2>2. ~ended[rows + 1] /\ log[rows + 1] = <<>>
    BY SMTT(40), <1>0, <2>1
  <2>3. /\ UNCHANGED <<parser, batch, ended, log>> /\ observed' = 0
        /\ reader' \in {"open", "failed"} /\ ~Capturing
    BY <1>1 DEF Start, StartFails, Reset, CanStart
  <2> QED
    BY <1>0, <2>1, <2>2, <2>3 DEF ParserNeedsReader
<1>2. CASE StartFails
  <2>1. CASE UNCHANGED <<rows, session_id>>
    BY <1>0, <1>2, <2>1 DEF ParserNeedsReader, StartFails, Reset
  <2>2. CASE BeginSession
    <3>1. rows + 1 \in Sessions /\ session_id' = rows + 1 /\ rows' = rows + 1
      BY <1>0, <2>2 DEF BeginSession
    <3>2. ~ended[rows + 1] /\ log[rows + 1] = <<>>
      BY SMTT(40), <1>0, <3>1
    <3>3. /\ UNCHANGED <<parser, batch, ended, log>> /\ observed' = 0
          /\ reader' \in {"open", "failed"} /\ ~Capturing
      BY <1>2 DEF Start, StartFails, Reset, CanStart
    <3> QED
      BY <1>0, <3>1, <3>2, <3>3 DEF ParserNeedsReader
  <2> QED
    BY <1>2, <2>1, <2>2 DEF Start, StartFails
<1>3. CASE Stop
  BY <1>3, <1>0 DEF Stop, ParserNeedsReader
<1>4. CASE Interrupt
  BY <1>4, <1>0 DEF Interrupt, ParserNeedsReader
<1>5. CASE Exit
  BY <1>5, <1>0 DEF Exit, ParserNeedsReader
<1>6. CASE Restart
  BY <1>6, <1>0 DEF Restart, ParserNeedsReader
<1>7. CASE KernelDrop
  BY <1>7, <1>0 DEF KernelDrop, ParserNeedsReader
<1>8. CASE ReaderOpens
  BY <1>8, <1>0 DEF ReaderOpens, NewQueue, ParserNeedsReader
<1>9. CASE OpenFails
  BY <1>9, <1>0 DEF OpenFails, AfterOpenFails, ParserNeedsReader
<1>10. CASE ReaderClosesSession
  <2>1. session_id = rows /\ rows > 0 /\ ~ParserAlive
    BY <1>0, <1>10 DEF ParserNeedsReader, ReaderClosesSession
  <2>2. \A s \in Sessions : s > rows => ended'[s] = ended[s]
    BY <1>0, <1>10, <2>1 DEF ReaderClosesSession, StoreEndSession
  <2>3. UNCHANGED <<rows, session_id, log, batch, parser, observed>>
    BY <1>10 DEF ReaderClosesSession
  <2>4. reader' \in {"off", "failed"}
    BY <1>10 DEF ReaderClosesSession
  <2> QED
    BY <1>0, <2>1, <2>2, <2>3, <2>4 DEF ParserNeedsReader
<1>11. CASE ReaderLoop
  BY <1>11, <1>0 DEF ReaderLoop, ReadStats, ParserNeedsReader
<1>12. CASE RecvTimeout
  BY <1>12, <1>0 DEF RecvTimeout, ReadStats, ParserNeedsReader
<1>13. CASE RecvFrame
  BY <1>13, <1>0 DEF RecvFrame, ParserNeedsReader
<1>14. CASE RecvFails
  BY <1>14, <1>0 DEF RecvFails, ParserNeedsReader
<1>15. CASE WriteFails
  BY <1>15, <1>0 DEF WriteFails, ParserNeedsReader
<1>16. CASE WriteFrame
  BY <1>16, <1>0 DEF WriteFrame, EndIteration, ReadStats, CountSkipped, ParserNeedsReader
<1>17. CASE PutFrame
  BY <1>17, <1>0 DEF PutFrame, EndIteration, ReadStats, ParserNeedsReader
<1>18. CASE Teardown
  BY <1>18, <1>0 DEF Teardown, ParserNeedsReader
<1>19. CASE HandOverSentinel
  BY <1>19, <1>0 DEF HandOverSentinel, ParserNeedsReader
<1>20. CASE JoinParser
  BY <1>20, <1>0 DEF JoinParser, Joined, ParserNeedsReader
<1>21. CASE TakeFrame
  BY <1>21, <1>0 DEF TakeFrame, ParserNeedsReader
<1>22. CASE TakeSentinel
  BY <1>22, <1>0 DEF TakeSentinel, ParserNeedsReader
<1>23. CASE TakeNothing
  BY <1>23, <1>0 DEF TakeNothing, NextWhenIdle, ParserNeedsReader
<1>24. CASE Flush
  <2>1. session_id = rows /\ rows > 0 /\ ~ended[session_id] /\ reader \notin {"open", "abort"}
    BY <1>0, <1>24 DEF ParserNeedsReader, Flush, FlushDue, FinalFlush
  <2>2. \A s \in Sessions : s > rows => log'[s] = log[s]
    <3>1. log' = log \/ log' = [log EXCEPT ![session_id] = log[session_id] \o batch]
      BY <1>24 DEF Flush, RecordMany
    <3>2. \A s \in Sessions : s > rows => s # session_id
      BY <1>0, <2>1
    <3> QED
      BY <1>0, <3>1, <3>2
  <2>3. UNCHANGED <<rows, session_id, ended, reader, observed>>
    BY <1>24 DEF Flush, FinalFlush
  <2>4. /\ ParserAlive /\ parser' \in {"get", "closing", "unwind"}
        /\ batch' = <<>>
    BY <1>24 DEF Flush, FlushDue, FinalFlush, RecordMany, EmptiedBatch
  <2> QED
    BY <1>0, <2>1, <2>2, <2>3, <2>4 DEF ParserNeedsReader
<1>25. CASE SkipFlush
  BY <1>25, <1>0 DEF SkipFlush, FlushNotDue, ParserNeedsReader
<1>26. CASE FinalFlush
  <2>1. session_id = rows /\ rows > 0 /\ ~ended[session_id] /\ reader \notin {"open", "abort"}
    BY <1>0, <1>26 DEF ParserNeedsReader, Flush, FlushDue, FinalFlush
  <2>2. \A s \in Sessions : s > rows => log'[s] = log[s]
    <3>1. log' = log \/ log' = [log EXCEPT ![session_id] = log[session_id] \o batch]
      BY <1>26 DEF FinalFlush, RecordMany
    <3>2. \A s \in Sessions : s > rows => s # session_id
      BY <1>0, <2>1
    <3> QED
      BY <1>0, <3>1, <3>2
  <2>3. UNCHANGED <<rows, session_id, ended, reader, observed>>
    BY <1>26 DEF Flush, FinalFlush
  <2>4. /\ ParserAlive /\ parser' \in {"get", "closing", "unwind"}
        /\ batch' = <<>>
    BY <1>26 DEF Flush, FlushDue, FinalFlush, RecordMany, EmptiedBatch
  <2> QED
    BY <1>0, <2>1, <2>2, <2>3, <2>4 DEF ParserNeedsReader
<1>27. CASE EndSession
  <2>1. session_id = rows /\ rows > 0 /\ reader \notin {"open", "abort"} /\ batch = <<>>
    BY <1>0, <1>27 DEF ParserNeedsReader, EndSession
  <2>2. \A s \in Sessions : s > rows => ended'[s] = ended[s]
    BY <1>0, <1>27, <2>1 DEF EndSession, StoreEndSession
  <2>3. UNCHANGED <<rows, session_id, log, batch, reader, observed>>
    BY <1>27 DEF EndSession
  <2>4. parser' \in {"off", "failed"}
    BY <1>27 DEF EndSession
  <2> QED
    BY <1>0, <2>1, <2>2, <2>3, <2>4 DEF ParserNeedsReader
<1>28. CASE UNCHANGED vars
  BY <1>28, <1>0 DEF vars, ParserNeedsReader
<1> QED
  BY <1>1, <1>2, <1>3, <1>4, <1>5, <1>6, <1>7, <1>8, <1>9, <1>10, <1>11,
     <1>12, <1>13, <1>14, <1>15, <1>16, <1>17, <1>18, <1>19, <1>20,
     <1>21, <1>22, <1>23, <1>24, <1>25, <1>26, <1>27, <1>28
  DEF Next, ReaderNext, ParserNext, OperatorNext, ProcessNext
(* What a transaction of the parser adds to the log of its session.        *)
LEMMA LogGrows ==
  ASSUME TypeOK, session_id \in Sessions,
         log' = [log EXCEPT ![session_id] = @ \o batch]
  PROVE  /\ \A s \in Sessions \ {session_id} : log'[s] = log[s]
         /\ log'[session_id] = log[session_id] \o batch
         /\ Len(log'[session_id]) = Len(log[session_id]) + Len(batch)
         /\ \A i \in 1..Len(log[session_id]) : log'[session_id][i] = log[session_id][i]
         /\ \A i \in 1..Len(log'[session_id]) : i > Len(log[session_id]) =>
              /\ i - Len(log[session_id]) \in 1..Len(batch)
              /\ log'[session_id][i] = batch[i - Len(log[session_id])]
<1>1. log[session_id] \in Seq(Nat) /\ batch \in Seq(Nat) /\ log \in [Sessions -> Seq(Nat)]
  BY DEF TypeOK, FramesOK, DatabaseOK
<1>2. log'[session_id] = log[session_id] \o batch
  BY <1>1
<1>3. \A s \in Sessions \ {session_id} : log'[s] = log[s]
  BY <1>1
<1> QED
  BY <1>1, <1>2, <1>3, ConcatProperties

(* Two increasing sequences, one before the other, are increasing.         *)
LEMMA JoinIncreasing ==
  ASSUME NEW a \in Seq(Nat), NEW b \in Seq(Nat), Increasing(a), Increasing(b),
         \A i \in 1..Len(a), j \in 1..Len(b) : a[i] < b[j]
  PROVE  Increasing(a \o b)
<1>1. /\ Len(a) \in Nat /\ Len(b) \in Nat /\ Len(a \o b) = Len(a) + Len(b)
      /\ \A i \in 1..(Len(a) + Len(b)) :
           (a \o b)[i] = IF i <= Len(a) THEN a[i] ELSE b[i - Len(a)]
  BY ConcatProperties, LenProperties
<1> SUFFICES ASSUME NEW i \in 1..Len(a \o b), NEW j \in 1..Len(a \o b), i < j
             PROVE  (a \o b)[i] < (a \o b)[j]
  BY DEF Increasing
<1>2. CASE j <= Len(a)
  BY <1>1, <1>2 DEF Increasing
<1>3. CASE i <= Len(a) /\ ~(j <= Len(a))
  <2>1. i \in 1..Len(a) /\ j - Len(a) \in 1..Len(b)
    BY <1>1, <1>3
  <2> QED
    BY <1>1, <1>3, <2>1
<1>4. CASE ~(i <= Len(a))
  <2>1. /\ i - Len(a) \in 1..Len(b) /\ j - Len(a) \in 1..Len(b)
        /\ i - Len(a) < j - Len(a) /\ ~(j <= Len(a))
    BY <1>1, <1>4
  <2> QED
    BY <1>1, <1>4, <2>1 DEF Increasing
<1> QED
  BY <1>2, <1>3, <1>4
-----------------------------------------------------------------------------
(* The order of arrival. What the steps that leave the frames where they   *)
(* are do, what a value added at the end of the queue does, what a value   *)
(* taken from its front does, and what a transaction does.                 *)
LEMMA OrderSame ==
  ASSUME Order, UNCHANGED <<queue, batch, log, session_id, frames>>,
         ParserAlive' => ParserAlive,
         reader' \in {"got", "put"} => reader \in {"got", "put"}
  PROVE  Order'
<1>1. \A x : (Newer(x) => Newer(x)') /\ (BeforeQueue(x) => BeforeQueue(x)')
  BY DEF Newer, BeforeQueue
<1>2. QueueInOrder'
  BY <1>1 DEF Order, QueueInOrder
<1>3. BatchInOrder'
  BY <1>1 DEF Order, BatchInOrder
<1>4. LogInOrder'
  BY <1>1 DEF Order, LogInOrder
<1> QED
  BY <1>2, <1>3, <1>4 DEF Order

LEMMA QueueGrows ==
  ASSUME TypeOK, Order, NEW v \in Nat, queue' = Append(queue, v),
         session_id \in Sessions \/ session_id = 0, ParserAlive => session_id # 0,
         UNCHANGED <<parser, batch, log, session_id, frames>>,
         \A x \in Nat : Newer(x) => Newer(x)' /\ (v # None => x < v),
         v # None => Newer(v)'
  PROVE  Order'
<1>1. queue \in Seq(Nat) /\ batch \in Seq(Nat) /\ log \in [Sessions -> Seq(Nat)]
  BY DEF TypeOK, FramesOK, DatabaseOK
<1>2. /\ Len(queue') = Len(queue) + 1 /\ Len(queue) \in Nat
      /\ \A i \in 1..Len(queue) : queue'[i] = queue[i] /\ queue[i] \in Nat
      /\ queue'[Len(queue) + 1] = v
  BY <1>1, PutLast
<1>3. \A x \in Nat : Newer(x) /\ BeforeQueue(x) => BeforeQueue(x)'
  BY <1>2 DEF BeforeQueue
<1>4. QueueInOrder'
  <2> SUFFICES ASSUME ParserAlive
               PROVE  /\ \A i \in 1..Len(queue') : queue'[i] # None => Newer(queue[i])'
                      /\ \A i, j \in 1..Len(queue') :
                           i < j /\ queue'[i] # None /\ queue'[j] # None
                             => queue'[i] < queue'[j]
    BY DEF QueueInOrder, ParserAlive
  <2>1. \A i \in 1..Len(queue) : queue[i] # None => Newer(queue[i]) /\ (v # None => queue[i] < v)
    BY <1>2 DEF Order, QueueInOrder
  <2>2. ASSUME NEW i \in 1..Len(queue'), NEW x \in Nat, x = queue'[i], x # None
        PROVE  Newer(x)'
    <3>1. CASE i = Len(queue) + 1
      <4>1. x = v
        BY <1>2, <2>2, <3>1
      <4> QED
        BY <2>2, <4>1
    <3>2. CASE i # Len(queue) + 1
      <4>1. i \in 1..Len(queue) /\ x = queue[i]
        BY <1>2, <2>2, <3>2
      <4>2. Newer(x)
        BY <2>1, <2>2, <4>1
      <4> QED
        BY <4>2
    <3> QED
      BY <3>1, <3>2
  <2>3. \A i, j \in 1..Len(queue') :
          i < j /\ queue'[i] # None /\ queue'[j] # None => queue'[i] < queue'[j]
    <3> SUFFICES ASSUME NEW i \in 1..Len(queue'), NEW j \in 1..Len(queue'),
                        i < j, queue'[i] # None, queue'[j] # None
                 PROVE  queue'[i] < queue'[j]
      OBVIOUS
    <3>1. i \in 1..Len(queue) /\ queue'[i] = queue[i]
      BY <1>2
    <3>2. CASE j = Len(queue) + 1
      BY <1>2, <2>1, <3>1, <3>2
    <3>3. CASE j # Len(queue) + 1
      <4>1. j \in 1..Len(queue) /\ queue'[j] = queue[j]
        BY <1>2, <3>3
      <4> QED
        BY <3>1, <4>1 DEF Order, QueueInOrder
    <3> QED
      BY <3>2, <3>3
  <2>4. \A i \in 1..Len(queue') : queue'[i] # None => Newer(queue[i])'
    <3>1. \A i \in 1..Len(queue') : queue'[i] \in Nat
      BY <1>2
    <3> QED
      BY <2>2, <3>1
  <2> QED
    BY <2>3, <2>4
<1>5. BatchInOrder'
  <2>1. \A i \in 1..Len(batch) : batch[i] \in Nat
    BY <1>1
  <2> QED
    BY <1>3, <2>1 DEF Order, BatchInOrder, ParserAlive
<1>6. LogInOrder'
  <2>1. ASSUME ParserAlive, NEW i \in 1..Len(log[session_id])
        PROVE  Newer(log[session_id][i])' /\ BeforeQueue(log[session_id][i])'
    <3>1. log[session_id][i] \in Nat
      BY <1>1, <2>1
    <3> QED
      BY <1>3, <2>1, <3>1 DEF Order, LogInOrder
  <2> QED
    BY <2>1 DEF Order, LogInOrder, ParserAlive
<1> QED
  BY <1>4, <1>5, <1>6 DEF Order

(* The queue after its first value was taken is in order, and whatever was *)
(* before all of it still is; a frame that was taken is before it now.     *)
LEMMA QueueShrinks ==
  ASSUME TypeOK, QueueInOrder, ParserAlive, queue # <<>>, queue' = Tail(queue),
         UNCHANGED <<reader, frames>>
  PROVE  /\ QueueInOrder'
         /\ \A x \in Nat : Newer(x) => Newer(x)'
         /\ \A x \in Nat : BeforeQueue(x) => BeforeQueue(x)'
         /\ \A f \in Nat : f = Head(queue) /\ f # None =>
              /\ Newer(f) /\ BeforeQueue(f)'
              /\ \A x \in Nat : BeforeQueue(x) => x < f
<1>1. /\ Len(queue) \in Nat \ {0} /\ Len(queue') = Len(queue) - 1 /\ Head(queue) = queue[1]
      /\ \A i \in 1..(Len(queue) - 1) : queue'[i] = queue[i + 1]
  BY TakeFirst DEF TypeOK, FramesOK
<1>2. \A i \in 1..Len(queue') : i + 1 \in 1..Len(queue) /\ queue'[i] = queue[i + 1]
  BY <1>1
<1>3. \A x : Newer(x) => Newer(x)'
  BY DEF Newer
<1>4. /\ \A i \in 1..Len(queue') : queue'[i] # None => Newer(queue[i])'
      /\ \A i, j \in 1..Len(queue') :
           i < j /\ queue'[i] # None /\ queue'[j] # None => queue'[i] < queue'[j]
  <2>1. \A i, j \in 1..Len(queue') : i < j => i + 1 < j + 1
    BY <1>1
  <2> QED
    BY <1>2, <1>3, <2>1 DEF QueueInOrder
<1>5. \A x \in Nat : BeforeQueue(x) => BeforeQueue(x)'
  BY <1>2 DEF BeforeQueue
<1>6. ASSUME NEW f \in Nat, f = Head(queue), f # None
      PROVE  /\ Newer(f) /\ BeforeQueue(f)'
             /\ \A x \in Nat : BeforeQueue(x) => x < f
  <2>1. 1 \in 1..Len(queue)
    BY <1>1
  <2>2. Newer(f) /\ \A x \in Nat : BeforeQueue(x) => x < f
    BY <1>1, <1>6, <2>1 DEF QueueInOrder, BeforeQueue
  <2>3. \A i \in 1..Len(queue') : 1 < i + 1
    BY <1>1
  <2>4. \A i \in 1..Len(queue') : queue'[i] # None => f < queue'[i]
    BY <1>1, <1>2, <1>6, <2>1, <2>3 DEF QueueInOrder
  <2> QED
    BY <2>2, <2>4 DEF BeforeQueue
<1> QED
  BY <1>3, <1>4, <1>5, <1>6 DEF QueueInOrder
(* A batch that stays, or is given the frame just taken, is in order.      *)
LEMMA BatchKept ==
  ASSUME TypeOK, Order, ParserAlive, QueueInOrder', UNCHANGED <<log, session_id, batch>>,
         session_id \in Sessions,
         \A x \in Nat : (Newer(x) => Newer(x)') /\ (BeforeQueue(x) => BeforeQueue(x)')
  PROVE  Order'
<1>1. batch \in Seq(Nat) /\ log[session_id] \in Seq(Nat)
  BY DEF TypeOK, FramesOK, DatabaseOK
<1>2. BatchInOrder'
  <2>1. \A i \in 1..Len(batch) : batch[i] \in Nat
    BY <1>1
  <2> QED
    BY <2>1 DEF Order, BatchInOrder
<1>3. LogInOrder'
  <2>1. \A i \in 1..Len(log[session_id]) : log[session_id][i] \in Nat
    BY <1>1
  <2> QED
    BY <2>1 DEF Order, LogInOrder
<1> QED
  BY <1>2, <1>3 DEF Order

LEMMA BatchGrows ==
  ASSUME TypeOK, Order, ParserAlive, QueueInOrder', UNCHANGED <<log, session_id>>,
         session_id \in Sessions,
         \A x \in Nat : (Newer(x) => Newer(x)') /\ (BeforeQueue(x) => BeforeQueue(x)'),
         NEW f \in Nat, batch' = Append(batch, f),
         Newer(f), BeforeQueue(f)', \A x \in Nat : BeforeQueue(x) => x < f
  PROVE  Order'
<1>1. /\ batch \in Seq(Nat) /\ log[session_id] \in Seq(Nat)
      /\ Len(batch) \in Nat /\ Len(batch') = Len(batch) + 1 /\ batch'[Len(batch) + 1] = f
      /\ \A i \in 1..Len(batch) : batch'[i] = batch[i] /\ batch[i] \in Nat
  BY PutLast DEF TypeOK, FramesOK, DatabaseOK
<1>2. \A i \in 1..Len(batch) : batch[i] < f
  BY <1>1 DEF Order, BatchInOrder
<1>3. Increasing(batch')
  <2> SUFFICES ASSUME NEW i \in 1..Len(batch'), NEW j \in 1..Len(batch'), i < j
               PROVE  batch'[i] < batch'[j]
    BY DEF Increasing
  <2>1. i \in 1..Len(batch) /\ batch'[i] = batch[i]
    BY <1>1
  <2>2. CASE j = Len(batch) + 1
    BY <1>1, <1>2, <2>1, <2>2
  <2>3. CASE j # Len(batch) + 1
    <3>1. j \in 1..Len(batch) /\ batch'[j] = batch[j]
      BY <1>1, <2>3
    <3> QED
      BY <2>1, <3>1 DEF Order, BatchInOrder, Increasing
  <2> QED
    BY <2>2, <2>3
<1>4. ASSUME NEW i \in 1..Len(batch'), NEW x \in Nat, x = batch'[i]
      PROVE  Newer(x)' /\ BeforeQueue(x)'
  <2>1. CASE i = Len(batch) + 1
    <3>1. x = f
      BY <1>1, <1>4, <2>1
    <3> QED
      BY <3>1
  <2>2. CASE i # Len(batch) + 1
    <3>1. i \in 1..Len(batch) /\ x = batch[i]
      <4>1. Len(batch) \in Nat /\ Len(batch') = Len(batch) + 1 /\ i \in 1..Len(batch')
        BY <1>1
      <4>2. i \in 1..Len(batch)
        BY <2>2, <4>1
      <4> QED
        BY <1>1, <1>4, <4>2
    <3>2. Newer(x) /\ BeforeQueue(x)
      BY <3>1 DEF Order, BatchInOrder
    <3> QED
      BY <3>2
  <2> QED
    BY <2>1, <2>2
<1>5. BatchInOrder'
  <2>1. \A i \in 1..Len(batch') : batch'[i] \in Nat
    BY <1>1
  <2>2. \A i \in 1..Len(batch') : Newer(batch[i])' /\ BeforeQueue(batch[i])'
    BY <1>4, <2>1
  <2> QED
    BY <1>3, <2>2 DEF BatchInOrder, Increasing
<1>6. LogInOrder'
  <2>1. \A i \in 1..Len(log[session_id]) : log[session_id][i] \in Nat
    BY <1>1
  <2>2. ASSUME NEW i \in 1..Len(log[session_id])
        PROVE  /\ log[session_id][i] < f
               /\ Newer(log[session_id][i])' /\ BeforeQueue(log[session_id][i])'
    BY <2>1 DEF Order, LogInOrder
  <2>3. ASSUME NEW i \in 1..Len(log[session_id]), NEW j \in 1..Len(batch')
        PROVE  log[session_id][i] < batch'[j]
    <3>1. CASE j = Len(batch) + 1
      BY <1>1, <2>2, <3>1
    <3>2. CASE j # Len(batch) + 1
      <4>1. j \in 1..Len(batch) /\ batch'[j] = batch[j]
        BY <1>1, <3>2
      <4> QED
        BY <4>1 DEF Order, LogInOrder
    <3> QED
      BY <3>1, <3>2
  <2> QED
    BY <2>2, <2>3 DEF Order, LogInOrder
<1> QED
  BY <1>5, <1>6 DEF Order

(* A transaction moves the batch to the end of the log, or loses it.       *)
LEMMA RecordedOrder ==
  ASSUME TypeOK, TypeOK', Order, ParserAlive, session_id \in Sessions,
         NEW next, RecordMany(next), UNCHANGED <<queue, session_id, frames, reader>>
  PROVE  Order'
<1>1. batch' = <<>>
  BY BatchEmptied
<1>2. \A x : (Newer(x) => Newer(x)') /\ (BeforeQueue(x) => BeforeQueue(x)')
  BY DEF Newer, BeforeQueue
<1>3. QueueInOrder' /\ BatchInOrder'
  BY <1>1, <1>2 DEF Order, QueueInOrder, BatchInOrder, Increasing
<1>4. CASE UNCHANGED log
  <2>1. LogInOrder'
    BY <1>1, <1>2, <1>4 DEF Order, LogInOrder
  <2> QED
    BY <1>3, <2>1 DEF Order
<1>5. CASE log' = [log EXCEPT ![session_id] = @ \o batch]
  <2>1. log[session_id] \in Seq(Nat) /\ batch \in Seq(Nat) /\ log' \in [Sessions -> Seq(Nat)]
    BY DEF TypeOK, FramesOK, DatabaseOK
  <2>2. \A s \in Sessions : Increasing(log[s])'
    <3>1. Increasing(log[session_id] \o batch)
      BY <2>1, JoinIncreasing DEF Order, LogInOrder, BatchInOrder
    <3> QED
      BY <1>5, <3>1, LogGrows DEF Order, LogInOrder, Increasing
  <2>3. ASSUME NEW i \in 1..Len(log'[session_id]), NEW x \in Nat, x = log'[session_id][i]
        PROVE  Newer(x) /\ BeforeQueue(x)
    <3>0. Len(log[session_id]) \in Nat
      BY <2>1
    <3>1. CASE i <= Len(log[session_id])
      <4>1. i \in 1..Len(log[session_id]) /\ x = log[session_id][i]
        BY <1>5, <2>3, <3>0, <3>1, LogGrows
      <4> QED
        BY <4>1 DEF Order, LogInOrder
    <3>2. CASE ~(i <= Len(log[session_id]))
      <4>1. PICK j \in 1..Len(batch) : x = batch[j]
        BY <1>5, <2>3, <3>0, <3>2, LogGrows
      <4> QED
        BY <4>1 DEF Order, BatchInOrder
    <3> QED
      BY <3>1, <3>2
  <2>4. \A i \in 1..Len(log'[session_id]) :
          Newer(log[session_id][i])' /\ BeforeQueue(log[session_id][i])'
    <3>1. \A i \in 1..Len(log'[session_id]) : log'[session_id][i] \in Nat
      BY <2>1
    <3>2. ASSUME NEW i \in 1..Len(log'[session_id]), NEW x \in Nat, x = log'[session_id][i]
          PROVE  Newer(x)' /\ BeforeQueue(x)'
      BY <1>2, <2>3, <3>2
    <3> QED
      BY <3>1, <3>2
  <2>5. LogInOrder'
    BY <1>1, <2>2, <2>4 DEF LogInOrder
  <2> QED
    BY <1>3, <2>5 DEF Order
<1> QED
  BY <1>4, <1>5 DEF RecordMany

LEMMA OrderNext == IInv /\ TypeOK' /\ Ownership /\ Order /\ [Next]_vars => Order'
<1> SUFFICES ASSUME IInv, TypeOK', Ownership, Order, [Next]_vars PROVE Order'
  OBVIOUS
<1>0. /\ TypeOK /\ ParserNeedsReader /\ frames \in Nat
      /\ rows \in 0..MaxSessions /\ session_id \in 0..rows
      /\ queue \in Seq(Nat) /\ batch \in Seq(Nat) /\ log \in [Sessions -> Seq(Nat)]
  BY DEF IInv, Control, TypeOK, FramesOK, CountersOK, DatabaseOK
<1>29. /\ session_id \in Sessions \/ session_id = 0
       /\ ParserAlive => session_id \in Sessions
       /\ \A i \in 1..Len(queue) : queue[i] \in Nat
       /\ \A i \in 1..Len(batch) : batch[i] \in Nat
       /\ session_id \in Sessions =>
            \A i \in 1..Len(log[session_id]) : log[session_id][i] \in Nat
  BY SMTT(40), <1>0 DEF Ownership, OwnSession
<1>1. CASE Start
  <2>1. parser' \in {"off", "failed"} /\ batch' = <<>> /\ UNCHANGED <<log, queue>>
    BY <1>0, <1>1 DEF Start, CanStart, ParserNeedsReader, Capturing,
                   ReaderAlive, ParserAlive, Ownership, NoBatchOutside
  <2> QED
    BY <2>1 DEF Order, QueueInOrder, BatchInOrder, LogInOrder, Increasing, ParserAlive
<1>2. CASE StartFails
  <2>1. parser' \in {"off", "failed"} /\ batch' = <<>> /\ UNCHANGED <<log, queue>>
    BY <1>0, <1>2 DEF StartFails, CanStart, ParserNeedsReader, Capturing,
                   ReaderAlive, ParserAlive, Ownership, NoBatchOutside
  <2> QED
    BY <2>1 DEF Order, QueueInOrder, BatchInOrder, LogInOrder, Increasing, ParserAlive
<1>3. CASE Stop
  BY OrderSame, <1>3 DEF Stop, ParserAlive, manager, counters, database
<1>4. CASE Interrupt
  BY OrderSame, <1>4 DEF Interrupt, ParserAlive, manager, counters, database
<1>5. CASE Exit
  <2>1. parser' = "off" /\ batch' = <<>> /\ log' = log
    BY <1>5 DEF Exit, database
  <2> QED
    BY <2>1 DEF Order, QueueInOrder, BatchInOrder, LogInOrder, Increasing, ParserAlive
<1>6. CASE Restart
  BY OrderSame, <1>6 DEF Restart, ParserAlive, manager, counters, database
<1>7. CASE KernelDrop
  BY OrderSame, <1>7 DEF KernelDrop, ParserAlive, manager, counters, database
<1>8. CASE ReaderOpens
  <2>1. /\ batch' = <<>> /\ queue' = <<>> /\ UNCHANGED <<log, session_id>>
        /\ log[session_id] = <<>>
    BY <1>8 DEF ReaderOpens, NewQueue, manager, database, Ownership, FreshSession
  <2> QED
    BY <2>1 DEF Order, QueueInOrder, BatchInOrder, LogInOrder, Increasing, BeforeQueue
<1>9. CASE OpenFails
  BY OrderSame, <1>9 DEF OpenFails, AfterOpenFails, ParserAlive, manager, counters, database
<1>10. CASE ReaderClosesSession
  BY OrderSame, <1>10 DEF ReaderClosesSession, StoreEndSession, ParserAlive, manager, counters, database
<1>11. CASE ReaderLoop
  BY OrderSame, <1>11 DEF ReaderLoop, ReadStats, ParserAlive, manager, counters, database
<1>12. CASE RecvTimeout
  BY OrderSame, <1>12 DEF RecvTimeout, ReadStats, ParserAlive, manager, counters, database
<1>13. CASE RecvFrame
  <2>1. /\ UNCHANGED <<parser, queue, batch, log, session_id>>
        /\ frames' = frames + 1 /\ reader = "recv" /\ reader' = "got"
    BY <1>13 DEF RecvFrame, manager, database
  <2>2. \A x \in Nat : Newer(x) => Newer(x)'
    BY <1>0, <2>1 DEF Newer
  <2>3. QueueInOrder'
    BY <1>29, <2>1, <2>2 DEF Order, QueueInOrder, ParserAlive
  <2>4. BatchInOrder'
    BY <1>29, <2>1, <2>2 DEF Order, BatchInOrder, ParserAlive, BeforeQueue
  <2>5. LogInOrder'
    BY <1>29, <2>1, <2>2 DEF Order, LogInOrder, ParserAlive, BeforeQueue
  <2> QED
    BY <2>3, <2>4, <2>5 DEF Order
<1>14. CASE RecvFails
  BY OrderSame, <1>14 DEF RecvFails, ParserAlive, manager, counters, database
<1>15. CASE WriteFails
  BY OrderSame, <1>15 DEF WriteFails, ParserAlive, manager, counters, database
<1>16. CASE WriteFrame
  BY OrderSame, <1>16 DEF WriteFrame, EndIteration, ReadStats, CountSkipped, ParserAlive, manager, counters, database
<1>17. CASE PutFrame
  <2>1. /\ UNCHANGED <<parser, batch, log, session_id, frames>>
        /\ reader = "put" /\ reader' = "loop" /\ queue' = Append(queue, frames)
    BY <1>17 DEF PutFrame, EndIteration, manager, database
  <2>2. \A x \in Nat : Newer(x) => Newer(x)' /\ x < frames
    BY <1>0, <2>1 DEF Newer
  <2>3. PICK v \in Nat : v = frames
    BY <1>0
  <2>4. Newer(v)' /\ queue' = Append(queue, v) /\ \A x \in Nat : Newer(x) => x < v
    BY <1>0, <2>1, <2>2, <2>3 DEF Newer
  <2>5. ParserAlive => session_id # 0
    BY <1>29
  <2> QED
    BY <1>0, <1>29, <2>1, <2>2, <2>4, <2>5, QueueGrows
<1>18. CASE Teardown
  BY OrderSame, <1>18 DEF Teardown, ParserAlive, manager, counters, database
<1>19. CASE HandOverSentinel
  <2>1. /\ UNCHANGED <<parser, batch, log, session_id, frames>>
        /\ reader' \notin {"got", "put"}
        /\ queue' = Append(queue, None) \/ queue' = queue
    BY <1>19 DEF HandOverSentinel, manager, counters, database
  <2>2. \A x \in Nat : Newer(x) => Newer(x)'
    BY <1>0, <2>1 DEF Newer
  <2>3. ParserAlive => session_id # 0
    BY <1>29
  <2>4. CASE queue' = Append(queue, None)
    BY <1>0, <1>29, <2>1, <2>2, <2>4, <2>3, QueueGrows
  <2>5. CASE queue' = queue
    BY <2>1, <2>5, OrderSame DEF ParserAlive
  <2> QED
    BY <2>1, <2>4, <2>5
<1>20. CASE JoinParser
  BY OrderSame, <1>20 DEF JoinParser, Joined, ParserAlive, manager, counters, database
<1>21. CASE TakeFrame
  <2>1. /\ UNCHANGED <<reader, log, session_id, frames>> /\ parser = "get"
        /\ queue # <<>> /\ queue' = Tail(queue)
    BY <1>21 DEF TakeFrame, manager, counters, database
  <2>2. ParserAlive
    BY <2>1 DEF ParserAlive
  <2>3. PICK f \in Nat : f = Head(queue) /\ f # None
    BY <1>0, <1>21, <2>1 DEF TakeFrame, TypeOK, FramesOK
  <2>4. /\ QueueInOrder'
        /\ \A x \in Nat : (Newer(x) => Newer(x)') /\ (BeforeQueue(x) => BeforeQueue(x)')
    BY <1>0, <2>1, <2>2, QueueShrinks DEF Order
  <2>5. /\ Newer(f) /\ BeforeQueue(f)' /\ \A x \in Nat : BeforeQueue(x) => x < f
    BY <1>0, <2>1, <2>2, <2>3, QueueShrinks DEF Order
  <2>6. batch' = batch \/ batch' = Append(batch, f)
    BY <1>21, <2>3 DEF TakeFrame
  <2>7. CASE batch' = batch
    BY <1>0, <1>29, <2>1, <2>2, <2>4, <2>7, BatchKept
  <2>8. CASE batch' = Append(batch, f)
    BY <1>0, <1>29, <2>1, <2>2, <2>4, <2>5, <2>8, BatchGrows
  <2> QED
    BY <2>6, <2>7, <2>8
<1>22. CASE TakeSentinel
  <2>1. /\ UNCHANGED <<reader, log, session_id, frames>> /\ parser = "get"
        /\ queue # <<>> /\ queue' = Tail(queue)
    BY <1>22 DEF TakeSentinel, manager, counters, database
  <2>2. ParserAlive
    BY <2>1 DEF ParserAlive
  <2>3. UNCHANGED batch
    BY <1>22 DEF TakeSentinel
  <2>4. /\ QueueInOrder'
        /\ \A x \in Nat : (Newer(x) => Newer(x)') /\ (BeforeQueue(x) => BeforeQueue(x)')
    BY <1>0, <2>1, <2>2, QueueShrinks DEF Order
  <2> QED
    BY <1>0, <1>29, <2>1, <2>2, <2>3, <2>4, BatchKept
<1>23. CASE TakeNothing
  BY OrderSame, <1>23 DEF TakeNothing, NextWhenIdle, ParserAlive, manager, counters, database
<1>24. CASE Flush
  <2>1. RecordMany("get") /\ parser \in {"check", "idle"}
    BY <1>24 DEF Flush, FlushDue
  <2>3. ParserAlive
    BY <2>1 DEF ParserAlive
  <2>2. UNCHANGED <<queue, session_id, frames, reader>>
    BY <1>24 DEF Flush, manager, counters
  <2> QED
    BY <1>0, <1>29, <2>1, <2>2, <2>3, RecordedOrder
<1>25. CASE SkipFlush
  BY OrderSame, <1>25 DEF SkipFlush, FlushNotDue, ParserAlive, manager, counters, database
<1>26. CASE FinalFlush
  <2>1. UNCHANGED <<queue, session_id, frames, reader>> /\ parser = "final"
    BY <1>26 DEF FinalFlush, manager, counters
  <2>2. ParserAlive
    BY <2>1 DEF ParserAlive
  <2>3. CASE RecordMany("closing")
    BY <1>0, <1>29, <2>1, <2>3, <2>2, RecordedOrder
  <2>4. CASE UNCHANGED <<batch, log>>
    BY <2>1, <2>4, OrderSame DEF ParserAlive
  <2> QED
    BY <1>26, <2>3, <2>4 DEF FinalFlush
<1>27. CASE EndSession
  BY OrderSame, <1>27 DEF EndSession, StoreEndSession, ParserAlive, manager, counters, database
<1>28. CASE UNCHANGED vars
  BY OrderSame, <1>28 DEF vars, ParserAlive
<1> QED
  BY <1>1, <1>2, <1>3, <1>4, <1>5, <1>6, <1>7, <1>8, <1>9, <1>10, <1>11,
     <1>12, <1>13, <1>14, <1>15, <1>16, <1>17, <1>18, <1>19, <1>20,
     <1>21, <1>22, <1>23, <1>24, <1>25, <1>26, <1>27, <1>28
  DEF Next, ReaderNext, ParserNext, OperatorNext, ProcessNext
-----------------------------------------------------------------------------
(* The counters.                                                           *)
LEMMA CountedNext ==
  IInv /\ TypeOK' /\ Ownership /\ Counted /\ SavedBound /\ [Next]_vars => Counted' /\ SavedBound'
<1> SUFFICES ASSUME IInv, TypeOK', Ownership, Counted, SavedBound, [Next]_vars
             PROVE  Counted' /\ SavedBound'
  OBVIOUS
<1>0. /\ ParserNeedsReader /\ CountersOK /\ session_id \in 0..MaxSessions
      /\ batch \in Seq(Nat) /\ log \in [Sessions -> Seq(Nat)]
      /\ ParserAlive => session_id \in Sessions
      /\ FreshCounters /\ FrameInHand
  <2>1. rows \in 0..MaxSessions /\ session_id \in 0..rows
    BY DEF IInv, TypeOK, DatabaseOK
  <2>2. ParserNeedsReader /\ FreshCounters /\ FrameInHand
    BY DEF IInv, Control
  <2>3. CountersOK /\ batch \in Seq(Nat) /\ log \in [Sessions -> Seq(Nat)]
    BY DEF IInv, TypeOK, FramesOK, DatabaseOK
  <2>4. ParserAlive => session_id \in Sessions
    BY <2>1 DEF Ownership, OwnSession
  <2> QED
    BY <2>1, <2>2, <2>3, <2>4
<1> USE DEF Counted, SavedBound, CountersOK, ReaderAlive, ParserAlive, Capturing, manager, counters, database
<1>1. CASE Start
  <2>1. parser' = parser /\ ~ParserAlive /\ reader' \in {"open", "failed"}
    BY <1>0, <1>1 DEF Start, CanStart, ParserNeedsReader
  <2>2. observed' = 0 /\ parsed' = 0
    BY <1>1 DEF Start, Reset
  <2> QED
    BY <2>1, <2>2
<1>2. CASE StartFails
  <2>1. parser' = parser /\ ~ParserAlive /\ reader' \in {"open", "failed"}
    BY <1>0, <1>2 DEF StartFails, CanStart, ParserNeedsReader
  <2>2. observed' = 0 /\ parsed' = 0
    BY <1>2 DEF StartFails, Reset
  <2> QED
    BY <2>1, <2>2
<1>3. CASE Stop
  BY <1>3, <1>0 DEF Stop, ParserNeedsReader, FreshCounters, FrameInHand
<1>4. CASE Interrupt
  BY <1>4, <1>0 DEF Interrupt, ParserNeedsReader, FreshCounters, FrameInHand
<1>5. CASE Exit
  BY <1>5, <1>0 DEF Exit, ParserNeedsReader, FreshCounters, FrameInHand
<1>6. CASE Restart
  BY <1>6, <1>0 DEF Restart, ParserNeedsReader, FreshCounters, FrameInHand
<1>7. CASE KernelDrop
  BY <1>7, <1>0 DEF KernelDrop, ParserNeedsReader, FreshCounters, FrameInHand
<1>8. CASE ReaderOpens
  <2>1. observed = 0 /\ log[session_id] = <<>>
    BY <1>8 DEF ReaderOpens, Ownership, FreshSession
  <2> QED
    BY <1>0, <1>8, <2>1 DEF ReaderOpens, FreshCounters
<1>9. CASE OpenFails
  BY <1>9, <1>0 DEF OpenFails, AfterOpenFails, ParserNeedsReader, FreshCounters, FrameInHand
<1>10. CASE ReaderClosesSession
  BY <1>10, <1>0 DEF ReaderClosesSession, StoreEndSession, ParserNeedsReader, FreshCounters, FrameInHand
<1>11. CASE ReaderLoop
  BY <1>11, <1>0 DEF ReaderLoop, ReadStats, ParserNeedsReader, FreshCounters, FrameInHand
<1>12. CASE RecvTimeout
  BY <1>12, <1>0 DEF RecvTimeout, ReadStats, ParserNeedsReader, FreshCounters, FrameInHand
<1>13. CASE RecvFrame
  BY <1>13, <1>0 DEF RecvFrame, ParserNeedsReader, FreshCounters, FrameInHand
<1>14. CASE RecvFails
  BY <1>14, <1>0 DEF RecvFails, ParserNeedsReader, FreshCounters, FrameInHand
<1>15. CASE WriteFails
  BY <1>15, <1>0 DEF WriteFails, ParserNeedsReader, FreshCounters, FrameInHand
<1>16. CASE WriteFrame
  BY <1>16, <1>0 DEF WriteFrame, EndIteration, ReadStats, CountSkipped, ParserNeedsReader, FreshCounters, FrameInHand
<1>17. CASE PutFrame
  BY <1>17, <1>0 DEF PutFrame, EndIteration, ReadStats, ParserNeedsReader, FreshCounters, FrameInHand
<1>18. CASE Teardown
  BY <1>18, <1>0 DEF Teardown, ParserNeedsReader, FreshCounters, FrameInHand
<1>19. CASE HandOverSentinel
  BY <1>19, <1>0 DEF HandOverSentinel, ParserNeedsReader, FreshCounters, FrameInHand
<1>20. CASE JoinParser
  BY <1>20, <1>0 DEF JoinParser, Joined, ParserNeedsReader, FreshCounters, FrameInHand
<1>21. CASE TakeFrame
  <2>1. parser = "get" /\ parser' = "check"
        /\ UNCHANGED <<reader, log, session_id, saved, frames>>
        /\ parsed' = parsed + 1
    BY <1>21 DEF TakeFrame
  <2>2. \/ batch' = Append(batch, Head(queue)) /\ observed' = observed + 1
        \/ UNCHANGED <<batch, observed>>
    BY <1>21 DEF TakeFrame
  <2>3. Len(batch') \in Nat /\ Len(batch) \in Nat /\ Len(log[session_id]) \in Nat
    <3>1. batch' \in Seq(Nat)
      BY DEF TypeOK, FramesOK
    <3>2. log[session_id] \in Seq(Nat)
      BY <1>0, <2>1
    <3> QED
      BY <1>0, <3>1, <3>2
  <2>4. Len(batch') <= Len(batch) + (observed' - observed)
    <3>1. Head(queue) \in Nat
      <4>1. queue \in Seq(Nat) /\ queue # <<>>
        BY <1>21 DEF TakeFrame, IInv, TypeOK, FramesOK
      <4> QED
        BY <4>1
    <3>2. Len(Append(batch, Head(queue))) = Len(batch) + 1
      BY <1>0, <3>1, PutLast
    <3> QED
      BY <1>0, <2>2, <2>3, <3>2
  <2> QED
    BY <1>0, <2>1, <2>2, <2>3, <2>4
<1>22. CASE TakeSentinel
  BY <1>22, <1>0 DEF TakeSentinel, ParserNeedsReader, FreshCounters, FrameInHand
<1>23. CASE TakeNothing
  BY <1>23, <1>0 DEF TakeNothing, NextWhenIdle, ParserNeedsReader, FreshCounters, FrameInHand
<1>24. CASE Flush
  <2>1. ASSUME NEW next, RecordMany(next), ParserAlive, UNCHANGED <<session_id, observed>>
        PROVE  Len(log'[session_id']) + Len(batch') <= observed'
    <3>1. Len(batch') = 0
      BY <2>1, BatchEmptied
    <3>2. Len(log[session_id]) \in Nat /\ Len(batch) \in Nat
      BY <1>0, <2>1
    <3>3. log' = log \/ log' = [log EXCEPT ![session_id] = log[session_id] \o batch]
      BY <2>1 DEF RecordMany
    <3>4. Len(log'[session_id]) <= Len(log[session_id]) + Len(batch)
      BY <1>0, <2>1, <3>2, <3>3, LogGrows DEF IInv
    <3>5. Len(log'[session_id]) \in Nat
      BY <1>0, <2>1 DEF TypeOK, DatabaseOK
    <3> QED
      BY <1>0, <2>1, <3>1, <3>2, <3>4, <3>5
  <2> QED
    BY <1>0, <1>24, <2>1 DEF Flush, FlushDue
<1>25. CASE SkipFlush
  BY <1>25, <1>0 DEF SkipFlush, FlushNotDue, ParserNeedsReader, FreshCounters, FrameInHand
<1>26. CASE FinalFlush
  <2>1. ASSUME NEW next, RecordMany(next), ParserAlive, UNCHANGED <<session_id, observed>>
        PROVE  Len(log'[session_id']) + Len(batch') <= observed'
    <3>1. Len(batch') = 0
      BY <2>1, BatchEmptied
    <3>2. Len(log[session_id]) \in Nat /\ Len(batch) \in Nat
      BY <1>0, <2>1
    <3>3. log' = log \/ log' = [log EXCEPT ![session_id] = log[session_id] \o batch]
      BY <2>1 DEF RecordMany
    <3>4. Len(log'[session_id]) <= Len(log[session_id]) + Len(batch)
      BY <1>0, <2>1, <3>2, <3>3, LogGrows DEF IInv
    <3>5. Len(log'[session_id]) \in Nat
      BY <1>0, <2>1 DEF TypeOK, DatabaseOK
    <3> QED
      BY <1>0, <2>1, <3>1, <3>2, <3>4, <3>5
  <2> QED
    BY <1>0, <1>26, <2>1 DEF FinalFlush
<1>27. CASE EndSession
  BY <1>27, <1>0 DEF EndSession, StoreEndSession, ParserNeedsReader, FreshCounters, FrameInHand
<1>28. CASE UNCHANGED vars
  BY <1>28, <1>0 DEF vars, ParserNeedsReader, FreshCounters, FrameInHand
<1> QED
  BY <1>1, <1>2, <1>3, <1>4, <1>5, <1>6, <1>7, <1>8, <1>9, <1>10, <1>11,
     <1>12, <1>13, <1>14, <1>15, <1>16, <1>17, <1>18, <1>19, <1>20,
     <1>21, <1>22, <1>23, <1>24, <1>25, <1>26, <1>27, <1>28
  DEF Next, ReaderNext, ParserNext, OperatorNext, ProcessNext
-----------------------------------------------------------------------------
(* The parser never has more than a batch.                                 *)
LEMMA BatchBoundedNext ==
  IInv /\ Ownership /\ BatchBounded /\ [Next]_vars => BatchBounded'
<1> SUFFICES ASSUME IInv, Ownership, BatchBounded, [Next]_vars PROVE BatchBounded'
  OBVIOUS
<1>0. batch \in Seq(Nat) /\ Len(batch) \in Nat /\ queue \in Seq(Nat) /\ Len(<<>>) = 0
  BY DEF IInv, TypeOK, FramesOK
<1> USE DEF BatchBounded
<1>1. CASE UNCHANGED <<parser, batch>>
  BY <1>1
<1>2. CASE batch' = <<>>
  BY <1>0, <1>2
<1>3. CASE TakeFrame
  <2>1. parser = "get" /\ parser' = "check" /\ queue # <<>>
        /\ batch' \in {batch, Append(batch, Head(queue))}
    BY <1>3 DEF TakeFrame
  <2>2. Head(queue) \in Nat
    BY <1>0, <2>1
  <2>3. Len(Append(batch, Head(queue))) = Len(batch) + 1
    BY <1>0, <2>2, PutLast
  <2> QED
    BY <1>0, <2>1, <2>3
<1>4. CASE batch' = batch /\ parser \in {"get", "idle", "final"}
  BY <1>4
<1>5. CASE batch' = batch /\ parser' \notin {"get", "idle", "final"}
  BY <1>5
<1>6. CASE SkipFlush
  BY <1>0, <1>6 DEF SkipFlush, FlushNotDue
<1>7. \/ UNCHANGED <<parser, batch>> \/ batch' = <<>>
      \/ TakeFrame \/ SkipFlush
      \/ batch' = batch /\ parser \in {"get", "idle", "final"}
      \/ batch' = batch /\ parser' \notin {"get", "idle", "final"}
  <2>1. ASSUME OperatorNext \/ ProcessNext \/ KernelDrop
        PROVE  UNCHANGED <<parser, batch>> \/ batch' = <<>>
    BY <2>1 DEF OperatorNext, ProcessNext, Start, StartFails, Stop, Interrupt, Exit, Restart,
                KernelDrop
  <2>2. ASSUME ReaderNext PROVE UNCHANGED <<parser, batch>> \/ batch' = <<>>
    BY <2>2 DEF ReaderNext, ReaderOpens, OpenFails, ReaderClosesSession, ReaderLoop, RecvTimeout,
                RecvFrame, RecvFails, WriteFails, WriteFrame, PutFrame, Teardown,
                HandOverSentinel, JoinParser
  <2>3. ASSUME NEW next, RecordMany(next) PROVE batch' = <<>>
    BY <2>3 DEF RecordMany, EmptiedBatch
  <2>4. ASSUME ParserNext
        PROVE  \/ batch' = <<>>
               \/ TakeFrame \/ SkipFlush
               \/ batch' = batch /\ parser \in {"get", "idle", "final"}
               \/ batch' = batch /\ parser' \notin {"get", "idle", "final"}
    BY <2>3, <2>4 DEF ParserNext, TakeSentinel, TakeNothing, Flush, FinalFlush, EndSession
  <2> QED
    BY <2>1, <2>2, <2>4 DEF Next, vars
<1> QED
  BY <1>1, <1>2, <1>3, <1>4, <1>5, <1>6, <1>7

-----------------------------------------------------------------------------
(* What was decoded is in the log or in the batch.                         *)
LEMMA ConservedNext ==
  IInv /\ Ownership /\ BatchBounded /\ ObservationsConserved /\ [Next]_vars
    => ObservationsConserved'
<1> SUFFICES ASSUME IInv, Ownership, BatchBounded, ObservationsConserved, [Next]_vars
             PROVE  ObservationsConserved'
  OBVIOUS
<1>0. /\ ParserNeedsReader /\ observed \in Nat
      /\ batch \in Seq(Nat) /\ log \in [Sessions -> Seq(Nat)] /\ rows \in 0..MaxSessions
      /\ ReaderAlive => session_id \in Sessions
      /\ Len(batch) \in 0..BatchSize
  <2>1. rows \in 0..MaxSessions /\ session_id \in 0..rows
    BY DEF IInv, TypeOK, DatabaseOK
  <2>2. ReaderAlive => session_id \in Sessions
    BY <2>1 DEF Ownership, OwnSession
  <2>3. Len(batch) \in 0..BatchSize
    BY DEF BatchBounded, IInv, TypeOK, FramesOK
  <2> QED
    BY <2>1, <2>2, <2>3 DEF IInv, Control, TypeOK, FramesOK, DatabaseOK, CountersOK
<1> USE DEF ObservationsConserved, NoDatabaseError, ReaderAlive, ParserAlive, Capturing, manager, counters, database
<1>1. CASE Start
  <2>1. batch' = <<>>
    BY <1>0, <1>1 DEF Start, CanStart, ParserNeedsReader, Ownership, NoBatchOutside
  <2>2. log'[session_id'] = <<>>
    BY <1>0, <1>1 DEF Start, BeginSession, Ownership, UnusedSessions
  <2> QED
    BY <1>1, <2>1, <2>2 DEF Start, Reset
<1>2. CASE StartFails
  BY <1>2 DEF StartFails
<1>3. CASE Stop
  BY <1>3 DEF Stop
<1>4. CASE Interrupt
  BY <1>4 DEF Interrupt
<1>5. CASE Exit
  BY <1>5 DEF Exit
<1>6. CASE Restart
  BY <1>6 DEF Restart
<1>7. CASE KernelDrop
  BY <1>7 DEF KernelDrop
<1>8. CASE ReaderOpens
  <2>1. observed = 0 /\ log[session_id] = <<>>
    BY <1>8 DEF ReaderOpens, Ownership, FreshSession
  <2> QED
    BY <1>8, <2>1 DEF ReaderOpens
<1>9. CASE OpenFails
  BY <1>9 DEF OpenFails, AfterOpenFails
<1>10. CASE ReaderClosesSession
  BY <1>10 DEF ReaderClosesSession, StoreEndSession
<1>11. CASE ReaderLoop
  BY <1>11 DEF ReaderLoop, ReadStats
<1>12. CASE RecvTimeout
  BY <1>12 DEF RecvTimeout, ReadStats
<1>13. CASE RecvFrame
  BY <1>13 DEF RecvFrame
<1>14. CASE RecvFails
  BY <1>14 DEF RecvFails
<1>15. CASE WriteFails
  BY <1>15 DEF WriteFails
<1>16. CASE WriteFrame
  BY <1>16 DEF WriteFrame, EndIteration, ReadStats, CountSkipped
<1>17. CASE PutFrame
  BY <1>17 DEF PutFrame, EndIteration, ReadStats
<1>18. CASE Teardown
  BY <1>18 DEF Teardown
<1>19. CASE HandOverSentinel
  BY <1>19 DEF HandOverSentinel
<1>20. CASE JoinParser
  BY <1>20 DEF JoinParser, Joined
<1>21. CASE TakeFrame
  <2>1. parser = "get" /\ parser' = "check" /\ UNCHANGED <<reader, log, session_id>>
    BY <1>21 DEF TakeFrame
  <2>2. \/ batch' = Append(batch, Head(queue)) /\ observed' = observed + 1
        \/ UNCHANGED <<batch, observed>>
    BY <1>21 DEF TakeFrame
  <2>3. CASE batch' = Append(batch, Head(queue)) /\ observed' = observed + 1
    <3>1. queue \in Seq(Nat) /\ queue # <<>>
      BY <1>21 DEF TakeFrame, IInv, TypeOK, FramesOK
    <3>2. Head(queue) \in Nat
      BY <3>1
    <3>3. Len(Append(batch, Head(queue))) = Len(batch) + 1
      BY <1>0, <3>2, PutLast
    <3>4. session_id \in Sessions
      BY <1>0, <2>1 DEF ParserNeedsReader
    <3>5. Len(batch) \in Nat /\ Len(log[session_id]) \in Nat
      BY <1>0, <3>4
    <3>6. Len(batch') = Len(batch) + 1 /\ observed' = observed + 1 /\ log'[session_id'] = log[session_id]
      BY <2>1, <2>3, <3>3
    <3> QED
      BY <1>0, <2>1, <3>4, <3>5, <3>6
  <2>4. CASE UNCHANGED <<batch, observed>>
    BY <2>1, <2>4
  <2> QED
    BY <2>2, <2>3, <2>4
<1>22. CASE TakeSentinel
  BY <1>22 DEF TakeSentinel
<1>23. CASE TakeNothing
  BY <1>23 DEF TakeNothing, NextWhenIdle
<1>24. CASE Flush
  <2>1. session_id \in Sessions /\ UNCHANGED <<session_id, observed, reader>> /\ parser \notin {"unwind", "failed"}
    BY <1>0, <1>24 DEF Flush, FlushDue, ParserNeedsReader
  <2>2. ASSUME NEW next, RecordMany(next) PROVE ObservationsConserved'
    <3>1. CASE log' = [log EXCEPT ![session_id] = log[session_id] \o batch]
      <4>1. Len(log'[session_id]) = Len(log[session_id]) + Len(batch)
        BY <2>1, <3>1, LogGrows DEF IInv
      <4>2. Len(batch') = 0 /\ Len(log[session_id]) \in Nat /\ Len(batch) \in Nat
        BY <1>0, <2>1, <2>2, BatchEmptied
      <4> QED
        BY <2>1, <4>1, <4>2
    <3>2. CASE batch' = <<>> /\ parser' = "unwind" /\ log' = log
      BY <1>0, <2>1, <3>2
    <3> QED
      BY <2>2, <3>1, <3>2 DEF RecordMany
  <2> QED
    BY <1>24, <2>1, <2>2 DEF Flush
<1>25. CASE SkipFlush
  BY <1>25 DEF SkipFlush, FlushNotDue
<1>26. CASE FinalFlush
  <2>1. session_id \in Sessions /\ UNCHANGED <<session_id, observed, reader>> /\ parser \notin {"unwind", "failed"}
    BY <1>0, <1>26 DEF FinalFlush, ParserNeedsReader
  <2>2. ASSUME NEW next, RecordMany(next) PROVE ObservationsConserved'
    <3>1. CASE log' = [log EXCEPT ![session_id] = log[session_id] \o batch]
      <4>1. Len(log'[session_id]) = Len(log[session_id]) + Len(batch)
        BY <2>1, <3>1, LogGrows DEF IInv
      <4>2. Len(batch') = 0 /\ Len(log[session_id]) \in Nat /\ Len(batch) \in Nat
        BY <1>0, <2>1, <2>2, BatchEmptied
      <4> QED
        BY <2>1, <4>1, <4>2
    <3>2. CASE batch' = <<>> /\ parser' = "unwind" /\ log' = log
      BY <1>0, <2>1, <3>2
    <3> QED
      BY <2>2, <3>1, <3>2 DEF RecordMany
  <2> QED
    BY <1>26, <2>1, <2>2 DEF FinalFlush
<1>27. CASE EndSession
  BY <1>27 DEF EndSession, StoreEndSession
<1>28. CASE UNCHANGED vars
  BY <1>28 DEF vars
<1> QED
  BY <1>1, <1>2, <1>3, <1>4, <1>5, <1>6, <1>7, <1>8, <1>9, <1>10, <1>11,
     <1>12, <1>13, <1>14, <1>15, <1>16, <1>17, <1>18, <1>19, <1>20,
     <1>21, <1>22, <1>23, <1>24, <1>25, <1>26, <1>27, <1>28
  DEF Next, ReaderNext, ParserNext, OperatorNext, ProcessNext

-----------------------------------------------------------------------------
(* A session that was closed without an error was closed drained, and its  *)
(* capture changes nothing any more.                                       *)
LEMMA ClosedIsOver ==
  ASSUME IInv, Ownership, session_id # 0, ended[session_id], NoDatabaseError
  PROVE  reader \in {"join", "off"} /\ parser = "off"
<1>1. ~ParserAlive /\ reader \notin {"open", "abort", "failed"} /\ parser \in ParserStates
      /\ DrainedAfterSentinel
  BY DEF NoDatabaseError, Ownership, OwnSession, IInv, Control, TypeOK, ThreadsOK
<1>2. parser = "off"
  BY <1>1 DEF ParserAlive, NoDatabaseError
<1>3. Capturing => reader = "join"
  BY <1>1, <1>2 DEF DrainedAfterSentinel
<1> QED
  BY <1>1, <1>2, <1>3 DEF Capturing, ReaderAlive

LEMMA DrainedNext ==
  IInv /\ Ownership /\ ClosedMeansDrained /\ [Next]_vars => ClosedMeansDrained'
<1> SUFFICES ASSUME IInv, Ownership, ClosedMeansDrained, [Next]_vars,
                    session_id' # 0, ended'[session_id'], NoDatabaseError'
             PROVE  /\ queue' = <<>> /\ batch' = <<>>
                    /\ tally'[session_id'] = [frames |-> frames', dropped |-> dropped']
  BY DEF ClosedMeansDrained
<1>0. /\ ParserNeedsReader /\ NothingLeftBehind /\ DrainedAfterSentinel
      /\ rows \in 0..MaxSessions /\ session_id \in 0..rows
      /\ ended \in [Sessions -> BOOLEAN] /\ tally \in [Sessions -> [frames : Nat, dropped : Nat]]
  BY DEF IInv, Control, TypeOK, DatabaseOK
<1> USE DEF ClosedMeansDrained, NoDatabaseError, manager, counters, database
<1>1. CASE Start
  <2>1. ~ended[rows + 1]
    BY <1>0, <1>1 DEF Start, BeginSession, Ownership, UnusedSessions
  <2> QED
    BY <1>1, <2>1 DEF Start, BeginSession
<1>2. CASE StartFails
  BY <1>2, ClosedIsOver DEF StartFails, Reset, BeginSession
<1>3. CASE Stop
  BY <1>3, ClosedIsOver DEF Stop
<1>4. CASE Interrupt
  BY <1>4, ClosedIsOver DEF Interrupt
<1>5. CASE Exit
  BY <1>5, ClosedIsOver DEF Exit
<1>6. CASE Restart
  BY <1>6, ClosedIsOver DEF Restart
<1>7. CASE KernelDrop
  BY <1>7, ClosedIsOver DEF KernelDrop
<1>8. CASE ReaderOpens
  BY <1>8 DEF ReaderOpens, Ownership, OwnSession
<1>9. CASE OpenFails
  BY <1>9, ClosedIsOver DEF OpenFails, AfterOpenFails
<1>10. CASE ReaderClosesSession
  <2>1. reader = "abort" /\ UNCHANGED parser
    BY <1>10 DEF ReaderClosesSession
  <2>2. session_id \in Sessions /\ UNCHANGED <<session_id, batch, queue, frames, dropped>>
    BY <1>0, <1>10, <2>1 DEF ReaderClosesSession, Ownership, OwnSession, ReaderAlive
  <2>3. StoreEndSession
    BY <1>10 DEF ReaderClosesSession
  <2>4. queue = <<>> /\ batch = <<>>
    BY <1>0, <2>1 DEF NothingLeftBehind, ParserNeedsReader, Capturing, ParserAlive,
                      Ownership, NoBatchOutside
  <2> QED
    BY <1>0, <2>2, <2>3, <2>4 DEF StoreEndSession
<1>11. CASE ReaderLoop
  BY <1>11, ClosedIsOver DEF ReaderLoop, ReadStats
<1>12. CASE RecvTimeout
  BY <1>12, ClosedIsOver DEF RecvTimeout, ReadStats
<1>13. CASE RecvFrame
  BY <1>13, ClosedIsOver DEF RecvFrame
<1>14. CASE RecvFails
  BY <1>14, ClosedIsOver DEF RecvFails
<1>15. CASE WriteFails
  BY <1>15, ClosedIsOver DEF WriteFails
<1>16. CASE WriteFrame
  BY <1>16, ClosedIsOver DEF WriteFrame, EndIteration, ReadStats, CountSkipped
<1>17. CASE PutFrame
  BY <1>17, ClosedIsOver DEF PutFrame, EndIteration, ReadStats
<1>18. CASE Teardown
  BY <1>18, ClosedIsOver DEF Teardown
<1>19. CASE HandOverSentinel
  BY <1>19, ClosedIsOver DEF HandOverSentinel
<1>20. CASE JoinParser
  BY <1>20, ClosedIsOver DEF JoinParser, Joined
<1>21. CASE TakeFrame
  BY <1>21, ClosedIsOver DEF TakeFrame
<1>22. CASE TakeSentinel
  BY <1>22, ClosedIsOver DEF TakeSentinel
<1>23. CASE TakeNothing
  BY <1>23, ClosedIsOver DEF TakeNothing, NextWhenIdle
<1>24. CASE Flush
  BY <1>24, ClosedIsOver DEF Flush, FlushDue, RecordMany, EmptiedBatch
<1>25. CASE SkipFlush
  BY <1>25, ClosedIsOver DEF SkipFlush, FlushNotDue
<1>26. CASE FinalFlush
  BY <1>26, ClosedIsOver DEF FinalFlush, RecordMany, EmptiedBatch
<1>27. CASE EndSession
  <2>1. parser = "closing" /\ StoreEndSession
    BY <1>27 DEF EndSession
  <2>2. session_id \in Sessions /\ UNCHANGED <<session_id, batch, queue, frames, dropped>>
    BY <1>0, <1>27, <2>1 DEF EndSession, Ownership, OwnSession, ParserAlive
  <2>3. queue = <<>> /\ batch = <<>>
    BY <1>0, <2>1 DEF DrainedAfterSentinel, ParserNeedsReader, ParserAlive,
                      Ownership, NoBatchOutside
  <2> QED
    BY <1>0, <2>1, <2>2, <2>3 DEF StoreEndSession
<1>28. CASE UNCHANGED vars
  BY <1>28, ClosedIsOver DEF vars
<1> QED
  BY <1>1, <1>2, <1>3, <1>4, <1>5, <1>6, <1>7, <1>8, <1>9, <1>10, <1>11,
     <1>12, <1>13, <1>14, <1>15, <1>16, <1>17, <1>18, <1>19, <1>20,
     <1>21, <1>22, <1>23, <1>24, <1>25, <1>26, <1>27, <1>28
  DEF Next, ReaderNext, ParserNext, OperatorNext, ProcessNext
-----------------------------------------------------------------------------
LEMMA LedgerStart == Init => LedgerInv
<1> SUFFICES ASSUME Init PROVE LedgerInv
  OBVIOUS
<1>1. IInv
  BY TypeInit, ControlInit DEF IInv
<1>2. Ownership
  BY DEF Init, Ownership, OwnSession, UnusedSessions, NoBatchOutside, FreshSession,
         ReaderAlive, ParserAlive
<1>3. Order
  BY DEF Init, Order, QueueInOrder, BatchInOrder, LogInOrder, Increasing, ParserAlive
<1>4. Counted /\ SavedBound
  BY DEF Init, Counted, SavedBound, ParserAlive, Capturing, ReaderAlive
<1>5. BatchBounded /\ ObservationsConserved /\ ClosedMeansDrained
  BY DEF Init, BatchBounded, ObservationsConserved, ClosedMeansDrained
<1> QED
  BY <1>1, <1>2, <1>3, <1>4, <1>5 DEF LedgerInv

LEMMA LedgerNext == LedgerInv /\ [Next]_vars => LedgerInv'
<1> SUFFICES ASSUME LedgerInv, [Next]_vars PROVE LedgerInv'
  OBVIOUS
<1>1. IInv' /\ TypeOK'
  BY TypeNext, ControlNext, AccountedNext DEF LedgerInv, IInv
<1>2. Ownership'
  BY OwnershipNext DEF LedgerInv
<1>3. Order'
  BY <1>1, OrderNext DEF LedgerInv
<1>4. Counted' /\ SavedBound'
  BY <1>1, CountedNext DEF LedgerInv
<1>5. BatchBounded' /\ ObservationsConserved' /\ ClosedMeansDrained'
  BY BatchBoundedNext, ConservedNext, DrainedNext DEF LedgerInv
<1> QED
  BY <1>1, <1>2, <1>3, <1>4, <1>5 DEF LedgerInv

THEOREM LedgerInvariance == Spec => []LedgerInv
BY LedgerStart, LedgerNext, PTL DEF Spec

(***************************************************************************)
(* Everything the parser decoded is in the database once, or in its batch, *)
(* however the flushes fall and wherever the reader is (_parse_loop's      *)
(* flush, record_many); a transaction that fails loses its own batch, so   *)
(* BatchSize observations of a session at most, and nothing is ever        *)
(* recorded twice.                                                         *)
(***************************************************************************)
THEOREM NothingDecodedIsLost == Spec => []ObservationsConserved
<1>1. LedgerInv => ObservationsConserved
  BY DEF LedgerInv
<1> QED
  BY <1>1, LedgerInvariance, PTL

(***************************************************************************)
(* A session that was closed without a database error was closed with the  *)
(* queue and the batch empty and the counters the capture ended on: the    *)
(* docstring of _parse_loop, for every capacity and batch size.            *)
(***************************************************************************)
THEOREM ClosedDrained == Spec => []ClosedMeansDrained
<1>1. LedgerInv => ClosedMeansDrained
  BY DEF LedgerInv
<1> QED
  BY <1>1, LedgerInvariance, PTL

(***************************************************************************)
(* Frames reach the database in the order of their arrival, each at most   *)
(* once, through queue, batches and transactions, in every session.        *)
(***************************************************************************)
THEOREM ArrivalOrder == Spec => []RecordedInOrder
<1>1. LedgerInv => RecordedInOrder
  <2> SUFFICES ASSUME LedgerInv PROVE RecordedInOrder
    OBVIOUS
  <2>1. /\ session_id # 0 => session_id \in Sessions
        /\ batch \in Seq(Nat) /\ log \in [Sessions -> Seq(Nat)]
    <3>1. rows \in 0..MaxSessions /\ session_id \in 0..rows
      BY DEF LedgerInv, IInv, TypeOK, DatabaseOK
    <3> QED
      BY <3>1 DEF LedgerInv, IInv, TypeOK, FramesOK, DatabaseOK
  <2>2. session_id # 0 => Increasing(log[session_id] \o batch)
    BY <2>1, JoinIncreasing DEF LedgerInv, Order, LogInOrder, BatchInOrder
  <2> QED
    BY <2>2 DEF RecordedInOrder, LedgerInv, Order, LogInOrder
<1> QED
  BY <1>1, LedgerInvariance, PTL

-----------------------------------------------------------------------------
(* The threads and the ledger.                                             *)

(* No more observations than frames received.                              *)
LEMMA NoMoreThanFrames ==
  ASSUME LedgerInv, ParserAlive
  PROVE  Len(log[session_id]) <= frames
<1>1. /\ session_id \in Sessions /\ Capturing
      /\ batch \in Seq(Nat) /\ log \in [Sessions -> Seq(Nat)] /\ queue \in Seq(Nat)
      /\ CountersOK
  <2>1. rows \in 0..MaxSessions /\ session_id \in 0..rows
    BY DEF LedgerInv, IInv, TypeOK, DatabaseOK
  <2>2. session_id \in Sessions /\ Capturing
    BY <2>1 DEF LedgerInv, Ownership, OwnSession, IInv, Control, ParserNeedsReader
  <2> QED
    BY <2>2 DEF LedgerInv, IInv, TypeOK, FramesOK, DatabaseOK
<1>2. Len(log[session_id]) \in Nat /\ Len(batch) \in Nat /\ Len(queue) \in Nat
  BY <1>1
<1>3. Len(log[session_id]) + Len(batch) <= observed /\ observed <= parsed
  BY DEF LedgerInv, Counted
<1>4. parsed <= Accepted
  <2>1. Accepted = parsed + unparsed + FramesQueued + (IF reader = "put" THEN 1 ELSE 0)
    BY <1>1 DEF LedgerInv, IInv, FramesAccounted
  <2>2. FramesQueued \in Nat
    BY <1>1, <1>2 DEF FramesQueued, SentinelQueued
  <2> QED
    BY <1>1, <2>1, <2>2 DEF CountersOK
<1>5. Accepted <= frames /\ Accepted \in Int
  BY <1>1 DEF LedgerInv, SavedBound, Accepted, CountersOK
<1> QED
  BY <1>1, <1>2, <1>3, <1>4, <1>5 DEF CountersOK

LEMMA BeginMaps ==
  ASSUME LedgerInv, BeginSession, UNCHANGED <<ended, tally, log>>
  PROVE  Ledger!Begin
BY DEF BeginSession, Ledger!Begin

LEMMA CloseMaps ==
  ASSUME LedgerInv, StoreEndSession, UNCHANGED <<rows, log>>,
         reader = "abort" \/ ParserAlive
  PROVE  Ledger!Close
<1>1. /\ session_id = rows /\ rows > 0 /\ rows \in Sessions /\ ~ended[rows]
      /\ tally \in [Sessions -> [frames : Nat, dropped : Nat]] /\ frames \in Nat
  <2>1. rows \in 0..MaxSessions
    BY DEF LedgerInv, IInv, TypeOK, DatabaseOK
  <2>2. session_id = rows /\ rows > 0 /\ ~ended[rows]
    BY DEF LedgerInv, Ownership, OwnSession, ReaderAlive
  <2> QED
    BY <2>1, <2>2 DEF LedgerInv, IInv, TypeOK, DatabaseOK, CountersOK
<1>2. Len(log[rows]) <= frames
  <2>1. CASE reader = "abort"
    <3>1. log[rows] = <<>>
      BY <1>1, <2>1 DEF LedgerInv, Ownership, FreshSession
    <3> QED
      BY <1>1, <3>1
  <2>2. CASE ParserAlive
    BY <1>1, <2>2, NoMoreThanFrames
  <2> QED
    BY <2>1, <2>2
<1>3. tally' = [tally EXCEPT ![rows] = tally'[rows]] /\ tally'[rows].frames = frames
  BY <1>1 DEF StoreEndSession
<1>4. ended' = [ended EXCEPT ![rows] = TRUE]
  BY <1>1 DEF StoreEndSession
<1> QED
  BY <1>1, <1>2, <1>3, <1>4 DEF Ledger!Close

LEMMA RecordMaps ==
  ASSUME LedgerInv, LedgerInv', ParserAlive, batch # <<>>,
         NEW next, RecordMany(next), UNCHANGED <<rows, ended, tally>>
  PROVE  Ledger!Record \/ UNCHANGED log
<1>1. /\ session_id = rows /\ rows > 0 /\ rows \in Sessions /\ ~ended[rows] /\ TypeOK
      /\ log \in [Sessions -> Seq(Nat)] /\ batch \in Seq(Nat)
  <2>1. rows \in 0..MaxSessions
    BY DEF LedgerInv, IInv, TypeOK, DatabaseOK
  <2>2. session_id = rows /\ rows > 0 /\ ~ended[rows]
    BY DEF LedgerInv, Ownership, OwnSession, ReaderAlive
  <2>3. TypeOK
    BY DEF LedgerInv, IInv
  <2>4. log \in [Sessions -> Seq(Nat)] /\ batch \in Seq(Nat)
    BY <2>3 DEF TypeOK, FramesOK, DatabaseOK
  <2> QED
    BY <2>1, <2>2, <2>3, <2>4
<1> SUFFICES ASSUME log' = [log EXCEPT ![session_id] = @ \o batch]
             PROVE  Ledger!Record
  BY DEF RecordMany
<1>2. /\ Len(log'[rows]) = Len(log[rows]) + Len(batch)
      /\ \A i \in 1..Len(log[rows]) : log'[rows][i] = log[rows][i]
  BY <1>1, LogGrows
<1>3. Len(batch) \in Nat \ {0} /\ Len(log[rows]) \in Nat
  <2>1. Len(batch) \in Nat /\ Len(batch) # 0
    BY <1>1, EmptySeq
  <2> QED
    BY <1>1, <2>1
<1>4. Increasing(log'[rows])
  BY <1>1 DEF LedgerInv, Order, LogInOrder, Increasing
<1>5. Ledger!Extends(log'[rows], log[rows])
  BY <1>2, <1>3, <1>4 DEF Ledger!Extends, Increasing
<1>6. log' = [log EXCEPT ![rows] = log'[rows]]
  BY <1>1
<1> QED
  BY <1>1, <1>5, <1>6 DEF Ledger!Record

LEMMA LedgerStep ==
  LedgerInv /\ LedgerInv' /\ [Next]_vars => [Ledger!Next]_(Ledger!LedgerVars)
<1> SUFFICES ASSUME LedgerInv, LedgerInv', [Next]_vars
             PROVE  Ledger!Next \/ UNCHANGED <<rows, ended, tally, log>>
  BY DEF Ledger!LedgerVars
<1> USE DEF manager, counters, database
<1>1. CASE Start
  BY <1>1, BeginMaps DEF Start, Ledger!Next
<1>2. CASE StartFails
  BY <1>2, BeginMaps DEF StartFails, Ledger!Next
<1>3. CASE Stop
  BY <1>3 DEF Stop
<1>4. CASE Interrupt
  BY <1>4 DEF Interrupt
<1>5. CASE Exit
  BY <1>5 DEF Exit
<1>6. CASE Restart
  BY <1>6 DEF Restart
<1>7. CASE KernelDrop
  BY <1>7 DEF KernelDrop
<1>8. CASE ReaderOpens
  BY <1>8 DEF ReaderOpens
<1>9. CASE OpenFails
  BY <1>9 DEF OpenFails
<1>10. CASE ReaderClosesSession
  BY <1>10, CloseMaps DEF ReaderClosesSession, Ledger!Next
<1>11. CASE ReaderLoop
  BY <1>11 DEF ReaderLoop
<1>12. CASE RecvTimeout
  BY <1>12 DEF RecvTimeout
<1>13. CASE RecvFrame
  BY <1>13 DEF RecvFrame
<1>14. CASE RecvFails
  BY <1>14 DEF RecvFails
<1>15. CASE WriteFails
  BY <1>15 DEF WriteFails
<1>16. CASE WriteFrame
  BY <1>16 DEF WriteFrame
<1>17. CASE PutFrame
  BY <1>17 DEF PutFrame
<1>18. CASE Teardown
  BY <1>18 DEF Teardown
<1>19. CASE HandOverSentinel
  BY <1>19 DEF HandOverSentinel
<1>20. CASE JoinParser
  BY <1>20 DEF JoinParser
<1>21. CASE TakeFrame
  BY <1>21 DEF TakeFrame
<1>22. CASE TakeSentinel
  BY <1>22 DEF TakeSentinel
<1>23. CASE TakeNothing
  BY <1>23 DEF TakeNothing
<1>24. CASE Flush
  BY <1>24, RecordMaps DEF Flush, FlushDue, ParserAlive, Ledger!Next
<1>25. CASE SkipFlush
  BY <1>25 DEF SkipFlush
<1>26. CASE FinalFlush
  BY <1>26, RecordMaps DEF FinalFlush, ParserAlive, Ledger!Next
<1>27. CASE EndSession
  BY <1>27, CloseMaps DEF EndSession, ParserAlive, Ledger!Next
<1>28. CASE UNCHANGED vars
  BY <1>28 DEF vars
<1> QED
  BY <1>1, <1>2, <1>3, <1>4, <1>5, <1>6, <1>7, <1>8, <1>9, <1>10, <1>11,
     <1>12, <1>13, <1>14, <1>15, <1>16, <1>17, <1>18, <1>19, <1>20,
     <1>21, <1>22, <1>23, <1>24, <1>25, <1>26, <1>27, <1>28
  DEF Next, ReaderNext, ParserNext, OperatorNext, ProcessNext

(***************************************************************************)
(* The threads implement the ledger: a step of theirs begins the next      *)
(* session, adds newer observations to the newest open session, closes it  *)
(* for good, or leaves the database alone, whatever fails and wherever the *)
(* process dies.                                                           *)
(***************************************************************************)
THEOREM ImplementsLedger == Spec => LedgerSpec
<1>1. Init => Ledger!Init
  BY DEF Init, Ledger!Init, Ledger!SessionIds
<1>2. LedgerInv /\ LedgerInv' /\ [Next]_vars => [Ledger!Next]_(Ledger!LedgerVars)
  BY LedgerStep
<1> QED
  BY <1>1, <1>2, LedgerInvariance, PTL DEF Spec, LedgerSpec, Ledger!Spec
=============================================================================
