------------------------ MODULE CapturePipelineProofs ------------------------
(***************************************************************************)
(* What holds of the capture for every queue capacity, batch size, number  *)
(* of sessions and frames, and every set of faults.                        *)
(*                                                                         *)
(* The counters agree only because of where the two threads are, so the    *)
(* inductive invariant adds to FramesAccounted what each thread may rely   *)
(* on at its program counter: the parser lives only while the reader runs  *)
(* a capture, the sentinel is the last thing in the queue, and a parser    *)
(* that took it left the queue empty behind it.                            *)
(***************************************************************************)
EXTENDS CapturePipeline, Integers, TLAPS

(* The reader that is not running a capture has no live parser.            *)
ParserNeedsReader == ~Capturing => ~ParserAlive

(* Nothing follows the sentinel, which the reader puts just before joining.*)
SentinelLast ==
  Capturing =>
    \A i \in 1..Len(queue) :
      queue[i] = None => i = Len(queue) /\ reader = "join"

(* A parser that left its loop by the sentinel left nothing in the queue.  *)
DrainedAfterSentinel ==
  Capturing /\ parser \in {"final", "closing", "off"} =>
    queue = <<>> /\ reader = "join"

(* Between captures only a parser that failed leaves frames behind.        *)
NothingLeftBehind ==
  ~Capturing /\ parser # "failed" => queue = <<>>

(* A capture that has not opened yet has counted nothing.                  *)
FreshCounters ==
  reader \in {"open", "abort"} =>
    frames = 0 /\ parsed = 0 /\ unparsed = 0 /\ saved = 0

(* A frame in the reader's hand has a number, which None is not.           *)
FrameInHand == reader \in {"got", "put"} => frames > 0

Control ==
  /\ ParserNeedsReader
  /\ SentinelLast
  /\ DrainedAfterSentinel
  /\ NothingLeftBehind
  /\ FreshCounters
  /\ FrameInHand
  /\ PutNeverBlocks

IInv == TypeOK /\ Control /\ FramesAccounted

-----------------------------------------------------------------------------
(* The constants' assumption, in the form the steps use it.                *)
USE PipelineAssumption DEF None, Sessions, NoTally

-----------------------------------------------------------------------------
(***************************************************************************)
(* Every variable keeps its type: in particular the reader and the parser  *)
(* are always at one of their named places and a session id is never one   *)
(* the database does not hold.                                             *)
(***************************************************************************)
LEMMA TypeInit == Init => TypeOK
<1> SUFFICES ASSUME Init PROVE TypeOK
  OBVIOUS
<1>1. ThreadsOK
  BY DEF Init, ThreadsOK, ReaderStates, ParserStates
<1>2. FlagsOK
  BY DEF Init, FlagsOK
<1>3. CountersOK
  BY DEF Init, CountersOK
<1>4. FramesOK
  BY DEF Init, FramesOK
<1>5. DatabaseOK
  BY DEF Init, DatabaseOK
<1> QED
  BY <1>1, <1>2, <1>3, <1>4, <1>5 DEF TypeOK

(* The types of what record_many and end_session write.                    *)
LEMMA BatchEmptied ==
  ASSUME NEW next, RecordMany(next) PROVE batch' = <<>>
BY DEF RecordMany, EmptiedBatch

LEMMA LogType ==
  ASSUME TypeOK, NEW next, RecordMany(next)
  PROVE  log' \in [Sessions -> Seq(Nat)]
<1>1. \A s \in Sessions : log[s] \o batch \in Seq(Nat)
  BY DEF TypeOK, FramesOK, DatabaseOK
<1>2. log \in [Sessions -> Seq(Nat)]
  BY DEF TypeOK, DatabaseOK
<1> QED
  BY <1>1, <1>2 DEF RecordMany

LEMMA EndType ==
  ASSUME TypeOK, StoreEndSession
  PROVE  /\ ended' \in [Sessions -> BOOLEAN]
         /\ tally' \in [Sessions -> [frames : Nat, dropped : Nat]]
<1>1. ended' \in [Sessions -> BOOLEAN]
  BY DEF TypeOK, DatabaseOK, StoreEndSession
<1>2. tally' \in [Sessions -> [frames : Nat, dropped : Nat]]
  BY DEF TypeOK, DatabaseOK, StoreEndSession, CountersOK
<1> QED
  BY <1>1, <1>2

LEMMA TypeNext == TypeOK /\ [Next]_vars => TypeOK'
<1> SUFFICES ASSUME TypeOK, [Next]_vars PROVE TypeOK'
  OBVIOUS
<1> USE DEF ReaderStates, ParserStates, manager, counters, database
<1>1. CASE Start
  <2>1. ThreadsOK'
    BY <1>1 DEF Start, Reset, BeginSession, TypeOK, ThreadsOK
  <2>2. FlagsOK'
    BY <1>1 DEF Start, Reset, BeginSession, TypeOK, FlagsOK
  <2>3. CountersOK'
    BY <1>1 DEF Start, Reset, BeginSession, TypeOK, CountersOK
  <2>4. FramesOK'
    BY <1>1 DEF Start, Reset, BeginSession, TypeOK, FramesOK
  <2>5. DatabaseOK'
    BY <1>1 DEF Start, Reset, BeginSession, TypeOK, DatabaseOK
  <2> QED
    BY <2>1, <2>2, <2>3, <2>4, <2>5 DEF TypeOK
<1>2. CASE StartFails
  <2>1. ThreadsOK'
    BY <1>2 DEF StartFails, Reset, BeginSession, TypeOK, ThreadsOK
  <2>2. FlagsOK'
    BY <1>2 DEF StartFails, Reset, BeginSession, TypeOK, FlagsOK
  <2>3. CountersOK'
    BY <1>2 DEF StartFails, Reset, BeginSession, TypeOK, CountersOK
  <2>4. FramesOK'
    BY <1>2 DEF StartFails, Reset, BeginSession, TypeOK, FramesOK
  <2>5. DatabaseOK'
    BY SMTT(40), <1>2 DEF StartFails, Reset, BeginSession, TypeOK, DatabaseOK
  <2> QED
    BY <2>1, <2>2, <2>3, <2>4, <2>5 DEF TypeOK
<1>3. CASE Stop
  BY <1>3 DEF Stop,
     TypeOK, ThreadsOK, FlagsOK, CountersOK, FramesOK, DatabaseOK
<1>4. CASE Interrupt
  BY <1>4 DEF Interrupt,
     TypeOK, ThreadsOK, FlagsOK, CountersOK, FramesOK, DatabaseOK
<1>5. CASE Exit
  <2>1. ThreadsOK'
    BY <1>5 DEF Exit, StopReturned, TypeOK, ThreadsOK
  <2>2. FlagsOK'
    BY <1>5 DEF Exit, StopReturned, TypeOK, FlagsOK
  <2>3. CountersOK'
    BY <1>5 DEF Exit, StopReturned, TypeOK, CountersOK
  <2>4. FramesOK'
    BY <1>5 DEF Exit, StopReturned, TypeOK, FramesOK
  <2>5. DatabaseOK'
    BY <1>5 DEF Exit, StopReturned, TypeOK, DatabaseOK
  <2> QED
    BY <2>1, <2>2, <2>3, <2>4, <2>5 DEF TypeOK
<1>6. CASE Restart
  BY <1>6 DEF Restart,
     TypeOK, ThreadsOK, FlagsOK, CountersOK, FramesOK, DatabaseOK
<1>7. CASE KernelDrop
  BY <1>7 DEF KernelDrop,
     TypeOK, ThreadsOK, FlagsOK, CountersOK, FramesOK, DatabaseOK
<1>8. CASE ReaderOpens
  BY <1>8 DEF ReaderOpens, NewQueue,
     TypeOK, ThreadsOK, FlagsOK, CountersOK, FramesOK, DatabaseOK
<1>9. CASE OpenFails
  BY <1>9 DEF OpenFails, AfterOpenFails, ReportOSError,
     TypeOK, ThreadsOK, FlagsOK, CountersOK, FramesOK, DatabaseOK
<1>10. CASE ReaderClosesSession
  <2>1. ThreadsOK'
    BY <1>10 DEF ReaderClosesSession, TypeOK, ThreadsOK
  <2>2. FlagsOK'
    BY <1>10 DEF ReaderClosesSession, TypeOK, FlagsOK
  <2>3. CountersOK'
    BY <1>10 DEF ReaderClosesSession, TypeOK, CountersOK
  <2>4. FramesOK'
    BY <1>10 DEF ReaderClosesSession, TypeOK, FramesOK
  <2>5. DatabaseOK'
    BY <1>10, EndType DEF ReaderClosesSession, TypeOK, DatabaseOK
  <2> QED
    BY <2>1, <2>2, <2>3, <2>4, <2>5 DEF TypeOK
<1>11. CASE ReaderLoop
  <2>1. ThreadsOK'
    BY <1>11 DEF ReaderLoop, ReadStats, TypeOK, ThreadsOK
  <2>2. FlagsOK'
    BY <1>11 DEF ReaderLoop, ReadStats, TypeOK, FlagsOK
  <2>3. CountersOK'
    BY <1>11 DEF ReaderLoop, ReadStats, TypeOK, CountersOK
  <2>4. FramesOK'
    BY <1>11 DEF ReaderLoop, ReadStats, TypeOK, FramesOK
  <2>5. DatabaseOK'
    BY <1>11 DEF ReaderLoop, ReadStats, TypeOK, DatabaseOK
  <2> QED
    BY <2>1, <2>2, <2>3, <2>4, <2>5 DEF TypeOK
<1>12. CASE RecvTimeout
  BY <1>12 DEF RecvTimeout, ReadStats,
     TypeOK, ThreadsOK, FlagsOK, CountersOK, FramesOK, DatabaseOK
<1>13. CASE RecvFrame
  BY <1>13 DEF RecvFrame,
     TypeOK, ThreadsOK, FlagsOK, CountersOK, FramesOK, DatabaseOK
<1>14. CASE RecvFails
  BY <1>14 DEF RecvFails, ReportOSError,
     TypeOK, ThreadsOK, FlagsOK, CountersOK, FramesOK, DatabaseOK
<1>15. CASE WriteFails
  BY <1>15 DEF WriteFails, ReportOSError,
     TypeOK, ThreadsOK, FlagsOK, CountersOK, FramesOK, DatabaseOK
<1>16. CASE WriteFrame
  <2>1. ThreadsOK'
    BY <1>16 DEF WriteFrame, EndIteration, ReadStats, CountSkipped, TypeOK,
                 ThreadsOK
  <2>2. FlagsOK'
    BY <1>16 DEF WriteFrame, EndIteration, ReadStats, CountSkipped, TypeOK,
                 FlagsOK
  <2>3. CountersOK'
    BY <1>16 DEF WriteFrame, EndIteration, ReadStats, CountSkipped, TypeOK,
                 CountersOK
  <2>4. FramesOK'
    BY <1>16 DEF WriteFrame, EndIteration, ReadStats, CountSkipped, TypeOK,
                 FramesOK
  <2>5. DatabaseOK'
    BY <1>16 DEF WriteFrame, EndIteration, ReadStats, CountSkipped, TypeOK,
                 DatabaseOK
  <2> QED
    BY <2>1, <2>2, <2>3, <2>4, <2>5 DEF TypeOK
<1>17. CASE PutFrame
  <2>1. ThreadsOK'
    BY <1>17 DEF PutFrame, EndIteration, ReadStats, TypeOK, ThreadsOK
  <2>2. FlagsOK'
    BY <1>17 DEF PutFrame, EndIteration, ReadStats, TypeOK, FlagsOK
  <2>3. CountersOK'
    BY <1>17 DEF PutFrame, EndIteration, ReadStats, TypeOK, CountersOK
  <2>4. FramesOK'
    BY <1>17 DEF PutFrame, TypeOK, FramesOK, CountersOK
  <2>5. DatabaseOK'
    BY <1>17 DEF PutFrame, EndIteration, ReadStats, TypeOK, DatabaseOK
  <2> QED
    BY <2>1, <2>2, <2>3, <2>4, <2>5 DEF TypeOK
<1>18. CASE Teardown
  BY <1>18 DEF Teardown,
     TypeOK, ThreadsOK, FlagsOK, CountersOK, FramesOK, DatabaseOK
<1>19. CASE HandOverSentinel
  <2>1. ThreadsOK'
    BY <1>19 DEF HandOverSentinel, TypeOK, ThreadsOK
  <2>2. FlagsOK'
    BY <1>19 DEF HandOverSentinel, TypeOK, FlagsOK
  <2>3. CountersOK'
    BY <1>19 DEF HandOverSentinel, TypeOK, CountersOK
  <2>4. FramesOK'
    BY SMTT(40), <1>19 DEF HandOverSentinel, TypeOK, FramesOK
  <2>5. DatabaseOK'
    BY <1>19 DEF HandOverSentinel, TypeOK, DatabaseOK
  <2> QED
    BY <2>1, <2>2, <2>3, <2>4, <2>5 DEF TypeOK
<1>20. CASE JoinParser
  BY <1>20 DEF JoinParser,
     TypeOK, ThreadsOK, FlagsOK, CountersOK, FramesOK, DatabaseOK
<1>21. CASE TakeFrame
  <2>1. ThreadsOK'
    BY <1>21 DEF TakeFrame, TypeOK, ThreadsOK
  <2>2. FlagsOK'
    BY <1>21 DEF TakeFrame, TypeOK, FlagsOK
  <2>3. CountersOK'
    BY <1>21 DEF TakeFrame, TypeOK, CountersOK
  <2>4. FramesOK'
    <3>1. Head(queue) \in Nat /\ Tail(queue) \in Seq(Nat)
      BY <1>21 DEF TakeFrame, TypeOK, FramesOK
    <3>2. Append(batch, Head(queue)) \in Seq(Nat)
      BY <3>1 DEF TypeOK, FramesOK
    <3> QED
      BY <1>21, <3>1, <3>2 DEF TakeFrame, TypeOK, FramesOK
  <2>5. DatabaseOK'
    BY <1>21 DEF TakeFrame, TypeOK, DatabaseOK
  <2> QED
    BY <2>1, <2>2, <2>3, <2>4, <2>5 DEF TypeOK
<1>22. CASE TakeSentinel
  BY SMTT(40), <1>22 DEF TakeSentinel,
     TypeOK, ThreadsOK, FlagsOK, CountersOK, FramesOK, DatabaseOK
<1>23. CASE TakeNothing
  BY <1>23 DEF TakeNothing, NextWhenIdle,
     TypeOK, ThreadsOK, FlagsOK, CountersOK, FramesOK, DatabaseOK
<1>24. CASE Flush
  <2>1. ThreadsOK'
    BY <1>24 DEF Flush, RecordMany, EmptiedBatch, TypeOK, ThreadsOK
  <2>2. FlagsOK'
    BY <1>24 DEF Flush, RecordMany, EmptiedBatch, TypeOK, FlagsOK
  <2>3. CountersOK'
    BY <1>24 DEF Flush, RecordMany, EmptiedBatch, TypeOK, CountersOK
  <2>4. FramesOK'
    <3>1. batch' = <<>>
      BY <1>24, BatchEmptied DEF Flush
    <3> QED
      BY <1>24, <3>1 DEF Flush, TypeOK, FramesOK
  <2>5. DatabaseOK'
    BY <1>24, LogType DEF Flush, TypeOK, DatabaseOK
  <2> QED
    BY <2>1, <2>2, <2>3, <2>4, <2>5 DEF TypeOK
<1>25. CASE SkipFlush
  BY <1>25 DEF SkipFlush,
     TypeOK, ThreadsOK, FlagsOK, CountersOK, FramesOK, DatabaseOK
<1>26. CASE FinalFlush
  <2>1. ThreadsOK'
    BY <1>26 DEF FinalFlush, RecordMany, EmptiedBatch, TypeOK, ThreadsOK
  <2>2. FlagsOK'
    BY <1>26 DEF FinalFlush, RecordMany, EmptiedBatch, TypeOK, FlagsOK
  <2>3. CountersOK'
    BY <1>26 DEF FinalFlush, RecordMany, EmptiedBatch, TypeOK, CountersOK
  <2>4. FramesOK'
    <3>1. batch' = <<>>
      BY <1>26, BatchEmptied DEF FinalFlush
    <3> QED
      BY <1>26, <3>1 DEF FinalFlush, TypeOK, FramesOK
  <2>5. DatabaseOK'
    BY <1>26, LogType DEF FinalFlush, TypeOK, DatabaseOK
  <2> QED
    BY <2>1, <2>2, <2>3, <2>4, <2>5 DEF TypeOK
<1>27. CASE EndSession
  <2>1. ThreadsOK'
    BY <1>27 DEF EndSession, TypeOK, ThreadsOK
  <2>2. FlagsOK'
    BY <1>27 DEF EndSession, TypeOK, FlagsOK
  <2>3. CountersOK'
    BY <1>27 DEF EndSession, TypeOK, CountersOK
  <2>4. FramesOK'
    BY <1>27 DEF EndSession, TypeOK, FramesOK
  <2>5. DatabaseOK'
    BY <1>27, EndType DEF EndSession, TypeOK, DatabaseOK
  <2> QED
    BY <2>1, <2>2, <2>3, <2>4, <2>5 DEF TypeOK
<1>28. CASE UNCHANGED vars
  BY <1>28 DEF vars,
     TypeOK, ThreadsOK, FlagsOK, CountersOK, FramesOK, DatabaseOK
<1> QED
  BY <1>1, <1>2, <1>3, <1>4, <1>5, <1>6, <1>7, <1>8, <1>9, <1>10, <1>11,
     <1>12, <1>13, <1>14, <1>15, <1>16, <1>17, <1>18, <1>19, <1>20, <1>21,
     <1>22, <1>23, <1>24, <1>25, <1>26, <1>27, <1>28
  DEF Next, ReaderNext, ParserNext, OperatorNext, ProcessNext

THEOREM TypeCorrect == Spec => []TypeOK
BY TypeInit, TypeNext, PTL DEF Spec

-----------------------------------------------------------------------------
(* What putting a value in the queue, and taking one, do to it.            *)
LEMMA PutLast ==
  ASSUME NEW q \in Seq(Nat), NEW x \in Nat
  PROVE  /\ Append(q, x) \in Seq(Nat)
         /\ Len(Append(q, x)) = Len(q) + 1
         /\ \A i \in 1..Len(q) : Append(q, x)[i] = q[i]
         /\ Append(q, x)[Len(q) + 1] = x
OBVIOUS

LEMMA TakeFirst ==
  ASSUME NEW q \in Seq(Nat), q # <<>>
  PROVE  /\ Tail(q) \in Seq(Nat)
         /\ Len(q) \in Nat \ {0}
         /\ Len(Tail(q)) = Len(q) - 1
         /\ Head(q) = q[1]
         /\ \A i \in 1..(Len(q) - 1) : Tail(q)[i] = q[i + 1]
OBVIOUS

LEMMA ControlInit == Init => Control /\ FramesAccounted
BY DEF Init, Control, ParserNeedsReader, SentinelLast, DrainedAfterSentinel,
       NothingLeftBehind, FreshCounters, FrameInHand, PutNeverBlocks,
       FramesAccounted, FramesQueued, SentinelQueued, Accepted, Capturing,
       ReaderAlive, ParserAlive

LEMMA ControlNext == IInv /\ TypeOK' /\ [Next]_vars => Control'
<1> SUFFICES ASSUME IInv, TypeOK', [Next]_vars PROVE Control'
  OBVIOUS
<1> USE DEF IInv, TypeOK, ThreadsOK, FlagsOK, CountersOK, FramesOK,
            ReaderStates, ParserStates, manager, counters, database, Control,
            ParserNeedsReader, SentinelLast, DrainedAfterSentinel,
            NothingLeftBehind, FreshCounters, FrameInHand, PutNeverBlocks,
            Capturing, ReaderAlive, ParserAlive
<1>1. CASE Start
  BY <1>1 DEF Start, CanStart, Reset, BeginSession
<1>2. CASE StartFails
  BY <1>2 DEF StartFails, CanStart, Reset, BeginSession
<1>3. CASE Stop
  BY <1>3 DEF Stop
<1>4. CASE Interrupt
  BY <1>4 DEF Interrupt
<1>5. CASE Exit
  BY <1>5 DEF Exit, StopReturned
<1>6. CASE Restart
  BY <1>6 DEF Restart
<1>7. CASE KernelDrop
  BY <1>7 DEF KernelDrop
<1>8. CASE ReaderOpens
  BY <1>8 DEF ReaderOpens, NewQueue
<1>9. CASE OpenFails
  BY <1>9 DEF OpenFails, AfterOpenFails
<1>10. CASE ReaderClosesSession
  BY <1>10 DEF ReaderClosesSession
<1>11. CASE ReaderLoop
  BY <1>11 DEF ReaderLoop
<1>12. CASE RecvTimeout
  BY <1>12 DEF RecvTimeout
<1>13. CASE RecvFrame
  BY <1>13 DEF RecvFrame
<1>14. CASE RecvFails
  BY <1>14 DEF RecvFails
<1>15. CASE WriteFails
  BY <1>15 DEF WriteFails
<1>16. CASE WriteFrame
  BY <1>16 DEF WriteFrame, EndIteration, QueueFull, CountSkipped
<1>17. CASE PutFrame
  BY <1>17 DEF PutFrame, EndIteration
<1>18. CASE Teardown
  BY <1>18 DEF Teardown
<1>19. CASE HandOverSentinel
  <2>1. \A i \in 1..Len(queue) : queue[i] # None
    BY <1>19 DEF HandOverSentinel
  <2>2. CASE queue' = Append(queue, None)
    BY <1>19, <2>1, <2>2, PutLast DEF HandOverSentinel
  <2>3. CASE UNCHANGED queue
    BY <1>19, <2>1, <2>3 DEF HandOverSentinel
  <2> QED
    BY <1>19, <2>2, <2>3 DEF HandOverSentinel
<1>20. CASE JoinParser
  BY <1>20 DEF JoinParser, Joined
<1>21. CASE TakeFrame
  BY <1>21 DEF TakeFrame
<1>22. CASE TakeSentinel
  BY <1>22 DEF TakeSentinel
<1>23. CASE TakeNothing
  BY <1>23 DEF TakeNothing, NextWhenIdle
<1>24. CASE Flush
  BY <1>24 DEF Flush, RecordMany, FlushDue
<1>25. CASE SkipFlush
  BY <1>25 DEF SkipFlush, FlushNotDue
<1>26. CASE FinalFlush
  BY <1>26 DEF FinalFlush, RecordMany
<1>27. CASE EndSession
  BY <1>27 DEF EndSession
<1>28. CASE UNCHANGED vars
  BY <1>28 DEF vars
<1> QED
  BY <1>1, <1>2, <1>3, <1>4, <1>5, <1>6, <1>7, <1>8, <1>9, <1>10, <1>11,
     <1>12, <1>13, <1>14, <1>15, <1>16, <1>17, <1>18, <1>19, <1>20, <1>21,
     <1>22, <1>23, <1>24, <1>25, <1>26, <1>27, <1>28
  DEF Next, ReaderNext, ParserNext, OperatorNext, ProcessNext

(* The three steps that move a frame: each keeps the balance.              *)
LEMMA BalanceTypes ==
  ASSUME TypeOK
  PROVE  /\ Accepted \in Int /\ FramesQueued \in Int
         /\ parsed \in Nat /\ unparsed \in Nat
BY DEF TypeOK, CountersOK, FramesOK, Accepted, FramesQueued

LEMMA NoSentinelYet ==
  ASSUME TypeOK, SentinelLast, Capturing, reader # "join"
  PROVE  ~SentinelQueued /\ FramesQueued = Len(queue)
<1>1. \A i \in 1..Len(queue) : queue[i] # None
  BY DEF SentinelLast
<1> QED
  BY <1>1 DEF SentinelQueued, FramesQueued, TypeOK, FramesOK

LEMMA WriteAccounted ==
  ASSUME TypeOK, FramesAccounted, WriteFrame
  PROVE  FramesAccounted'
<1>1. Accepted' = Accepted + 1
  BY DEF WriteFrame, EndIteration, Accepted, manager, TypeOK, CountersOK
<1>2. FramesQueued' = FramesQueued
  BY DEF WriteFrame, FramesQueued, SentinelQueued
<1>3. /\ reader = "got" /\ parsed' = parsed
      /\ \/ unparsed' = unparsed + 1 /\ reader' = "loop"
         \/ unparsed' = unparsed /\ reader' = "put"
  BY DEF WriteFrame, EndIteration, CountSkipped
<1>4. Capturing
  BY <1>3 DEF Capturing, ReaderAlive
<1> QED
  BY <1>1, <1>2, <1>3, <1>4, BalanceTypes DEF FramesAccounted

LEMMA PutAccounted ==
  ASSUME TypeOK, Control, FramesAccounted, PutFrame
  PROVE  FramesAccounted'
<1>1. reader = "put" /\ reader' = "loop" /\ Capturing
  BY DEF PutFrame, EndIteration, Capturing, ReaderAlive
<1>2. ~SentinelQueued /\ FramesQueued = Len(queue)
  BY <1>1, NoSentinelYet DEF Control
<1>3. FramesQueued' = FramesQueued + 1
  <2>1. queue' = Append(queue, frames) /\ queue \in Seq(Nat) /\ frames \in Nat
    BY DEF PutFrame, TypeOK, FramesOK, CountersOK
  <2>2. frames # None
    BY <1>1 DEF Control, FrameInHand, None
  <2> QED
    BY <1>2, <2>1, <2>2, PutLast DEF FramesQueued, SentinelQueued
<1>4. Accepted' = Accepted /\ parsed' = parsed /\ unparsed' = unparsed
  BY DEF PutFrame, EndIteration, Accepted, manager
<1> QED
  BY <1>1, <1>3, <1>4, BalanceTypes DEF FramesAccounted

LEMMA TakeAccounted ==
  ASSUME TypeOK, Control, FramesAccounted, TakeFrame
  PROVE  FramesAccounted'
<1>1. /\ queue \in Seq(Nat) /\ queue # <<>> /\ queue[1] # None
      /\ queue' = Tail(queue)
  BY TakeFirst DEF TakeFrame, TypeOK, FramesOK
<1>2. FramesQueued' = FramesQueued - 1
  <2>1. CASE Len(queue) = 1
    <3>1. Len(queue') = 0 /\ queue' = <<>>
      BY <1>1, <2>1, TakeFirst
    <3> QED
      BY <1>1, <2>1, <3>1 DEF FramesQueued, SentinelQueued
  <2>2. CASE Len(queue) # 1
    <3>1. /\ Len(queue) \in Nat /\ Len(queue) > 1
          /\ Len(queue') = Len(queue) - 1
          /\ queue'[Len(queue) - 1] = queue[Len(queue)]
      <4>1. /\ Len(queue) \in Nat \ {0}
            /\ Len(queue') = Len(queue) - 1
            /\ \A i \in 1..(Len(queue) - 1) : queue'[i] = queue[i + 1]
        BY <1>1, TakeFirst
      <4>2. Len(queue) - 1 \in 1..(Len(queue) - 1)
        BY <4>1, <2>2
      <4> QED
        BY <4>1, <4>2
    <3>2. queue' # <<>> /\ queue'[Len(queue')] = queue[Len(queue)]
      BY <3>1
    <3>3. SentinelQueued' <=> SentinelQueued
      BY <1>1, <3>2 DEF SentinelQueued
    <3> QED
      BY <3>1, <3>3 DEF FramesQueued
  <2> QED
    BY <2>1, <2>2
<1>3. parser = "get"
  BY DEF TakeFrame
<1>4. Capturing
  BY <1>3 DEF Control, ParserNeedsReader, ParserAlive
<1>5. /\ Accepted' = Accepted /\ parsed' = parsed + 1
      /\ unparsed' = unparsed /\ reader' = reader
  BY DEF TakeFrame, Accepted, manager
<1> QED
  BY <1>2, <1>4, <1>5, BalanceTypes DEF FramesAccounted

LEMMA AccountedNext ==
  IInv /\ TypeOK' /\ Control' /\ [Next]_vars => FramesAccounted'
<1> SUFFICES ASSUME TypeOK, Control, FramesAccounted, TypeOK', Control',
                    [Next]_vars
             PROVE  FramesAccounted'
  BY DEF IInv
<1> USE DEF TypeOK, ThreadsOK, FlagsOK, CountersOK, FramesOK,
            ReaderStates, ParserStates, manager, counters, database, Control,
            ParserNeedsReader, SentinelLast, DrainedAfterSentinel,
            NothingLeftBehind, FreshCounters, FrameInHand,
            Capturing, ReaderAlive, ParserAlive, FramesAccounted,
            FramesQueued, SentinelQueued, Accepted, NoDatabaseError
<1>1. CASE Start
  BY <1>1 DEF Start, Reset, BeginSession
<1>2. CASE StartFails
  BY <1>2 DEF StartFails, Reset, BeginSession
<1>3. CASE Stop
  BY <1>3 DEF Stop
<1>4. CASE Interrupt
  BY <1>4 DEF Interrupt
<1>5. CASE Exit
  BY <1>5 DEF Exit, StopReturned
<1>6. CASE Restart
  BY <1>6 DEF Restart
<1>7. CASE KernelDrop
  BY <1>7 DEF KernelDrop
<1>8. CASE ReaderOpens
  BY <1>8 DEF ReaderOpens, NewQueue
<1>9. CASE OpenFails
  BY <1>9 DEF OpenFails, AfterOpenFails
<1>10. CASE ReaderClosesSession
  BY <1>10 DEF ReaderClosesSession
<1>11. CASE ReaderLoop
  BY <1>11 DEF ReaderLoop
<1>12. CASE RecvTimeout
  BY <1>12 DEF RecvTimeout
<1>13. CASE RecvFrame
  BY <1>13 DEF RecvFrame
<1>14. CASE RecvFails
  BY <1>14 DEF RecvFails
<1>15. CASE WriteFails
  BY <1>15 DEF WriteFails
<1>16. CASE WriteFrame
  BY <1>16, WriteAccounted
<1>17. CASE PutFrame
  BY <1>17, PutAccounted
<1>18. CASE Teardown
  BY <1>18 DEF Teardown
<1>19. CASE HandOverSentinel
  BY <1>19 DEF HandOverSentinel, ParserGone
<1>20. CASE JoinParser
  BY <1>20 DEF JoinParser, Joined
<1>21. CASE TakeFrame
  BY <1>21, TakeAccounted
<1>22. CASE TakeSentinel
  BY <1>22 DEF TakeSentinel
<1>23. CASE TakeNothing
  BY <1>23 DEF TakeNothing, NextWhenIdle
<1>24. CASE Flush
  BY <1>24 DEF Flush, RecordMany, FlushDue
<1>25. CASE SkipFlush
  BY <1>25 DEF SkipFlush, FlushNotDue
<1>26. CASE FinalFlush
  BY <1>26 DEF FinalFlush, RecordMany
<1>27. CASE EndSession
  BY <1>27 DEF EndSession
<1>28. CASE UNCHANGED vars
  BY <1>28 DEF vars
<1> QED
  BY <1>1, <1>2, <1>3, <1>4, <1>5, <1>6, <1>7, <1>8, <1>9, <1>10, <1>11,
     <1>12, <1>13, <1>14, <1>15, <1>16, <1>17, <1>18, <1>19, <1>20, <1>21,
     <1>22, <1>23, <1>24, <1>25, <1>26, <1>27, <1>28
  DEF Next, ReaderNext, ParserNext, OperatorNext, ProcessNext

(***************************************************************************)
(* The inductive invariant, and what it gives: no frame vanishes between   *)
(* the reader and the parser, and the reader never waits in put(), for     *)
(* every capacity, every batch size and every failure.                     *)
(***************************************************************************)
THEOREM Invariance == Spec => []IInv
<1>1. Init => IInv
  BY TypeInit, ControlInit DEF IInv
<1>2. IInv /\ [Next]_vars => IInv'
  BY TypeNext, ControlNext, AccountedNext DEF IInv
<1> QED
  BY <1>1, <1>2, PTL DEF Spec

THEOREM Accounting == Spec => []FramesAccounted
<1>1. IInv => FramesAccounted
  BY DEF IInv
<1> QED
  BY <1>1, Invariance, PTL

THEOREM NeverBlocks == Spec => []PutNeverBlocks
<1>1. IInv => PutNeverBlocks
  BY DEF IInv, Control
<1> QED
  BY <1>1, Invariance, PTL

-----------------------------------------------------------------------------
(***************************************************************************)
(* A reader that is on its way out although nobody asked has an error to   *)
(* show; that is what makes FailureIsReported inductive.                   *)
(***************************************************************************)
LeavingIsReported ==
  ~stop_event /\ reader \in {"teardown", "sentinel", "join", "abort"} => error

ReportInv == LeavingIsReported /\ FailureIsReported

LEMMA ReportNext == ReportInv /\ [Next]_vars => ReportInv'
<1> SUFFICES ASSUME ReportInv, [Next]_vars PROVE ReportInv'
  OBVIOUS
<1> USE DEF ReportInv, LeavingIsReported, FailureIsReported, ReaderAlive,
            manager, counters
<1>1. CASE Start
  BY <1>1 DEF Start, Reset
<1>2. CASE StartFails
  BY <1>2 DEF StartFails, Reset
<1>3. CASE Stop
  BY <1>3 DEF Stop
<1>4. CASE Interrupt
  BY <1>4 DEF Interrupt
<1>5. CASE Exit
  BY <1>5 DEF Exit
<1>6. CASE Restart
  BY <1>6 DEF Restart
<1>7. CASE KernelDrop
  BY <1>7 DEF KernelDrop
<1>8. CASE ReaderOpens
  BY <1>8 DEF ReaderOpens
<1>9. CASE OpenFails
  BY <1>9 DEF OpenFails, AfterOpenFails, ReportOSError
<1>10. CASE ReaderClosesSession
  BY <1>10 DEF ReaderClosesSession
<1>11. CASE ReaderLoop
  BY <1>11 DEF ReaderLoop
<1>12. CASE RecvTimeout
  BY <1>12 DEF RecvTimeout
<1>13. CASE RecvFrame
  BY <1>13 DEF RecvFrame
<1>14. CASE RecvFails
  BY <1>14 DEF RecvFails, ReportOSError
<1>15. CASE WriteFails
  BY <1>15 DEF WriteFails, ReportOSError
<1>16. CASE WriteFrame
  BY <1>16 DEF WriteFrame, EndIteration
<1>17. CASE PutFrame
  BY <1>17 DEF PutFrame, EndIteration
<1>18. CASE Teardown
  BY <1>18 DEF Teardown
<1>19. CASE HandOverSentinel
  BY <1>19 DEF HandOverSentinel
<1>20. CASE JoinParser
  BY <1>20 DEF JoinParser
<1>21. CASE TakeFrame
  BY <1>21 DEF TakeFrame
<1>22. CASE TakeSentinel
  BY <1>22 DEF TakeSentinel
<1>23. CASE TakeNothing
  BY <1>23 DEF TakeNothing
<1>24. CASE Flush
  BY <1>24 DEF Flush
<1>25. CASE SkipFlush
  BY <1>25 DEF SkipFlush
<1>26. CASE FinalFlush
  BY <1>26 DEF FinalFlush
<1>27. CASE EndSession
  BY <1>27 DEF EndSession
<1>28. CASE UNCHANGED vars
  BY <1>28 DEF vars
<1> QED
  BY <1>1, <1>2, <1>3, <1>4, <1>5, <1>6, <1>7, <1>8, <1>9, <1>10, <1>11,
     <1>12, <1>13, <1>14, <1>15, <1>16, <1>17, <1>18, <1>19, <1>20, <1>21,
     <1>22, <1>23, <1>24, <1>25, <1>26, <1>27, <1>28
  DEF Next, ReaderNext, ParserNext, OperatorNext, ProcessNext

(* A capture that ends although nobody stopped it says so.                 *)
THEOREM FailuresReported == Spec => []FailureIsReported
<1>1. Init => ReportInv
  BY DEF Init, ReportInv, LeavingIsReported, FailureIsReported, ReaderAlive
<1>2. ReportInv => FailureIsReported
  BY DEF ReportInv
<1> QED
  BY <1>1, <1>2, ReportNext, PTL DEF Spec
=============================================================================
