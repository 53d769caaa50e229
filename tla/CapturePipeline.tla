--------------------------- MODULE CapturePipeline ---------------------------
(***************************************************************************)
(* The live capture of ot_scout/capture.py: a reader thread (_run) that    *)
(* receives frames, writes the PCAP and hands each frame to a bounded      *)
(* queue; a parser thread (_parse_loop) that drains the queue into batched *)
(* database transactions and closes the session; the operator's start and  *)
(* stop; and the end of the process, which kills both (daemon) threads     *)
(* wherever they are.  One operator at a time: two start requests that     *)
(* overlap are the business of CaptureControl.                             *)
(*                                                                         *)
(* A frame is its number within the session, in the order of arrival.      *)
(* What a frame decodes to is a choice made when the parser takes it.      *)
(***************************************************************************)
EXTENDS Naturals, Sequences

CONSTANTS
  QueueFrames,   \* capacity of the frame queue (QUEUE_FRAMES)
  BatchSize,     \* observations per transaction (BATCH_SIZE)
  MaxSessions,   \* bound: sessions begun over the life of the database
  MaxFrames,     \* bound: frames received in one session
  MaxDrops,      \* bound: frames the kernel drops in one session
  Faults         \* what may go wrong: a subset of FaultKinds

FaultKinds == {"open", "recv", "write", "db", "exit", "crash"}

ASSUME PipelineAssumption ==
  /\ QueueFrames \in Nat \ {0}
  /\ BatchSize \in Nat \ {0}
  /\ MaxSessions \in Nat /\ MaxFrames \in Nat /\ MaxDrops \in Nat
  /\ Faults \subseteq FaultKinds

Sessions == 1..MaxSessions
NoTally  == [frames |-> 0, dropped |-> 0]

(***************************************************************************)
(* The sentinel shares the queue with the frames: any value that is not a  *)
(* frame number will do.                                                   *)
(***************************************************************************)
None == 0

VARIABLES
  proc,        \* the process: "up", "stopping" (run.py's finally), "down"
  stop_event,  \* CaptureManager.stop_event
  reader,      \* where the reader thread is
  parser,      \* where the parser thread is
  queue,       \* CaptureManager.queue
  batch,       \* _parse_loop's batch
  saving,      \* the capture writes a PCAP (pcap_path is set)
  saved,       \* frames PcapWriter.write returned for
  frames, parsed, unparsed, malformed, dropped,   \* the counters of status()
  pending,     \* drops the kernel has counted and _read_stats has not read
  error,       \* CaptureManager.error is set: the capture failed
  session_id,  \* CaptureManager.session_id, 0 for None
  observed,    \* history: frames that decoded to an observation
  rows, ended, tally, log   \* the database: sessions begun, whether ended_at
                            \* is set, the counters stored, the observations

manager  == <<saving, session_id>>
counters == <<frames, parsed, unparsed, malformed, dropped>>
database == <<rows, ended, tally, log>>
vars == <<proc, stop_event, reader, parser, queue, batch, saving, saved,
          frames, parsed, unparsed, malformed, dropped, pending, error,
          session_id, observed, rows, ended, tally, log>>

ReaderStates == {"off", "open", "abort", "loop", "recv", "got", "put",
                 "teardown", "sentinel", "join", "failed"}
ParserStates == {"off", "get", "check", "idle", "final", "closing",
                 "unwind", "failed"}

(***************************************************************************)
(* A thread that left on a database error is as dead as one that returned. *)
(***************************************************************************)
ReaderAlive == reader \notin {"off", "failed"}
ParserAlive == parser \notin {"off", "failed"}

Init ==
  /\ proc = "up" /\ stop_event = FALSE
  /\ reader = "off" /\ parser = "off"
  /\ queue = <<>> /\ batch = <<>>
  /\ saving = TRUE /\ saved = 0
  /\ frames = 0 /\ parsed = 0 /\ unparsed = 0 /\ malformed = 0 /\ dropped = 0
  /\ pending = 0 /\ error = FALSE /\ session_id = 0 /\ observed = 0
  /\ rows = 0
  /\ ended = [s \in Sessions |-> FALSE]
  /\ tally = [s \in Sessions |-> NoTally]
  /\ log = [s \in Sessions |-> <<>>]

(* The process exists: its threads can take steps.                         *)
Running == proc # "down"

-----------------------------------------------------------------------------
(* The operator: POST /api/start and /api/stop.                            *)

CanStart == proc = "up" /\ ~ReaderAlive

(***************************************************************************)
(* start() up to the thread: the counters are reset, the stop event is     *)
(* cleared and a session row is begun.  A database error in begin_session  *)
(* leaves the old session_id; one in set_session_pcap leaves a session     *)
(* nobody will close.                                                      *)
(***************************************************************************)
Reset ==
  /\ frames' = 0 /\ parsed' = 0 /\ unparsed' = 0 /\ malformed' = 0
  /\ dropped' = 0 /\ saved' = 0 /\ observed' = 0
  /\ error' = FALSE /\ stop_event' = FALSE

BeginSessionNoRow ==
  /\ rows < MaxSessions
  /\ rows' = rows
  /\ session_id' = rows + 1

BeginSession ==
  /\ rows < MaxSessions
  /\ rows' = rows + 1
  /\ session_id' = rows + 1

Start ==
  /\ CanStart
  /\ Reset
  /\ BeginSession
  /\ \E save \in BOOLEAN : saving' = save
  /\ reader' = "open"
  /\ UNCHANGED <<proc, parser, queue, batch, pending, ended, tally, log>>

StartFails ==
  /\ CanStart
  /\ "db" \in Faults
  /\ Reset
  /\ \/ BeginSession /\ saving' = TRUE     \* set_session_pcap raised
     \/ UNCHANGED <<rows, session_id, saving>>
  /\ reader' = "failed"
  /\ UNCHANGED <<proc, parser, queue, batch, pending, ended, tally, log>>

Stop ==
  /\ proc = "up"
  /\ ~stop_event
  /\ stop_event' = TRUE
  /\ UNCHANGED <<proc, reader, parser, queue, batch, manager, saved, counters,
                 pending, error, observed, database>>

-----------------------------------------------------------------------------
(* The end of the process.                                                 *)

(* Ctrl-C: serve_forever returns and run.py's finally calls stop().        *)
Interrupt ==
  /\ proc = "up"
  /\ "exit" \in Faults
  /\ proc' = "stopping"
  /\ stop_event' = TRUE
  /\ UNCHANGED <<reader, parser, queue, batch, manager, saved, counters,
                 pending, error, observed, database>>

(***************************************************************************)
(* stop() waits for the reader at most three seconds.  No wait of the      *)
(* reader's own is that long, so it has left its loop by then, but handing *)
(* over the sentinel and joining the parser take as long as the parser's   *)
(* backlog.  Then the process exits and its daemon threads die with it.  A *)
(* crash does the same anywhere.  The database is all that is left.        *)
(***************************************************************************)
StopReturned ==
  proc = "stopping" /\ reader \in {"sentinel", "join", "off", "failed"}

Exit ==
  /\ \/ StopReturned
     \/ Running /\ "crash" \in Faults
  /\ proc' = "down"
  /\ reader' = "off" /\ parser' = "off"
  /\ queue' = <<>> /\ batch' = <<>>
  /\ saving' = TRUE /\ saved' = 0
  /\ frames' = 0 /\ parsed' = 0 /\ unparsed' = 0 /\ malformed' = 0
  /\ dropped' = 0 /\ pending' = 0 /\ error' = FALSE /\ session_id' = 0
  /\ observed' = 0 /\ stop_event' = FALSE
  /\ UNCHANGED database

(* A new process opens the same database: Store.__init__ and               *)
(* CaptureManager.__init__ touch no session row.                           *)
Restart ==
  /\ proc = "down"
  /\ proc' = "up"
  /\ UNCHANGED <<stop_event, reader, parser, queue, batch, manager, saved,
                 counters, pending, error, observed, database>>

-----------------------------------------------------------------------------
(* The reader thread: _run.                                                *)

(* _read_stats: the kernel's counter is read and reset.                    *)
ReadStats == dropped' = dropped + pending /\ pending' = 0

(* An OSError is reported only when nobody asked the capture to stop.      *)
ReportOSErrorSwapped == error' = (error \/ stop_event)

ReportOSError == error' = (error \/ ~stop_event)

(***************************************************************************)
(* The kernel drops a frame: possible while the socket is open.            *)
(***************************************************************************)
KernelDrop ==
  /\ Running
  /\ reader \in {"loop", "recv", "got", "put", "teardown"}
  /\ dropped + pending < MaxDrops
  /\ pending' = pending + 1
  /\ UNCHANGED <<proc, stop_event, reader, parser, queue, batch, manager,
                 saved, counters, error, observed, database>>

(* Socket, PCAP file, queue and parser thread are made in that order.      *)
NewQueueReused == queue

NewQueue == <<>>

ReaderOpens ==
  /\ reader = "open"
  /\ queue' = NewQueue
  /\ parser' = "get"
  /\ batch' = <<>>
  /\ reader' = "loop"
  /\ UNCHANGED <<proc, stop_event, manager, saved, counters, pending, error,
                 observed, database>>

AfterOpenFailsLeaves == "off"

AfterOpenFails == "abort"

OpenFails ==
  /\ reader = "open"
  /\ "open" \in Faults
  /\ ReportOSError \/ error' = TRUE     \* PermissionError: always reported
  /\ reader' = AfterOpenFails
  /\ UNCHANGED <<proc, stop_event, parser, queue, batch, manager, saved,
                 counters, pending, observed, database>>

(* Store.end_session: the end and the counters as they are now.            *)
StoreEndSession ==
  /\ ended' = [ended EXCEPT ![session_id] = TRUE]
  /\ tally' = [tally EXCEPT ![session_id] =
                 [frames |-> frames, dropped |-> dropped]]

(* No parser was started, so the reader closes the session itself.         *)
ReaderClosesSession ==
  /\ reader = "abort"
  /\ \/ /\ StoreEndSession
        /\ reader' = "off"
     \/ /\ "db" \in Faults
        /\ reader' = "failed"
        /\ UNCHANGED <<ended, tally>>
  /\ UNCHANGED <<proc, stop_event, parser, queue, batch, manager, saved,
                 counters, pending, error, observed, rows, log>>

(* The loop's condition; the counters are read a last time on the way out. *)
ReaderLoop ==
  /\ reader = "loop"
  /\ \/ /\ stop_event
        /\ ReadStats
        /\ reader' = "teardown"
     \/ /\ ~stop_event
        /\ reader' = "recv"
        /\ UNCHANGED <<dropped, pending>>
  /\ UNCHANGED <<proc, stop_event, parser, queue, batch, manager, saved,
                 frames, parsed, unparsed, malformed, error, observed,
                 database>>

RecvTimeout ==
  /\ reader = "recv"
  /\ ReadStats
  /\ reader' = "loop"
  /\ UNCHANGED <<proc, stop_event, parser, queue, batch, manager, saved,
                 frames, parsed, unparsed, malformed, error, observed,
                 database>>

RecvFrame ==
  /\ reader = "recv"
  /\ frames < MaxFrames
  /\ frames' = frames + 1
  /\ reader' = "got"
  /\ UNCHANGED <<proc, stop_event, parser, queue, batch, manager, saved,
                 parsed, unparsed, malformed, dropped, pending, error,
                 observed, database>>

RecvFails ==
  /\ reader = "recv"
  /\ "recv" \in Faults
  /\ ReportOSError
  /\ reader' = "teardown"
  /\ UNCHANGED <<proc, stop_event, parser, queue, batch, manager, saved,
                 counters, pending, observed, database>>

(* A full disk: the frame is counted and goes nowhere.                     *)
WriteFails ==
  /\ reader = "got"
  /\ saving
  /\ "write" \in Faults
  /\ ReportOSError
  /\ reader' = "teardown"
  /\ UNCHANGED <<proc, stop_event, parser, queue, batch, manager, saved,
                 counters, pending, observed, database>>

(* After an iteration the counters are read if a second has passed.        *)
EndIteration ==
  /\ reader' = "loop"
  /\ ReadStats \/ UNCHANGED <<dropped, pending>>

QueueFullLate == Len(queue) > QueueFrames

QueueFull == Len(queue) >= QueueFrames

CountSkippedForgets == UNCHANGED unparsed

CountSkipped == unparsed' = unparsed + 1

(* The frame is written first; then the queue is asked whether it is full. *)
WriteFrame ==
  /\ reader = "got"
  /\ saved' = IF saving THEN saved + 1 ELSE saved
  /\ \/ /\ QueueFull
        /\ CountSkipped
        /\ EndIteration
     \/ /\ ~QueueFull
        /\ reader' = "put"
        /\ UNCHANGED <<unparsed, dropped, pending>>
  /\ UNCHANGED <<proc, stop_event, parser, queue, batch, manager, frames,
                 parsed, malformed, error, observed, database>>

(* put() waits for space; the parser may have made more in the meantime.   *)
PutFrame ==
  /\ reader = "put"
  /\ Len(queue) < QueueFrames
  /\ queue' = Append(queue, frames)
  /\ EndIteration
  /\ UNCHANGED <<proc, stop_event, parser, batch, manager, saved, frames,
                 parsed, unparsed, malformed, error, observed, database>>

(* The socket is closed; drops not read by now are not read at all.        *)
Teardown ==
  /\ reader = "teardown"
  /\ pending' = 0
  /\ reader' = "sentinel"
  /\ UNCHANGED <<proc, stop_event, parser, queue, batch, manager, saved,
                 counters, error, observed, database>>

(***************************************************************************)
(* _hand_over_sentinel: one slice of its loop either finds the parser      *)
(* dead, or puts the sentinel if there is space, or times out (a stutter). *)
(* The parser may die between is_alive and put, so put needs only space.   *)
(***************************************************************************)
ParserGoneIgnored == FALSE

ParserGone == ~ParserAlive

HandOverSentinel ==
  /\ reader = "sentinel"
  /\ \/ ~QueueFull /\ queue' = Append(queue, None)
     \/ ParserGone /\ UNCHANGED queue
  /\ reader' = "join"
  /\ UNCHANGED <<proc, stop_event, parser, batch, manager, saved, counters,
                 pending, error, observed, database>>

JoinedEarly == TRUE

Joined == ~ParserAlive

JoinParser ==
  /\ reader = "join"
  /\ Joined
  /\ reader' = "off"
  /\ UNCHANGED <<proc, stop_event, parser, queue, batch, manager, saved,
                 counters, pending, error, observed, database>>

-----------------------------------------------------------------------------
(* The parser thread: _parse_loop.                                         *)

(***************************************************************************)
(* A frame is taken and decoded: to an observation, to nothing, or to an   *)
(* exception that is counted and costs that frame only.                    *)
(***************************************************************************)
TakeFrame ==
  /\ parser = "get"
  /\ queue # <<>> /\ Head(queue) # None
  /\ queue' = Tail(queue)
  /\ parsed' = parsed + 1
  /\ \/ /\ batch' = Append(batch, Head(queue))
        /\ observed' = observed + 1
        /\ UNCHANGED malformed
     \/ UNCHANGED <<batch, observed, malformed>>
     \/ /\ malformed' = malformed + 1
        /\ UNCHANGED <<batch, observed>>
  /\ parser' = "check"
  /\ UNCHANGED <<proc, stop_event, reader, manager, saved, frames, unparsed,
                 dropped, pending, error, database>>

TakeSentinel ==
  /\ parser = "get"
  /\ queue # <<>> /\ Head(queue) = None
  /\ queue' = Tail(queue)
  /\ parser' = "final"
  /\ UNCHANGED <<proc, stop_event, reader, batch, manager, saved, counters,
                 pending, error, observed, database>>

(* get(timeout=BATCH_INTERVAL) came back empty.                            *)
NextWhenIdleSkips == "get"

NextWhenIdleStops == IF stop_event THEN "final" ELSE "idle"

NextWhenIdle == "idle"

TakeNothing ==
  /\ parser = "get"
  /\ queue = <<>>
  /\ parser' = NextWhenIdle
  /\ UNCHANGED <<proc, stop_event, reader, queue, batch, manager, saved,
                 counters, pending, error, observed, database>>

(***************************************************************************)
(* record_many is one transaction: all of the batch or, on an error that   *)
(* leaves the loop, none of it.                                            *)
(***************************************************************************)
EmptiedBatchKeepsLast ==
  IF Len(batch) > 1 THEN <<batch[Len(batch)]>> ELSE <<>>

EmptiedBatch == <<>>

RecordMany(next) ==
  \/ /\ log' = [log EXCEPT ![session_id] = @ \o batch]
     /\ batch' = EmptiedBatch
     /\ parser' = next
  \/ /\ "db" \in Faults
     /\ batch' = <<>>
     /\ parser' = "unwind"
     /\ UNCHANGED log

(***************************************************************************)
(* After a frame: a full batch must be recorded, a smaller one is when     *)
(* BATCH_INTERVAL has passed.  After an empty wait that interval has       *)
(* passed, so whatever there is is recorded.                               *)
(***************************************************************************)
FlushDue == batch # <<>> /\ parser \in {"check", "idle"}

FlushNotDue ==
  \/ parser = "check" /\ Len(batch) < BatchSize
  \/ parser = "idle" /\ batch = <<>>

Flush ==
  /\ FlushDue
  /\ RecordMany("get")
  /\ UNCHANGED <<proc, stop_event, reader, queue, manager, saved, counters,
                 pending, error, observed, rows, ended, tally>>

SkipFlush ==
  /\ FlushNotDue
  /\ parser' = "get"
  /\ UNCHANGED <<proc, stop_event, reader, queue, batch, manager, saved,
                 counters, pending, error, observed, database>>

(* After the sentinel, the rest of the batch.                              *)
FinalFlush ==
  /\ parser = "final"
  /\ \/ batch # <<>> /\ RecordMany("closing")
     \/ batch = <<>> /\ parser' = "closing" /\ UNCHANGED <<batch, log>>
  /\ UNCHANGED <<proc, stop_event, reader, queue, manager, saved, counters,
                 pending, error, observed, rows, ended, tally>>

(* The finally clause: reached after the sentinel or by an exception.      *)
EndSession ==
  /\ parser \in {"closing", "unwind"}
  /\ \/ /\ StoreEndSession
        /\ parser' = IF parser = "closing" THEN "off" ELSE "failed"
     \/ /\ "db" \in Faults
        /\ parser' = "failed"
        /\ UNCHANGED <<ended, tally>>
  /\ UNCHANGED <<proc, stop_event, reader, queue, batch, manager, saved,
                 counters, pending, error, observed, rows, log>>

-----------------------------------------------------------------------------
ReaderNext ==
  /\ Running
  /\ \/ ReaderOpens \/ OpenFails \/ ReaderClosesSession \/ ReaderLoop
     \/ RecvTimeout \/ RecvFrame \/ RecvFails \/ WriteFails \/ WriteFrame
     \/ PutFrame \/ Teardown \/ HandOverSentinel \/ JoinParser

ParserNext ==
  /\ Running
  /\ \/ TakeFrame \/ TakeSentinel \/ TakeNothing \/ Flush \/ SkipFlush
     \/ FinalFlush \/ EndSession

OperatorNext == Start \/ StartFails \/ Stop
ProcessNext  == Interrupt \/ Exit \/ Restart

Next == ReaderNext \/ ParserNext \/ OperatorNext \/ ProcessNext \/ KernelDrop

(***************************************************************************)
(* The operating system schedules both threads; recv, get and put all time *)
(* out, so neither waits for the network.  Nobody is obliged to start,     *)
(* stop or restart anything.                                               *)
(***************************************************************************)
Fairness == WF_vars(ReaderNext) /\ WF_vars(ParserNext)

Spec     == Init /\ [][Next]_vars
FairSpec == Spec /\ Fairness

-----------------------------------------------------------------------------
(* Properties                                                              *)

ThreadsOK ==
  /\ proc \in {"up", "stopping", "down"}
  /\ reader \in ReaderStates /\ parser \in ParserStates

FlagsOK == stop_event \in BOOLEAN /\ saving \in BOOLEAN /\ error \in BOOLEAN

CountersOK ==
  /\ saved \in Nat /\ frames \in Nat /\ parsed \in Nat /\ unparsed \in Nat
  /\ malformed \in Nat /\ dropped \in Nat /\ pending \in Nat
  /\ observed \in Nat

FramesOK == queue \in Seq(Nat) /\ batch \in Seq(Nat)

DatabaseOK ==
  /\ rows \in 0..MaxSessions /\ session_id \in 0..rows
  /\ ended \in [Sessions -> BOOLEAN]
  /\ tally \in [Sessions -> [frames : Nat, dropped : Nat]]
  /\ log \in [Sessions -> Seq(Nat)]

TypeOK == ThreadsOK /\ FlagsOK /\ CountersOK /\ FramesOK /\ DatabaseOK

SentinelQueued == queue # <<>> /\ queue[Len(queue)] = None

FramesQueued == Len(queue) - (IF SentinelQueued THEN 1 ELSE 0)

(* Frames that got past the PCAP write: with a PCAP, those it holds.       *)
Accepted ==
  IF saving THEN saved ELSE IF reader = "got" THEN frames - 1 ELSE frames

Capturing == ReaderAlive /\ reader \notin {"open", "abort"}

NoDatabaseError == reader # "failed" /\ parser \notin {"unwind", "failed"}

(***************************************************************************)
(* No frame vanishes between the reader and the parser: every accepted     *)
(* frame is parsed, counted as unparsed, waiting in the queue or in the    *)
(* reader's hand.  status() shows the operator exactly these counters.     *)
(* (A capture that has not opened yet still shows the queue a dead parser  *)
(* left behind.)                                                           *)
(***************************************************************************)
FramesAccounted ==
  Capturing \/ NoDatabaseError =>
    Accepted =
      parsed + unparsed + FramesQueued + (IF reader = "put" THEN 1 ELSE 0)

(***************************************************************************)
(* The reader asks full() and puts in two steps with the parser running in *)
(* between; it must still never wait in put(), because every moment spent  *)
(* there is receive-buffer time (the docstring of _run).                   *)
(***************************************************************************)
PutNeverBlocks == reader = "put" => Len(queue) < QueueFrames

(***************************************************************************)
(* Everything the parser decoded is in the database once, or waits in its  *)
(* batch, whatever the interleaving of flushes, the stop and the final     *)
(* flush.  A transaction that fails takes its batch, and nothing else:     *)
(* what was committed before stays, and no observation is ever in the      *)
(* database twice.                                                         *)
(***************************************************************************)
ObservationsConserved ==
  session_id # 0 /\ reader # "failed" =>
    LET recorded == Len(log[session_id]) + Len(batch)
    IN /\ NoDatabaseError => observed = recorded
       /\ observed \in recorded..(recorded + BatchSize)

(***************************************************************************)
(* The frames of a session reach the database in the order they arrived,   *)
(* each at most once, with gaps for frames that were skipped or decoded to *)
(* nothing.                                                                *)
(***************************************************************************)
Increasing(seq) == \A i, j \in 1..Len(seq) : i < j => seq[i] < seq[j]

RecordedInOrder ==
  /\ \A s \in Sessions : Increasing(log[s])
  /\ session_id # 0 => Increasing(log[session_id] \o batch)

(***************************************************************************)
(* "Keeps going after the reader stops until everything the reader handed  *)
(* over is in the database, then closes the session" (_parse_loop), for a  *)
(* parser that met no database error: the session is closed with nothing   *)
(* left behind and with the counters the capture ended on.                 *)
(***************************************************************************)
ClosedMeansDrained ==
  session_id # 0 /\ ended[session_id] /\ NoDatabaseError =>
    /\ queue = <<>> /\ batch = <<>>
    /\ tally[session_id] = [frames |-> frames, dropped |-> dropped]

(***************************************************************************)
(* A capture that ends although nobody stopped it says so: the OSError     *)
(* handler looks at the stop event later than the failure it reports.      *)
(***************************************************************************)
FailureIsReported ==
  session_id # 0 /\ ~stop_event /\ ~ReaderAlive => error \/ reader = "failed"

(* What the database promises (CaptureLedger), implemented by the threads. *)
Ledger == INSTANCE CaptureLedger

LedgerSpec == Ledger!Spec

(***************************************************************************)
(* A stop ends the reader, whatever state the parser is in: draining, dead *)
(* on a database error with the queue full, or never started.              *)
(***************************************************************************)
StopStopsReader == stop_event ~> (~ReaderAlive \/ proc = "down")

(***************************************************************************)
(* A stopped capture's session is eventually closed, unless the database   *)
(* refused or the process ended first.                                     *)
(***************************************************************************)
StopClosesSession ==
  stop_event /\ session_id # 0 ~>
    \/ session_id # 0 /\ ended[session_id]
    \/ "failed" \in {reader, parser}
    \/ proc = "down"

(***************************************************************************)
(* An observation does not wait for more traffic to be recorded            *)
(* (BATCH_INTERVAL: "so the UI stays live on a quiet network").            *)
(***************************************************************************)
BatchReachesDatabase == batch # <<>> ~> batch = <<>>

-----------------------------------------------------------------------------
(* What the repository says and the code does not always do.               *)

(***************************************************************************)
(* "the frame is on disk in the PCAP but will not be parsed live - counted *)
(* separately from kernel drops because it is recoverable by re-import"    *)
(* (capture.py:246-247): every frame the live parser skipped is in a PCAP. *)
(***************************************************************************)
UnparsedIsRecoverable == unparsed <= saved

(***************************************************************************)
(* "an open session is measured to now" (store.py:23), and stop's "closed  *)
(* by the parser thread once the queue is drained": a session without an   *)
(* end belongs to the capture in progress.                                 *)
(***************************************************************************)
OpenSessionIsCapturing ==
  \A s \in Sessions :
    s <= rows /\ ~ended[s] =>
      s = session_id /\ (ReaderAlive \/ ParserAlive)

=============================================================================
