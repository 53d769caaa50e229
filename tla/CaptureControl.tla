--------------------------- MODULE CaptureControl ---------------------------
(***************************************************************************)
(* What the request threads of ot_scout/web.py start: live captures        *)
(* (CaptureManager.start, stop), imports of PCAP files (import_pcap) and   *)
(* updates of the vendor table (Store.update_vendors, vendor.py), which    *)
(* share the attributes of one CaptureManager, the sessions and the table. *)
(*                                                                         *)
(* A live capture is only a reader here, with the parser it hands its      *)
(* frames to; CapturePipeline has their steps. It is "reading", then       *)
(* "draining" until the parser is done, then "gone".                       *)
(***************************************************************************)
EXTENDS RequestGuard, Sequences, FiniteSets

CONSTANTS
  Threads,      \* request threads
  Files,        \* PCAP files, as sequences of "obs", "none", "bad" and "cut"
  BatchSize,    \* BATCH_SIZE
  Macs,         \* the assets whose vendor is looked up
  MaxReaders, MaxSessions   \* bounds on captures started and sessions opened

ASSUME ControlAssumption ==
  /\ BatchSize \in Nat \ {0}
  /\ MaxReaders \in Nat /\ MaxSessions \in Nat
  /\ \A f \in Files : f \in Seq({"obs", "none", "bad", "cut"})

VARIABLES
  req,          \* what each request thread is doing
  reader,       \* the reader of each capture that was started
  thread,       \* CaptureManager.thread: the last of them, 0 at first
  stop_event,   \* CaptureManager.stop_event
  session_id,   \* CaptureManager.session_id
  sessions,     \* the sessions: [kind, open, by, file, frames]
  prefixes,     \* VendorLookup.prefixes: the table of which edition, or "empty"
  vendor,       \* assets.vendor: looked up in which table, "absent" if no row
  held,         \* the vendor a recorder has looked up and not yet written
  refreshed,    \* history: the table and the rows are of one update
  overlapped    \* history: "start" if two starts were under way at one time, "update"
                \* if an update and another request were

captureVars == <<reader, thread, stop_event, session_id>>
vendorVars == <<prefixes, vendor, refreshed>>
controlVars == <<req, captureVars, sessions, vendorVars, held, overlapped>>
vars == <<guardVars, controlVars>>

\* Where a request is that has no file to import.
At(pc, kind) == [pc |-> pc, kind |-> kind, session |-> 0, file |-> <<>>, pos |-> 0]
Idle == At("idle", "none")

Recorders == (1..MaxReaders) \cup Threads
NotHeld == [mac |-> "none", found |-> "none"]

ControlInit ==
  /\ req = [t \in Threads |-> Idle]
  /\ reader = [c \in 1..MaxReaders |-> "none"]
  /\ thread = 0
  /\ stop_event = FALSE
  /\ session_id = 0
  /\ sessions = <<>>
  /\ prefixes = "first"
  /\ vendor = [m \in Macs |-> "absent"]
  /\ held = [w \in Recorders |-> NotHeld]
  /\ refreshed = FALSE
  /\ overlapped = {}

Live == {c \in 1..MaxReaders : reader[c] \in {"reading", "draining"}}

runningNotFinishing == thread # 0 /\ reader[thread] = "reading"
running == thread # 0 /\ reader[thread] \in {"reading", "draining"}

\* A request of the page is answered by an idle thread, if the guard lets it in.
Busy(t) == req[t].pc # "idle"
Admitted(t) == ~Busy(t) /\ WritesBy("page") # {}

\* History: a request of this kind is taken up while others are under way: a second
\* start, or an update and anything else.
Overlaps(kind) ==
  LET others == {req[t].kind : t \in {u \in Threads : Busy(u)}}
  IN overlapped \cup (IF kind = "start" THEN {"start"} \cap others ELSE {})
                \cup (IF kind = "update" /\ others # {} THEN {"update"}
                      ELSE {"update"} \cap others)

Goto(t, pc) == req' = [req EXCEPT ![t].pc = pc]
Answer(t) == req' = [req EXCEPT ![t] = Idle]

----------------------------------------------------------------------------
(* Starting and stopping a capture.                                        *)

StartCheckClears(t) ==
  /\ Admitted(t)
  /\ stop_event' = FALSE
  /\ req' = IF running THEN req
            ELSE [req EXCEPT ![t] = At("checked", "start")]
  /\ overlapped' = IF running THEN overlapped ELSE Overlaps("start")
  /\ UNCHANGED <<reader, thread, session_id, sessions, vendorVars, held>>
StartCheck(t) ==
  /\ Admitted(t)
  /\ ~running
  /\ req' = [req EXCEPT ![t] = At("checked", "start")]
  /\ overlapped' = Overlaps("start")
  /\ UNCHANGED <<captureVars, sessions, vendorVars, held>>

StartReset(t) ==
  /\ req[t].pc = "checked"
  /\ stop_event' = FALSE
  /\ Goto(t, "reset")
  /\ UNCHANGED <<reader, thread, session_id, sessions, vendorVars, held, overlapped>>

Opened(kind, by, file) ==
  Append(sessions, [kind |-> kind, open |-> TRUE, by |-> by, file |-> file, frames |-> <<>>])

StartSession(t) ==
  /\ req[t].pc = "reset" /\ Len(sessions) < MaxSessions
  /\ sessions' = Opened("live", {}, <<>>)
  /\ session_id' = Len(sessions) + 1
  /\ Goto(t, "begun")
  /\ UNCHANGED <<reader, thread, stop_event, vendorVars, held, overlapped>>

\* The interface is not there, or begin_session or set_session_pcap raises: the request
\* is answered with an error, and a session that was begun stays open.
StartFails(t) ==
  /\ req[t].pc \in {"checked", "reset", "begun"}
  /\ Answer(t)
  /\ UNCHANGED <<captureVars, sessions, vendorVars, held, overlapped>>

NextReader == Cardinality({c \in 1..MaxReaders : reader[c] # "none"}) + 1

StartSpawn(t) ==
  /\ req[t].pc = "begun" /\ NextReader <= MaxReaders
  /\ reader' = [reader EXCEPT ![NextReader] = "reading"]
  /\ thread' = NextReader
  /\ Answer(t)
  /\ UNCHANGED <<stop_event, session_id, sessions, vendorVars, held, overlapped>>

\* stop() waits at most three seconds for the thread, which changes nothing.
Stop(t) ==
  /\ Admitted(t)
  /\ stop_event' = TRUE
  /\ UNCHANGED <<req, reader, thread, session_id, sessions, vendorVars, held, overlapped>>

\* The reader sees the event, or its socket fails.
ReaderStops(c) ==
  /\ reader[c] = "reading"
  /\ reader' = [reader EXCEPT ![c] = "draining"]
  /\ UNCHANGED <<req, thread, stop_event, session_id, sessions, vendorVars, held, overlapped>>

\* Its parser has written the last batch and closes the session of the manager.
LatestSession == Len(sessions)
LiveSession == session_id

ReaderEnds(c) ==
  /\ reader[c] = "draining" /\ held[c] = NotHeld
  /\ reader' = [reader EXCEPT ![c] = "gone"]
  /\ sessions' = [sessions EXCEPT ![LiveSession].open = FALSE]
  /\ UNCHANGED <<req, thread, stop_event, session_id, vendorVars, held, overlapped>>

----------------------------------------------------------------------------
(* Recording: the vendor is looked up before the row is written.           *)

LookUp(w) ==
  /\ w \in Live \/ (w \in Threads /\ req[w].pc = "importing")
  /\ held[w] = NotHeld
  /\ \E m \in Macs : held' = [held EXCEPT ![w] = [mac |-> m, found |-> prefixes]]
  /\ UNCHANGED <<req, captureVars, sessions, vendorVars, overlapped>>

\* The row is inserted, or its vendor filled in where it has none.
WriteRow(w) ==
  LET m == held[w].mac
  IN /\ held[w] # NotHeld
     /\ vendor' = [vendor EXCEPT ![m] = IF @ \in {"absent", "empty"} THEN held[w].found ELSE @]
     /\ held' = [held EXCEPT ![w] = NotHeld]
     /\ sessions' = IF w \in Live THEN [sessions EXCEPT ![LiveSession].by = @ \cup {w}]
                    ELSE sessions
     /\ UNCHANGED <<req, captureVars, prefixes, refreshed, overlapped>>

----------------------------------------------------------------------------
(* Importing a PCAP.                                                       *)

ImportBegin(t) ==
  /\ Admitted(t)
  /\ ~running
  /\ Len(sessions) < MaxSessions
  /\ \E f \in Files :
       /\ sessions' = Opened("pcap", {t}, f)
       /\ req' = [req EXCEPT ![t] = [pc |-> "importing", kind |-> "import",
                                     session |-> Len(sessions) + 1, file |-> f, pos |-> 0]]
  /\ overlapped' = Overlaps("import")
  /\ UNCHANGED <<captureVars, vendorVars, held>>

\* The frames of a file from a to b that are observations, by their place in it.
Observations(f, a, b) == {n \in a..b : f[n] = "obs"}
Ascending(s) == \A i, j \in DOMAIN s : i < j => s[i] < s[j]
ObservedIn(f, a, b) ==
  LET S == Observations(f, a, b)
  IN CHOOSE s \in [1..Cardinality(S) -> S] : Ascending(s)

\* The session the batches go to: the local variable of this call.
ImportSessionShared(t) == session_id
ImportSession(t) == req[t].session

\* Frames are decoded until a batch is full, or the file ends; then it is written.
BatchAt(t, n) == Len(ObservedIn(req[t].file, req[t].pos + 1, n)) = BatchSize
Raises(f, a, b) == \E n \in a..b : f[n] \in {"bad", "cut"}

ImportBatch(t) ==
  LET f == req[t].file
      from == req[t].pos + 1
  IN /\ req[t].pc = "importing" /\ held[t] = NotHeld
     /\ \E n \in from..Len(f) :
          /\ BatchAt(t, n) /\ ~Raises(f, from, n)
          /\ \A k \in from..(n - 1) : ~BatchAt(t, k)
          /\ sessions' = [sessions EXCEPT ![ImportSession(t)].frames = @ \o ObservedIn(f, from, n)]
          /\ req' = [req EXCEPT ![t].pos = n]
     /\ UNCHANGED <<captureVars, vendorVars, held, overlapped>>

\* The rest is less than a batch: it is written and the session closed.
ImportEnds(t) ==
  LET f == req[t].file
      from == req[t].pos + 1
  IN /\ req[t].pc = "importing" /\ held[t] = NotHeld
     /\ ~Raises(f, from, Len(f))
     /\ Len(ObservedIn(f, from, Len(f))) < BatchSize
     /\ sessions' = [sessions EXCEPT ![ImportSession(t)].frames = @ \o ObservedIn(f, from, Len(f)),
                                     ![ImportSession(t)].open = FALSE]
     /\ Answer(t)
     /\ UNCHANGED <<captureVars, vendorVars, held, overlapped>>

\* A frame cannot be decoded, the file is cut short, or the database refuses: the
\* batch is lost and the session closed.
ImportFails(t) ==
  /\ req[t].pc = "importing" /\ held[t] = NotHeld
  /\ sessions' = [sessions EXCEPT ![ImportSession(t)].open = FALSE]
  /\ Answer(t)
  /\ UNCHANGED <<captureVars, vendorVars, held, overlapped>>

----------------------------------------------------------------------------
(* Updating the vendor table.                                              *)

CaptureIgnored == FALSE
CaptureInTheWay == running
UpdateCheck(t) ==
  /\ Admitted(t)
  /\ ~CaptureInTheWay
  /\ req' = [req EXCEPT ![t] = At("downloading", "update")]
  /\ overlapped' = Overlaps("update")
  /\ UNCHANGED <<captureVars, sessions, vendorVars, held>>

\* Not reachable, too large, not the table, too small; or the rows cannot be written.
UpdateFails(t) ==
  /\ req[t].pc \in {"downloading", "loaded"}
  /\ Answer(t)
  /\ UNCHANGED <<captureVars, sessions, vendorVars, held, overlapped>>

\* load() empties the table before it reads the new one.
UpdateClears(t) ==
  /\ req[t].pc = "downloading"
  /\ prefixes' = "empty"
  /\ refreshed' = FALSE
  /\ Goto(t, "loading")
  /\ UNCHANGED <<captureVars, sessions, vendor, held, overlapped>>

UpdateLoads(t) ==
  /\ req[t].pc = "loading"
  /\ prefixes' = "second"
  /\ Goto(t, "loaded")
  /\ UNCHANGED <<captureVars, sessions, vendor, refreshed, held, overlapped>>

\* Every row is given what the table says, in one transaction.
UpdateRows(t) ==
  /\ req[t].pc = "loaded"
  /\ vendor' = [m \in Macs |-> IF vendor[m] = "absent" THEN "absent" ELSE prefixes]
  /\ refreshed' = TRUE
  /\ Answer(t)
  /\ UNCHANGED <<captureVars, sessions, prefixes, held, overlapped>>

----------------------------------------------------------------------------
\* The process ends and is started again: only the browser and the database stay.
Relaunch ==
  /\ Relaunched
  /\ req' = [t \in Threads |-> Idle]
  /\ reader' = [c \in 1..MaxReaders |-> IF reader[c] = "none" THEN "none" ELSE "gone"]
  /\ thread' = 0 /\ stop_event' = FALSE /\ session_id' = 0
  /\ held' = [w \in Recorders |-> NotHeld]
  /\ prefixes' = IF prefixes = "first" THEN "first" ELSE "second"
  /\ refreshed' = FALSE
  /\ UNCHANGED <<sessions, vendor, overlapped>>

Init == GuardInit /\ ControlInit

ControlNext ==
  \/ \E t \in Threads : \/ StartCheck(t) \/ StartReset(t) \/ StartSession(t)
                        \/ StartFails(t) \/ StartSpawn(t) \/ Stop(t)
                        \/ ImportBegin(t) \/ ImportBatch(t) \/ ImportEnds(t) \/ ImportFails(t)
                        \/ UpdateCheck(t) \/ UpdateFails(t) \/ UpdateClears(t)
                        \/ UpdateLoads(t) \/ UpdateRows(t)
  \/ \E c \in 1..MaxReaders : ReaderStops(c) \/ ReaderEnds(c)
  \/ \E w \in Recorders : LookUp(w) \/ WriteRow(w)

Next == \/ ControlNext /\ UNCHANGED guardVars
        \/ (Reload \/ \E n \in 1..launch : OpenUrl(n)) /\ UNCHANGED controlVars
        \/ Relaunch

Spec == Init /\ [][Next]_vars

----------------------------------------------------------------------------
(* Properties.                                                             *)

\* Every variable keeps its type. A request in progress has a kind, an import in
\* progress is the only one on its session, which is open.
TypeOK ==
  /\ launch \in 1..MaxLaunches /\ jar \in 0..launch /\ tab \in 0..launch
  /\ \A t \in Threads : req[t].pc = "idle" <=> req[t].kind = "none"
  /\ reader \in [1..MaxReaders -> {"none", "reading", "draining", "gone"}]
  /\ thread \in 0..MaxReaders /\ (thread # 0 => reader[thread] # "none")
  /\ stop_event \in BOOLEAN
  /\ session_id \in 0..Len(sessions) /\ (Live # {} => session_id # 0)
  /\ prefixes \in {"first", "empty", "second"}
  /\ vendor \in [Macs -> {"absent", "first", "empty", "second"}]
  /\ \A t \in Threads : req[t].kind = "import" =>
       /\ sessions[req[t].session].open
       /\ \A u \in Threads \ {t} : req[u].session # req[t].session

\* Unless two start requests were under way at one time, there is at most one reader,
\* it is the one that running, finishing and stop look at, and no live session has
\* the frames of two (start's test of running, and running until the parser is done).
CapturesApart ==
  "start" \notin overlapped =>
    /\ Live \subseteq {thread}
    /\ \A n \in DOMAIN sessions :
         sessions[n].kind = "live" => Cardinality(sessions[n].by) <= 1

\* A stop stays in force until the capture it was meant for has ended, again unless
\* two start requests overlap: no start, refused or accepted, takes it back before.
StopNotForgotten ==
  []["start" \notin overlapped' /\ stop_event /\ ~stop_event' => Live' = {}]_vars

\* Whatever captures and other imports run besides, an imported session holds the
\* observations of its own file, in order, from the first on and in whole batches
\* unless it is all of them, and a live session holds none (import_pcap).
ImportIsPrefix ==
  \A n \in DOMAIN sessions :
    LET s == sessions[n]
    IN \E k \in 0..Len(s.file) :
         /\ s.frames = ObservedIn(s.file, 1, k)
         /\ Len(s.frames) % BatchSize = 0 \/ k = Len(s.file)

\* After an update every asset has the vendor the table gives it, and so have the
\* assets recorded later, unless a start, an import or another update ran into it, or
\* two overlapping starts have left a reader that running does not see: the update is
\* refused while a capture runs, because its recorder looks vendors up before it
\* writes them.
VendorsCurrent ==
  refreshed /\ overlapped = {}
    => \A m \in Macs : vendor[m] \in {"absent", prefixes}

\* Over any launches and whatever cookie and page the browser still has, a request
\* that changes something is answered exactly for the page that this launch served
\* and for a program that was told its token (the docstring of _permitted: "anything
\* that is not the assessor's own page, launched this time" is refused).
OnlyOwnPage ==
  /\ WritesBy("stranger") = {}
  /\ WritesBy("page") # {} <=> tab = launch
  /\ \A r \in WritesBy("tool") : r.header = launch
=============================================================================
