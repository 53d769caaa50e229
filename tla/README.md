# A TLA+ verification of OT Scout

OT Scout listens on a mirror port, decodes what it hears and keeps an
inventory of assets, a map of communications and a register of findings in one
SQLite database. This directory models the parts of it whose correctness
depends on order or on the agreement of several pieces of state: the two
capture threads, the requests that start and stop them, the cache that request
threads share with them, the tables that give an asset its identity, its level
and its findings, the table that pairs requests with replies, and what the
decoders make of a frame that is cut. TLC checks the models on small instances;
the theorems are checked by the TLA+ proof system for every value of the
constants.

## The system

| Part | State it keeps | Operations | Interacts with |
|---|---|---|---|
| Capture pipeline (`capture.py`, `run.py`) | stop event, frame queue, batch, counters, `session_id`, error | start, stop, reader thread, parser thread, end of process | Store (begin/end session, `record_many`), the kernel's drop counter |
| PCAP import, rate limiter (`capture.py`, `web.py`) | a session, a batch, a one-second window | import, tick | Store; refused while a capture runs |
| HTTP server, guard (`web.py`, `bind.py`) | the token of the launch | check and dispatch, one thread per request | calls everything below |
| Store: cache (`store.py` `_bump`, `_cached`, `lock`) | generation, cached views | every write bumps, every view looks up, computes, stores | all request threads and the parser thread |
| Store: inventory | assets, aliases, sightings, IP evidence | record a frame, document an asset, merge, delete, re-import | capture and import feed it, views read it |
| Store: zones and conduits | levels with their source, decisions | edit, document, accept suggestions, merge, decide | views, analysis |
| Store: findings | findings, links to evidence | save, delete, link, import drafts | cites assets, relationships, zone pairs by text keys |
| Analysis (`analysis.py`) | none | drafts from the views | the import of drafts |
| Vendor lookup (`vendor.py`) | table of prefixes | look up, update | recording, update request |
| CIP pairing (`cip.py`) | 512 pending requests, one table of the process | remember, pair | parser thread and imports |
| Decoders (`parser.py`, `opcua.py`, `cip.py`) | none | bytes to observation | called by the parser thread and imports |
| Report, HTML export, editions, paths, demo, page | little or none | formatting, files | read views |

What makes it hard: the reader must never wait, so frames, errors and the stop
sentinel cross a bounded queue; the parser may die of a database error while
the reader lives on; both are daemon threads that the process takes with it;
requests test `capture.running` and then work for a long time; request threads
compute views while writers move the generation on; drafts are collected
without the lock, matched in one transaction and added in one each; merges,
deletions and re-sightings of the same MAC can follow each other in any order;
and the table of pending requests has no lock at all.

What makes each part correct:

- *capture*: every frame is accounted for, recorded at most once and in order,
  in its own session; a stop always ends; a session is closed after everything
  in it is written; a failure is reported.
- *control*: one reader at a time, the one that a stop stops; a live session
  and an import do not mix; an import is a prefix of its file; after an update
  of the vendor table all assets are of that table.
- *guard*: what changes something is answered only for the page this launch
  has served, or for a program that was told the token.
- *cache*: a view is not older than the generation it is served for; decisions
  are taken on current data.
- *inventory*: an identity names one asset; tables that count the same frames
  agree; evidence is lost only when the assessor deletes it.
- *zones*: a level the assessor entered stays; totals add up; the table and the
  diagram give a zone pair the same number, as far as the order by packets goes.
- *findings*: a citation names what it was made for; references are unique;
  importing drafts neither repeats nor loses one; what the assessor marks as
  unexpected is drafted.
- *pairing*: the table stays small; a reply is paired with its own request.
- *decoders*: of a cut frame nothing is said that the whole does not say, but for
  one field.

## Modules

| Module | Models | Code |
|---|---|---|
| `CapturePipeline` | reader, parser, operator and process | `capture.py` 145-362, `run.py` 70-77, `store.py` 308-325, 394-403 |
| `CaptureLedger` | what the database promises about sessions | abstract |
| `CaptureControl` | requests that start, stop, import and update; readers as wholes | `capture.py` 169-207, 357-398, `web.py` handlers, `store.py` `update_vendors`, `vendor.py` |
| `RequestGuard` | tokens, cookies and pages over launches | `bind.py`, `web.py` `_permitted` |
| `StoreCache` | generation, cache, lock | `store.py` 130-163, 182-195, 804-833 |
| `AssetStore` | assets, aliases, evidence, links | `store.py` 197-302, 332-457, 662-802, 1347-1361 |
| `IdentityMap` | every identity belongs to one asset | abstract |
| `Levels` | classification, suggestion, crossings, coverage (operators only) | `store.py` `_assets`, `_suggest_level`, `crossing_kind`, `pair_key`, `coverage` |
| `Zones` | levels and their source, flows, decisions, summary, diagram | `store.py` zones, `update_asset`, `merge_assets`, `purdue_svg` |
| `FindingsRegister` | rows, references, links, the import of drafts | `store.py` 1258-1420 |
| `Assessment` | composes `Zones` and `FindingsRegister`; the drafts | `analysis.py` |
| `CipPairing` | the pending table, one step per operation on it | `cip.py` |
| `Decoders` | what each decoder says of the first bytes of a frame (operators only) | `parser.py`, `opcua.py`, `cip.py` |
| `Decoding` | composes `CipPairing` and `Decoders` | |
| `CapturePipelineProofs`, `CaptureLedgerProofs`, `CaptureControlProofs`, `StoreCacheProofs`, `AssetStoreProofs`, `AssessmentProofs`, `DecodingProofs`, `DecodersProofs` | theorems | |
| `MC...` | instances for TLC: symmetry, model values | |

`PROJECT.json` maps every definition to its lines.

Definitions whose name says what is wrong with them (`QueueFullLate`,
`BumpForgets`, `LockIgnored`, ...) stand directly before the definition they
vary. They are used nowhere; each is a plausible bug, and replacing the correct
definition by it makes TLC report the property listed with it in
`PROJECT.json`.

### CapturePipeline

`reader` and `parser` are program counters: one value per point where the
thread can be overtaken. A reader step is the code between two such points: the
loop test, `recv` (a frame, a timeout or an error), the PCAP write with the
test of `full()`, `put()`, the tear-down, the sentinel, the join. A parser step
takes one item (a frame that decodes to an observation, to nothing, or to an
exception that costs that frame only), or finds the queue empty for
`BATCH_INTERVAL`, then flushes or not, and at the end writes the rest and closes
the session. `full()` and `put()` are separate steps on purpose, and so are the
write of the last batch and `end_session`.

`failed` is a thread that an exception ended: dead, like `off`, but with the
error on record. `proc` is the process: `stopping` is `run.py`'s `finally`
clause, whose `stop()` waits three seconds for the reader; `down` loses
everything but the database. A frame is its number in the session, which is
all the properties tell apart; `observed` is a history variable.

A kernel drop is counted in `pending` until `_read_stats` collects it. Time is
abstracted to what it enables: a flush after a frame may or must not be due, an
empty wait always is one `BATCH_INTERVAL`, so a pending batch is flushed after
it.

### StoreCache

A transaction is one step under the lock; the number of transactions committed
is the database, and for one asset that has a suggestion, whether the assessor
has set a level. A view is what it was computed from. Each job takes its steps
in the order of the code: `record` and `edit` bump and commit (an edit then
reads the view to answer with), `meta` commits and bumps, `accept` bumps, takes
the lock, reads the view, writes, unlocks, bumps. `_cached` is three steps:
look up, compute, store under the generation of *that* moment. `_bump` itself
is one step: two attribute assignments with no call between them, which
CPython does not interrupt.

`clean` is a history variable: no write was under way between the lookup and
the store. It is what the properties about current data are conditional on,
because without it they do not hold (see the run `cache_levels`).

### AssetStore

Every operation is one transaction under the lock, hence one step. `mac` is the
table of assets; a new row gets one more than the largest id present, as SQLite
does for a rowid without `AUTOINCREMENT`. `Record` is all of `_record` that
concerns identities: the session, the source, then the destination (which may
be multicast and then has no asset), and the IP evidence of the source, whether
or not the two are the same. `Merge` moves evidence by the three rules of the
code (ignore duplicates, add per session, add), turns the secondary's MAC and
aliases into aliases of the primary and deletes the row with what cascades from
it. The VLAN of a sighting, names, fingerprints and free-text fields are left
out: they move with the same statements and no property depends on them.

### CaptureControl and RequestGuard

A reader is only *reading*, *draining* (its parser is not done) or *gone*:
`CapturePipeline` has its steps. What this module adds is that the handlers of
`web.py` run in threads of their own. A start is five steps, because two starts
can interleave between any two of them: the test of `running`, the reset of
`stop_event`, `begin_session`, and the new thread. `running` and `stop` look at
the attribute `thread`, which holds the last reader only; `session_id` is one
attribute for all. `overlapped` is a history variable: two starts, or an update
and another request, were under way at one time. It is the exact premise under
which the promises hold. Two starts that overlap leave a reader that `running`
does not see, so that an import is then accepted while it records. Nothing in
the code prevents this but the assessor's one page.

An import reads a file frame by frame and writes in batches; a frame that
cannot be decoded, or a file cut short, ends it with the batch in hand lost and
the session closed. `LookUp` and `WriteRow` are the two steps of recording a
vendor, between which `update_vendors` may run; that one writes without
`Store.lock`, and its `load()` leaves the table empty in between.

In `RequestGuard` a token is the number of its launch. The browser keeps a
cookie, a tab keeps the page with the token in it. A name in a Host header may
have a final dot and a port: `bare_host` drops the dot only when no port
follows. Only requests of the page drive the operations in `CaptureControl`; a
program that has the token can send the same ones. A browser sends a cookie to
every port of a machine, so pages of another server are among the senders.

### Levels and Zones

What is known of an asset is a record of the facts that `_assets` and
`_suggest_level` test: kind of MAC, number of frame sources, addresses, roles,
ports. A device type is the set of keyword lists its text matches. `Learn` lets
this evidence grow as frames arrive. Flows become relationships between the
assets that hold the addresses *now*: a merge changes the ends of a
relationship but not the key of a decision on it. `Zones` keeps the two
orderings that number the zone pairs apart: `TableRow` for `_zone_summary`,
`DiagramNumber` for `purdue_svg`, each with its own filter and its own way with
pairs that have as many packets as each other. The table's sort is stable, so they
stay in the order in which the relationships, by packets and then by the names of
their ends, brought them in (`InsertedBefore`); the diagram's sorts them by the
names of the two levels (`NamedBefore`). The names of assets are a constant order
on their pairs, `NameOrder`.

### FindingsRegister and Assessment

A row is its reference, whether the assessor typed that reference, a title, the
key of the draft it came from and its links. `Collect` takes the drafts of the
moment without a lock; `Match` is the one transaction that matches them; each
`AddNext` is a transaction of its own, under the lock throughout; `ImportFails`
may happen between any two. A reference such as `OBS-A-1` passes the filter of
`_next_ref` and then fails in `int()` (`odd`): from then on nothing with this
prefix can be added, and every import fails at the first draft that is missing.

`entered` is a history variable: the level the assessor entered for a row. A merge
carries it with the level it copies (`MergedEntered`).

`Drafts` is the analysis: for each of its sixteen kinds of finding whether it
is due and what it cites. Those that depend on levels, flows, decisions or
coverage are computed from `Zones`; the others depend on state no operation
here changes and are a constant set `Facts`.

### CipPairing, Decoders and Decoding

`_remember` is not one step: the test of the size, `iter`, `next`, `del` and
the store are single operations on a dict that another parser may change in
between, which CPython answers with `RuntimeError`, `StopIteration` or
`KeyError`; all three are `raised`. `alone` is a history variable: no other
parser has changed the table since this one began to evict. Requests and
replies may be missed in any combination, and the table outlives a capture.

`Decoders` says, for a frame and the number of its bytes that were captured,
which claims the decoder makes and how many bytes of each value it took. Six
protocols are lists of tagged items and share one operator with a row of
parameters each, one of which (`exact`) is for S7, which tests the length of what
is left of a TSAP and not the length the TSAP gives; DNP3 and OPC UA say things in turn, as far as the frame can be
read; DNS gives up the whole reply when a name is cut. Contents are left out
but for the tags that decide what is said.

## Runs

| Run | Instance | Shows |
|---|---|---|
| `capture` | queue 2, batch 2, 3 frames and 1 drop per session, 2 sessions, all faults | safety, and that the threads implement `CaptureLedger` |
| `capture_live` | queue 1, batch 2, 2 frames, 1 drop, 2 sessions, all faults | termination of a stop, closing, flushing |
| `capture_unsaved` | queue 1, batch 2, no faults | violated: see below |
| `capture_exit` | queue 1, batch 2, the process may end | violated: see below |
| `control` | 2 symmetric request threads, 2 readers, 2 sessions, batch 2, 1 MAC, 2 files, 2 launches | what holds when requests overlap, and what holds only when starts do not; who may change anything |
| `store_cache` | 3 threads, 4 jobs, symmetric threads | what the generations guarantee |
| `cache_levels` | 3 threads, 3 jobs | violated: see below |
| `inventory` | 2 MACs, 1 documented asset, 3 ids, 2 sessions, 2 frames, symmetric MACs | identity and evidence, and that the tables implement `IdentityMap` |
| `inventory_reimport`, `inventory_citation` | the same, 1 session, 1 frame | violated: see below |
| `assessment` | 2 assets, 4 flows at 2 points, 4 states of evidence x documented x 2 types, 2 symmetric importers, 4 operations, 6 ids, a register of an older version or none | levels, summary, diagram, drafts and the register |
| `decoding` | 2 parsers, 3 conversations with the middle one shared, a table of 1, a frame of each protocol, two of S7, at every length | the pending table, pairing, cut frames |

Why the bounds are enough. *Capture*: with three frames and a queue of two the
queue fills, the sentinel meets a full queue, a batch fills and a partial batch
remains; two sessions let a second capture (or a restarted process) meet what
the first left behind. *Control*: every hazard is a pair, so two threads and
two readers meet it; two sessions are a live one and an import, two live ones,
or two imports; one file fills a batch and leaves a rest, the other raises
after a full batch; two launches separate the current token from an older one.
*Cache*: the smallest stale view takes a filler, a writer and a reader; four
jobs add an accept or a second writer to any of them. *Inventory*: three
identities are enough to merge a merged asset, to delete it and to see each of
its MACs again; with two frames two assets have evidence of their own, in the
same or in different sessions. *Assessment*: the four states of evidence are
nothing yet, a workstation, a controller and a gateway, so suggestions come,
change and go; the flows lead to an asset, to the internet and to an address
nobody has; until the second point has seen the one to the internet no two zone
pairs have as many packets, and after it two of them tie, so that the table and
the diagram number them by what they do with ties. `MaxOps` bounds
what the traffic and the assessor do, not the steps of the two imports: with
four, two imports can overlap, with a deletion, an edit or a decision between
their collecting and their matching. Two importers are what it takes, since a
third would wait for the same lock. *Decoding*: with a table of one the second
request already evicts, so three conversations give every collision of two
evictions; every cut of a frame is tried, and for the protocols that read in
turn also each field that fails; the second S7 frame has TSAPs of more than two
bytes, so that some cuts leave two.

Deadlock is checked in `capture`, `capture_live` and `decoding`: there the
operator can always start or stop, the process restart, the next frame arrive.
It is not checked in the other runs, which stop at a bound and not in the code:
the cache when `MaxJobs` jobs are done, the inventory when ids and frames are
used up and nothing is left to merge or link, the assessment when `MaxOps`
operations are done and no import is under way, the control when readers,
sessions and launches are used up; and the runs that look for one violation
need no more.

Fairness. `capture_live` assumes weak fairness of the reader and of the
parser, which is the operating system scheduling two runnable threads: every
wait in the code is bounded (`recv` 0.2 s, `get` 0.25 s, the sentinel's `put`
0.2 s), so neither depends on the network. No fairness is assumed of the
operator, the end of the process, the restart or the kernel's drops. A
`put` of a frame has no timeout; `PutNeverBlocks` is why it needs none. The
other parts answer requests and promise nothing about when.

What the properties of the three larger compositions say:

- `CapturesApart`, `StopNotForgotten`: as long as two starts do not overlap,
  `running` sees every reader, no live session has frames of two, and a stop is
  in force until its capture has ended. `ImportIsPrefix` needs no such premise:
  an import keeps its session in a local variable.
- `VendorsCurrent`: refusing an update while a capture runs is enough, if
  nothing else was under way when it was taken up.
- `OnlyOwnPage`: over two launches, the cookie alone never changes anything, an
  older page neither, and the current page is never refused.
- `NoDraftTwice`, `ImportComplete`, `GeneratedRefsDistinct`: the register stays
  consistent although drafts are collected outside the lock and added one by
  one; that a draft is matched by title only where no key is, is what makes
  `ImportComplete` hold.
- `UnexpectedIsDrafted`: three drafts divide the relationships marked
  `Unexpected` by set differences; none is in no draft, none in two.
- `AssessorLevelsKept`: a level that was entered stays until it is edited, and
  follows its row into a merge. A merge copies the level without a source, and a
  level without one is shown as the assessor's, so accepting suggestions with
  overwriting still passes over it. What a merge does lose is an entered level
  whose asset is merged into one that has a level, even one only suggested.
- `LevelAccounting`: infrastructure is recognised by the type that is shown, a
  suggestion by both types; the totals add up because the first is one of them.
- `DiagramMatchesTable`: when every crossing has a line, the number on a line and
  the row in the table both lie where the crossings with as many packets lie, so
  they are the same unless crossings tie. Premise and exception are needed: see
  below.
- `PendingBounded`, `RaisesOnlyWhenShared`, `PairedWithItsRequest`: without a
  lock the table exceeds its limit by at most one entry per further parser, and
  what it costs is a frame, never a wrong answer in a conversation of one's own.
- `CutSaysNoMore`: nothing new is said of a cut frame, but of a TSAP that is cut
  after its second byte. Four protocols take a last text that is cut as the text.

### Where the repository says more than the code does

1. **Skipped frames without a PCAP** (`capture_unsaved`). `capture.py:246` says
   a frame the live parser skipped "is on disk in the PCAP" and "recoverable by
   re-import". With `save_pcap` off there is no PCAP and the frame is lost,
   though it is counted as recoverable.
2. **Sessions that never end** (`capture_exit`). `stop()` says the parser closes
   the session once the queue is drained, and an open session "is measured to
   now". The process may exit first; nothing closes the session later.
3. **Levels you set yourself** (`cache_levels`). The page promises that accepting
   suggestions never changes them. A view that was computed before the level
   was set can be cached after it, and accept acts on cached views. (`Zones`
   takes each operation as atomic, so that `AssessorLevelsKept` holds there.)
4. **Re-import of a documented asset** (`inventory_reimport`). A test says
   re-import updates instead of duplicating. After the asset was merged into
   another, its `manual:` key leaves no alias and re-import inserts it again.
5. **Citations of an asset that is gone** (`inventory_citation`). Links keep an id
   that a later asset may be given, once the asset they name was merged away or
   deleted; the finding is then listed under that asset.

### Observed while modelling, and modelled as it is

- Two overlapping starts leave a reader that `running` does not see; a start
  that fails after `begin_session` leaves its session open.
- "#3 on the diagram is row 3 in the table" (`store.py:1038`) fails for pairs
  within one level and for crossings with an address that has no asset: these
  are rows of the table and have no line. It also fails for crossings with the
  same number of packets: the table leaves them in the order of insertion
  (`store.py:999`), the diagram sorts them by name (`store.py:1049`).
- A reference such as `OBS-A-1` makes `_next_ref` raise, and imports stop.
- A re-import does not add links to a finding that has some.
- A merge leaves conduit decisions under the endpoints they were made for, and
  copies a level without its source: a suggestion then shows as the assessor's.
  The secondary's level is dropped when the primary has one: a level the assessor
  entered gives way to one that was only suggested.
- A TSAP of more than two bytes that a frame is cut in, two bytes along, is taken
  for rack and slot (`parser.py:345`).
- An update of the vendor table overwrites a manufacturer the assessor documented.
- The text of a draft (`analysis.py:278`) says "Level 3 or below" also of a
  crossing from the enterprise levels.
- A keyword is looked for anywhere: a "virtual" interface contains "rtu".
- A frame cut within its TCP header is recorded as "IP-6"; a DCP frame cut
  before its role block is given the general role.
- A CIP request that is wrapped too deep to follow leaves an older one under
  its key, if there is one; the table is not cleared between captures.

## Proofs

| Theorem | States | For every |
|---|---|---|
| `CapturePipelineProofs!TypeCorrect` | `TypeOK` | queue, batch, number of frames and sessions, set of faults |
| `CapturePipelineProofs!Accounting` | `FramesAccounted` | " |
| `CapturePipelineProofs!NeverBlocks` | `PutNeverBlocks` | " |
| `CapturePipelineProofs!FailuresReported` | `FailureIsReported` | " |
| `CaptureLedgerProofs!NothingDecodedIsLost` | `ObservationsConserved` | " |
| `CaptureLedgerProofs!ClosedDrained` | `ClosedMeansDrained` | " |
| `CaptureLedgerProofs!ArrivalOrder` | `RecordedInOrder` | " |
| `CaptureLedgerProofs!ImplementsLedger` | `LedgerSpec` (refinement of `CaptureLedger`) | " |
| `CaptureControlProofs!ControlTypes` | `TypeOK` | set of threads, files, batch size, bounds on sessions, readers and launches |
| `CaptureControlProofs!OneCapture` | `CapturesApart` | " |
| `CaptureControlProofs!StopsLast` | `StopNotForgotten` | " |
| `CaptureControlProofs!ImportsTheirOwnFile` | `ImportIsPrefix` | " |
| `CaptureControlProofs!VendorsOfTheTable` | `VendorsCurrent` | " |
| `CaptureControlProofs!OwnPageOnly` | `OnlyOwnPage` | " |
| `StoreCacheProofs!StoreTypes` | `TypeOK` | set of threads, number of jobs |
| `StoreCacheProofs!CleanEntries` | `CleanEntryCurrent` | " |
| `StoreCacheProofs!AcceptIsAtomic` | `AcceptOnCurrentData` | " |
| `AssetStoreProofs!InventoryTypes` | `TypeOK` | sets of MACs, documented keys and sessions, number of frames and ids |
| `AssetStoreProofs!OneAssetPerIdentity` | `OneIdentity` | " |
| `AssetStoreProofs!ReimportFinds` | `ReimportFindsMac` | " |
| `AssetStoreProofs!EvidenceIsBacked` | `EvidenceBacked` | " |
| `AssetStoreProofs!PacketsAreSightings` | `EvidenceBalanced` | " |
| `AssetStoreProofs!SeenTwiceAFrame` | `SightingsWithinSession` | " |
| `AssetStoreProofs!LossNeedsDeletion` | `EvidenceLostOnlyByDeletion` | " |
| `AssetStoreProofs!ImplementsIdentityMap` | `IdentitySpec` (refinement of `IdentityMap`) | " |
| `AssessmentProofs!AssessmentTypes` | `TypeOK` | finite set of assets, flows, evidence, importers, titles, references, rows |
| `AssessmentProofs!DraftsAreImportedOnce` | `NoDraftTwice` | " |
| `AssessmentProofs!ReferencesAreDistinct` | `GeneratedRefsDistinct` | " |
| `AssessmentProofs!ImportsAreComplete` | `ImportComplete` | " |
| `AssessmentProofs!EnteredLevelsStay` | `AssessorLevelsKept` | " |
| `AssessmentProofs!LevelsAddUp` | `LevelAccounting` | " |
| `AssessmentProofs!UnexpectedIsCitedOnce` | `UnexpectedIsDrafted` | " |
| `AssessmentProofs!DiagramIsTheTable` | `DiagramMatchesTable` | " |
| `DecodingProofs!TableIsBounded` | `PendingBounded` | finite set of parsers, conversations, limit of the table |
| `DecodingProofs!RaisesAreShared` | `RaisesOnlyWhenShared` | " |
| `DecodingProofs!RepliesArePaired` | `PairedWithItsRequest` | " |
| `DecodersProofs!CutFramesSayNoMore` | `CutSaysNoMore` | frame: layers, items and their sizes, field that does not decode, place of the cut |

*Assumptions.* Those named in the modules: a queue, a batch and a table of at
least one, natural bounds, MACs distinct from `manual:` keys and from multicast
addresses, finitely many assets, parsers and sessions, a row of an older register
without a draft key, evidence that is closed under documenting and under the types
the assessor sets, names that tell any two endpoints from any other two, files that are sequences of frames, a frame whose items are
those of its protocol. TLC evaluates them in every run.

*Capture.* `FramesAccounted` is not inductive: taking the sentinel must not lose a
frame, and starting a capture must find nothing running. The invariant `Control`
adds what each thread may rely on: a reader that is not capturing has no live
parser; nothing follows the sentinel, which is there only while the reader joins;
a parser that took it left an empty queue; only a parser that failed leaves frames
behind; a frame in the reader's hand has room in the queue, because only the
reader adds to it. `FailureIsReported` is proved with the same type invariant.

*Ledger.* `LedgerInv` says whose the last session is: it is not ended while a
reader opens its socket or gives up, or a parser is alive, and no session behind
it has a row; a parser outside its loop has no batch. The numbers of the frames
ascend along their way - the log, then the batch, then the queue, then the
reader's hand - and what has been observed is at least the log and the batch, and
at most what has been parsed (`ArrivalOrder` and, with nothing left in any of
these places and no failed transaction, `ClosedDrained`). A batch never has more
than `BatchSize` observations, and a parser whose transaction failed takes no
further frame: so what the database misses then is one batch at most, and without
a failure nothing (`NothingDecodedIsLost`). The refinement maps a
session to its log and whether it is open; a step that writes a batch appends to
the open session of its parser, which is what ownership is for.

*Control.* `ControlInv` says what a request may rely on that is past its tests:
unless two starts have overlapped, a thread past its test of `running` is the only
one that starts, and every reader is gone; the newest live session has frames of
the last reader only; what is looked up and not yet written is held by one that
records; an import has an open session to itself; an update that nothing ran into
is alone. An import's session is a prefix of its file's observations because there
is one ascending list of them, and only one (`AscendingExists`, `AscendingIsOne`),
and the list of the frames read so far, continued by those of the next batch, is
the list of both. `OnlyOwnPage` needs no more than that the launches of page and
cookie are not later than the program's.

*Cache.* The key is who can spoil a view: an entry of the current generation
excludes a writer between its first bump and its commit, a fill that started clean
and was not spoilt has seen every commit, and the lock is held by the one thread
that is accepting. From these, a clean entry equals the database until a writer
that bumps late has committed.

*Inventory.* The lemmas say that finding or inserting an identity in a table
without duplicates gives such a table and keeps its rows. Merge is the interesting
step: the secondary's MAC leaves the rows at the moment it enters the aliases, and
an identity that was found in the secondary is found in the primary. The sums are
over functions on a finite set: the fold is a recursive function on the subsets,
and what it yields is shown by taking a least subset on which a claim fails,
because the library's induction theorems cannot be instantiated. From that:
changing one entry changes the total by the difference, moving from one entry to
another leaves it, emptying an entry takes it away. A frame counts once for its
source and once for its destination, a merge moves the secondary's sightings and
packets to the primary, and a deletion empties both tables at once. `IInv` is also
what the refinement needs: because no identity is in two groups, a step that adds
a row adds a group of something unknown, a merge replaces exactly two groups by
their union (less a `manual:` key), and a deletion removes exactly one.

*Register.* `NoDraftTwice` needs to know what an importer knows: while it adds,
the keys in its list are exactly those in the register (`Known`), because it holds
the lock and everybody else waits for it. Matching is the interesting step. A
draft hits at most one row, by its key or, if no row has that, by its title
(`MatchedRowIsOne`); a row is hit by at most one draft, because a row that is hit
by key has no empty key and two drafts do not share a title; so a row that takes a
key is the only one that has it. `ImportComplete` then follows from the end of the
list. References: ids and numbers are bounded, so a largest exists, and the next
number is above all of its prefix.

*Levels.* `AssessorLevelsKept` follows from `EnteredInv`: what was entered is the
row's level and is not marked `Suggested`, which is what acceptance with
overwriting tests. It holds after a merge because an asset without a level has no
source either: what is copied to it stays without one. `LevelAccounting` is a partition into
four sets; that infrastructure has no suggestion is
`InfrastructureHasNoSuggestion`.

*Drafts and diagram.* What kind of crossing a relationship is depends on its ends,
not on their order (`CrossingIsSymmetric`), although the code looks at the pair it
has sorted. Three drafts divide the relationships marked Unexpected by that kind:
those to external addresses, those that bypass the DMZ, and the others; each set,
if not empty, makes its draft due, and no other draft cites relationships. The
table and the diagram both put before a crossing those crossings that have more
packets, and otherwise only such as tie with it (`PlaceAmongTies`).

*Pairing.* The bound counts the parsers that are about to store: the entries and
they together are at most the limit plus the number of parsers less one, because a
parser that tests the size sees none of the entries that others are about to
store. A parser that is alone finds the size it noted and the key it was given. In
a conversation that one parser reads, what the table has under its key is what is
outstanding, or nothing, unless a request was missed or not followed; the key
holds the context, so no other conversation writes there.

*Decoders.* The parts of a payload begin one behind the other: `Offsets` is a
recursive function, its values exist by the same least-counterexample argument,
and never decrease. So of a frame that is cut, an item that is used is complete,
or its format is lenient and no later item has a byte, or it is a TSAP cut after
two bytes and no later one is used; parts that are read in turn
are there if their end is; a DNS reply has all its records and stops at none when
it is whole. Around the payload, addresses and transport are there in the whole
frame if they are in the cut one, and everything that is not of an item is exact
or less so. The invariant of the run only says that what is recorded was decoded
from the first bytes of a frame of the network.

*Model-checked only.* Liveness: `StopStopsReader`, `StopClosesSession` and
`BatchReachesDatabase` hold under fairness, and the prover has no rule for
`ENABLED`. Every other property of the passing runs is a theorem.

## Not modelled

The rate limiter only sleeps: its window is a matter of the clock and no other
component can tell. HTTP text, BACnet and the tables that turn numbers into
names are formats without a hazard of their own. The wording of drafts, the
report and its HTML, the drawing of the diagram, CSV and JSON exports are
formatting; `csv_export` replaces fields of cached records in place
(`store.py:1228`), which a model of views as values cannot show, and exports
composed of several views are taken at one moment here. Editions, modules and the data
directory are decided once at startup. The demonstration data is fixed, and the
page is represented by what its script sends. Free text, names, times and
fingerprints move with the same statements as what is modelled. SQLite is
trusted: a transaction is atomic, durable and serialised by `Store.lock`.

## Plan

Every module that was planned is there, and every safety and action property of
the passing runs is proved. What is left is to say more: for liveness, the steps
that can be proved without `ENABLED` (after a stop, what is still to be read,
parsed and written never grows, and each step of reader and parser takes from
it), and an abstract specification of the register, which `Assessment` would
implement like `AssetStore` implements `IdentityMap`.
