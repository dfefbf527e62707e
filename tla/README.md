# EventfoldDB: a TLA+ model and its proofs

EventfoldDB is a single-node event store: an append-only log file, an
in-memory index over it, one task that does all the writing, subscriptions
that replay history and then follow live events, a gRPC server around them and
a terminal console. This directory models all of these parts, checks the models
with TLC, shows that the storage engine implements an abstract durable log, and
proves its guarantees and those of the writer task, the subscriptions, the
server and the console with TLAPS.

## The system

| Part | State | Operations | Interacts with |
|---|---|---|---|
| storage engine, `store.rs` | log file, `EventLog { events, streams }` behind an `RwLock` | `open` (create, recover, truncate), `append` | file system; read index |
| on-disk format, `codec.rs` | none | encode/decode of file header, record, batch header and footer | storage engine |
| writer task, `writer.rs` | mpsc channel, drained requests | `WriterHandle::append`, `run_writer`, `spawn_writer` | storage engine, dedup index, broker, callers |
| dedup index, `dedup.rs` | LRU cache from event ID to recorded batch | `check`, `record`, `seed_from_log` | writer task |
| broker, `broker.rs` | tokio broadcast ring | `publish`, `subscribe_all`, `subscribe_stream` | writer task, read index, clients |
| read index, `reader.rs` | the shared `EventLog` | `read_all`, `read_stream`, `list_streams`, `stream_version` | service, subscriptions |
| gRPC service, `service.rs` | handles only | Append, ReadStream, ReadAll, SubscribeAll, SubscribeStream, ListStreams | all of the above |
| server binary, `main.rs` | configuration | start, serve, graceful shutdown | all of the above |
| auth, `auth.rs` | the shared secret | the interceptor | service |
| metrics, `metrics.rs` | recorder, counters and gauges | `install_recorder`, `serve_metrics` | writer task, service |
| console, `eventfold-console/` | `AppState`, the terminal, a subscription task | event loop, key bindings, fetches, views | the server, as a client |

What is hard in it:

* a crash or power loss between any two system calls of `open` or `append`,
  I/O errors after which the process goes on, and bytes that go bad;
* positions and versions are taken from the index before I/O that may fail;
* concurrent callers, callers that give up while their request is queued, and
  retries, in the same process or after a restart;
* an LRU cache that decides about idempotence and has to forget;
* the index changes before the broker has the events, and a subscription
  registers, reads and follows while both go on;
* a bounded ring that overruns slow subscribers;
* bytes of the log that are cut off, changed, or look like something else;
* range arithmetic of reads at the ends of `u64`;
* a start that can fail at every step, and a shutdown with requests under way;
* a console whose lists change under its cursor, and whose loop waits for the
  server.

`PROJECT.json` lists these hazards at their lines, with the properties that
cover them, and maps every definition to the lines it models.

## Modules

| Module | What it is |
|---|---|
| `Store` | `store.rs`, cut at every system call |
| `StoreInvariant` | the inductive invariant `IndInv` |
| `DurableLog` | the abstract specification: what the engine promises |
| `StoreRefinement` | `Store` as an implementation of `DurableLog` |
| `MCStore` | instances for TLC; the documents' claims about the store |
| `StoreProofs` | proofs: every step preserves `IndInv`; the safety theorems; the refinement |
| `Codec`, `MCCodec` | `codec.rs` byte by byte, and the recovery loop over it |
| `Writer`, `MCWriter` | `writer.rs`, `dedup.rs`, and the start and end of the process around them |
| `WriterInvariant` | the inductive invariant `WriterInv` |
| `WriterProofs` | proofs: every step preserves `WriterInv`; the theorems |
| `Subscription`, `MCSubscription` | `broker.rs` over `reader.rs`, and clients that resume |
| `SubscriptionInvariant` | the inductive invariant `SubInv` |
| `SubscriptionProofs` | proofs: one stream at a time, the index, all steps; the theorems |
| `Service` | what the handlers of `service.rs` compute, with `reader.rs` and `auth.rs` |
| `Server`, `MCServer` | `main.rs`, the handlers and the metrics: the parts put together |
| `ServerInvariant` | the inductive invariants `ServerInv` and `ReadsInv` |
| `ServerLemmas` | proofs: the facts about calls and sequences that the next three share, and what the reads of the index return |
| `ServerCalls` | proofs: calls, handlers and subscriptions preserve `ServerInv` |
| `ServerTasks` | proofs: so do the start, the writer task, its death and the shutdown |
| `ServerProofs` | proofs: the invariant as a whole, the reads; the theorems |
| `Console`, `MCConsole` | the crate `eventfold-console` |
| `ConsoleInvariant` | the inductive invariant `ConsoleInv` |
| `ConsoleProofs` | proofs: every step preserves `ConsoleInv`; the theorems |

A definition whose comment begins with "Variant:" is the definition after it
with a plausible mistake; the specification does not use it. Replacing the
definition by its variant must break the property `PROJECT.json` names for it.

### Store

The file is its header and a sequence of *segments*, one for each batch
envelope that some append began to write. A segment has its events and an
*extent*, how many of its bytes are there, as far as `decode_batch_header`,
`decode_record` and `decode_batch_footer` can tell: no full magic, no full
header, no full body, whole. `file` is what the page cache has and `disk` what
the last fsync left. `pc` is the system call that comes next, so a crash can
come before each of them.

* `append`: `AppendRejected`, `AppendStart`, `Write` (in pieces), `Sync`,
  `UpdateIndex`; `WriteFails` and `SyncFails` return an error and leave in the
  file what is there, as the code does.
* `open`: `OpenCreate`, `Create` (header, file fsync, directory fsync);
  `OpenRefusesHeader`; `OpenExisting` and one turn of the recovery loop at a
  time (`ScanCommit`, `ScanRefuse`, `ScanCut`, `ScanEnd`), then `Truncate` and
  `TruncateSync`.
* environment: `ProcessCrash` keeps the page cache; `PowerLoss` leaves what the
  last fsync left, or that with any prefix of what was written since, and may
  take a file whose directory entry was not fsynced; `Rot` changes the magic or
  other bytes of a stored batch while the store is closed.

`mishaps` is a history variable. It records the events under which the code
gives up a guarantee, and the properties name exactly the ones they exclude.

Abstractions: a proposed event is its ID and how validation takes it. A failed
fsync leaves the bytes in the page cache, and a later fsync writes them. Bytes
of a payload that look like a batch header are `Codec`'s subject. An I/O error
inside `open` ends the process. `positions.len() - 1` of a known but empty
stream, which wraps around or panics in the code, is -1: no request matches it.

### DurableLog and the refinement

`DurableLog` has one growing sequence of events, `visible`, and at most one
batch in `doubt`. `Begin`, `Commit` and `Abort` are an append; `Crash` leaves
its batch in doubt or drops it; `Recover` settles it as a whole; `Lose` is a
power loss in between. It has no file, no fsync and no scan. In
`StoreRefinement`, `visible` is the index, or what readers saw last while no
process serves; `doubt` is the batch under way or the one good segment of the
file that nobody has seen; a mishap excuses everything from then on.
`ImplementsLog` is the abstract specification of these expressions.

### Codec

Every field has its bytes, with the number base and the widths scaled down (a
magic of two bytes in base 5, for example) and all of the layout kept:
little-endian numbers cut to their width, length prefixes, checksums over
record bodies and over batches, magics at both ends of a batch. A checksum is
one cell that holds what it was computed from, so that no two inputs collide
and no byte equals one. `recover` is the loop of `Store::open` with
`has_valid_batch_after`. The state machine around it appends, crashes after any
byte, fails after any byte with the process going on (after the last one it is
`sync_all` that failed), damages any byte and opens again. `written` remembers
which batches are whole in the file and whether the index knows them. A payload
in `MCCodec` has the bytes of a batch header's magic.

### Writer

Callers `Submit`, `Send` when the channel has a slot, and wait; `GiveUp` is a
dropped handler future. The task's location is `pc`: `recv`, `drain`, `serve`
(one request: `Reject`, `DedupHit`, `AppendRejected`, `AppendFails`,
`AppendSucceeds`), then `record` and `publish` event by event, and `respond`.
`Start` and `Seed` are `spawn_writer` and `seed_from_log`; `Shutdown` and
`Exit` are `main`'s; `StampPanics` is the `expect` on the system clock, after
which the server goes on without a writer; `Crash` may come anywhere. The LRU
cache is a function and the keys in the order of their last use.

`events` is the index and `file` what `open` would read if the process died
now. `append` adds a batch to both. An I/O error adds none to the index and
leaves in the file nothing, a piece of the batch (`torn`: a later `open` stops
there, and the process that goes on writes behind it), or all of it. `mishap`
records that bytes were left. `during`, `by`, `base`, `published` and `mishap`
are history.

### Subscription

`AppendBatch` makes a batch visible in the index, `Publish` sends one of its
events to the channel; the next batch waits for the last event of this one, as
the writer task does. The ring is a position for the sender (`tail`) and one
for each receiver (`rx`): a receiver more than `RingCapacity` behind has
lagged. A send without receivers drops the event, which no later receiver can
tell. `Subscribe` registers first; `FetchAll` or `FetchStream`, `Yield`,
`EndBatch`, `Receive` and `Lag` are the steps of the `stream!` block, one
message taken by the client at a time. `Disconnect` and `Restart` may come
anywhere, and `Resume` is a client that goes on from its checkpoint.

`subscribe_all` and `subscribe_stream` differ in their filter and in what
identifies an event (global position or stream version): `Key`. There is no
step for `RecvError::Closed`: a subscription holds a clone of the broker and
with it a sender, so the channel does not close while it lives. Receivers do
not influence each other, so one client is enough.

### Service and Server

`Service` has no state: the conversions of requests and responses, the table
of status codes, the reads of `ReadIndex` with `u64` arithmetic of a width that
is scaled down, and the interceptor. A UUID is a number and its texts are
several spellings of it, or garbage.

`Server` goes through `main` in the order of the code (`phase`): environment
variables, `Store::open`, broker, writer task, recorder, metrics endpoint, TLS
files, listener, the two health updates; each step that can fail ends the
process with its exit code. Then calls arrive, pass the interceptor (except
health checks, which ask for the server or for a service by its name) and are
handled: appends go through the channel to the writer
task, which indexes, counts and answers in three steps; reads and listings
answer at once; a subscription is created, polled first (the gauge goes up),
and ends by lag or by its client. The shutdown future sets two health entries,
the server's and then the service's, while calls still arrive, tonic drains, `main` aborts the metrics task,
drops its handle and joins the writer. What a subscription sends and how the
store works is left to their own modules. Every call uses fresh event IDs
(retries are `Writer`'s), and the channel is large enough for the calls there
are (a full one is `Writer`'s too).

### Console

`main`'s start (`validate_tls_flags` to `init_terminal`), then turns of
`run_event_loop`: `render`, the fetches in their order, `Drain` of the
subscription's channel message by message, at most one key. `handle_key_event`
and `AppState::update` are one operator for each action. Views are modelled by
which rows they give to the table, which one is highlighted and what the panel
below shows. `Heights` are the rows a terminal may leave: `Drawn` is the table
of the first three tabs, which has no scroll state and is clipped below its
first rows, and `Window` the slice arithmetic of the live tail. `screen` is
what the last frame drew. The subscription task sends over a bounded channel;
`StreamFails` is the panic of `blocking_send`, whose hook restores the terminal
under the running loop. Fetches and the terminal may fail at any turn, also
while the terminal is set up or restored, and the server's log grows at any
time. `outcome` is which error `main` returned.

## Runs

| Run | Instance | States | Checks |
|---|---|---|---|
| `store` | 2 streams, batches of 1 and 2 events and two invalid ones, 2 appends, 2 crashes, all faults | 830 k | `IndInv` and `DoubtInv`, which the proofs use; `GlobalDense`, `AckedSurvive`, `BatchAtomic`, `CrashNeverCorrupts`; `CallsEnd`, every `open` and `append` ends; `ImplementsLog` |
| `writer` | 4 requests, 3 calls, channel of 1, a cache that may or may not forget, 2 starts | 1510 k | `NoEventTwice`, `OneWinner`, `SameAnswer`, `ErrorsLeaveNothing`, `PublishedInOrder`, `AnsweredArePublished` |
| `writer_small_cache` | overlapping and failing requests, 2 calls, channel and cache of 1, 2 starts | 29 k | `AnswersAreLogged`, `CallsEnd`, `ShutdownEnds` |
| `subscription` | 2 streams, 4 events, replay batches of 2, ring of 2, 3 subscriptions, 1 restart | 596 k | `SubInv`, which the proofs use; `Gapless`, `BeginsAtFrom`, `CaughtUpIsTrue`, `NothingLost`, `EventuallySent` |
| `codec` | base 5, three proposals, 2 appends, a crash at any byte, one bad byte or failed append | 102 k | `IndexIsFile`, `NothingInvented`, `CrashRecovers`, `ReservationBounded` |
| `server` | 10 environments, 18 requests, 2 clients, 2 calls, `u64` up to 9 | 287 k | `AppendAnswers`, `ReadsExact`, `MetricsExact`, `GuardedAsConfigured`, `HealthOnlyFalls`, `ExitZeroIsClean`, `ShutdownEnds` |
| `console` | 3 events in 2 streams, pages and live tail of 2, channel of 1, 4 keys, heights 0 to 3 | 505 k | `ViewsSound`, `LiveTailFaithful`, `TerminalRestored`, `SelectsShown`, `LoadsEnd`, `EventsArrive` |

Why the bounds are enough to be of interest: two appends and two crashes let a
failed append be followed by a good one and the damage be met twice by
recovery; two events in a batch make a batch that can be torn in the middle; a
cache of one entry evicts within a batch of two, and while it is seeded; three
calls are an original, its retry and a competitor, and two are enough to fill a
channel of one slot and to share a drained batch; four events with batches and
a ring of two make replay take a full batch and another, and overrun a
receiver. Two appends in `Codec` put a batch behind every kind of damage to
another. Two calls in `Server` are a writer and a reader, or a subscription and
a shutdown; a range that ends beyond 9 overflows. Four keys in `Console` switch
tab, move, pause and select; a live tail of two overflows with three events.
Subscription and writer runs do not check deadlock: a server that has exited,
and clients that have used up their calls, may stop for good.

Some properties carry a condition because the code promises no more:

* `NoEventTwice`, `SameAnswer`, `OneWinner` and `AnswersAreLogged` exclude a
  log in which a failed append has left bytes: what `store_unsynced` and
  `store_torn_write` show of the store then shows in the answers too. The first
  two also need a cache that knows every event ID (`NothingForgotten`), and
  `SameAnswer` requests that do not borrow each other's IDs (`IdsNotShared`),
  which `prd/010-idempotent-appends.md` leaves open.
* `ErrorsLeaveNothing` holds for ever of a request that was turned down. After
  an I/O error it holds of the index of that process; the next one may find the
  batch in the file.
* `CrashNeverCorrupts` is about `CorruptRecord`, in a log without bad bytes.
  After a crash during its creation, `open` refuses the log with
  `InvalidHeader`.
* `ReservationBounded` allows for one reservation by a count that nobody wrote,
  at the place where `open` then cuts the log: where a byte of the count is bad,
  or behind a failed append. The code reserves before it has decoded a record.
* `BeginsAtFrom` needs a starting position up to which events have gone through
  the channel. A client that has been sent an event by replay before its
  publication, disconnects and resumes behind it is sent it again.
* `AckedSurvive`, `ReadsSurvive` and `ImplementsLog` exclude the mishaps they
  name. One of them is `"unflushed"`: the process dies between write and fsync,
  `open` serves the batch without an fsync, and a power loss takes it back.
  Another is `"unlinked"`: a process that dies between the creation of the log
  and the fsync of its directory leaves that fsync undone, and the next `open`
  does not repeat it.
* `ReadsExact` rests on `append_valid`: `Store::append` itself, given no
  events, makes a stream known that has none, of which `list_streams` would
  compute a wrapped version.
* `Server`'s `ShutdownEnds` allows for a subscription that its client leaves
  open: nothing ends it, and the process waits.
* `TerminalRestored` excludes two exits: with an error of `init_terminal`, which
  leaves on what it had turned on, and with one of `restore_terminal`, which
  stops at its first failing step.
* `SelectsShown` is unconditional for a stream that is seen highlighted. Where
  none is, because the frame said "Loading..." or had no room for the row, Enter
  still opens the stream at the cursor, unless the list loaded in between has a
  new stream before it: the cursor is an index.

### Where documents and code disagree

Each of these runs checks one claim, and TLC finds a behaviour of the code
that violates it.

| Run | Claim | What happens |
|---|---|---|
| `store_unsynced` | index `i` is global position `i` (`store.rs:84`) | fsync fails after a complete write; the next append takes the same positions; both batches are recovered |
| `store_torn_write` | acknowledged means durable (`lib.rs:5`) | a write fails half way; a later batch is acknowledged behind the torn one, and recovery cuts both off |
| `store_rot` | damage in the middle is refused (`store.rs:121`) | only a bad magic leads to a look behind it; other damage cuts valid batches off |
| `writer_retry` | a retry after a restart gets the original positions (`prd/010`, line 126) | a batch of two is answered with its first event only |
| `console_stream_error` | a failing stream is reported (`client.rs:252`) | `blocking_send` panics on a runtime thread, nothing is reported, and the terminal is restored under the running console |

## Fairness

* `Store`: weak fairness of the process's own steps. Between two system calls
  there is straight-line code; nothing is assumed of clients or operators, and
  a crash may come instead.
* `Writer`: weak fairness of the task and of each waiting `send`. The runtime
  polls tasks that can make progress, and an mpsc channel grants slots in the
  order they were asked for. No caller has to call or give up, the clock does
  not have to panic, nobody has to restart the server.
* `Subscription`: weak fairness of publishing, which waits for nobody, and of
  each stream, which stands for a client that keeps taking messages. Clients
  do not have to reconnect.
* `Server`: weak fairness of `main`, of the writer task and of each handler. No
  client has to hang up or to take messages, and nobody has to send a signal.
* `Console`: weak fairness of the loop, of the fetches and of the subscription
  task, the last two because the server answers and sends what it has. No key
  has to be pressed and nothing has to fail.

## Proofs

`StoreProofs` proves, for every set of streams, events and proposals, every
bound and every set of faults, that `Store` satisfies `IndInv`
(`StoreInvariance`) and from it `TypeOK`, `GlobalDense`, `StreamsDense`,
`ReadsSurvive`, `AckedSurvive`, `CrashNeverCorrupts`, `CreatedLogStays` and
`CommittedKept`. The assumptions are the four `ASSUME`s of `Store`: proposals
are sequences of proposed events, there is a stream, the bounds are naturals,
faults are the three the environment can cause.

None of these properties is inductive: that positions are dense *after* a
recovery depends on what was in the file when the process died. `IndInv` says

* the header and the directory entry come before anything else (`HeaderInv`);
* each segment that decodes, with all before it, starts where they end, in
  global position and in the version of its stream (`FollowInv`, `Follows`);
* the index is what the segments spell, all of them in a running store and the
  first `offset` in a recovering one (`RunInv`, `ScanInv`, `Spells`,
  `StreamEnd`), and the append under way continues it (`BatchInv`);
* what is committed on the device is the same in the page cache (`DiskInv`), and
  without torn writes or bad bytes only the last segment can be damaged
  (`TailInv`);
* what readers see or saw, and what was acknowledged, is in committed segments
  on the device (`SeenInv`, `AckedInv`).

Even the types need it: `Truncate` cuts the file to `offset`, which is a prefix
only because of `ScanInv`. `StoreProofs` begins with the types, one lemma for
each action that does more than set a flag, and with what extending a file by a
segment, or cutting it, does to `Follows`, `Spells` and `StreamEnd`. Its frame
lemmas (`FileFrame`, `AckedFrame`, `IndexFrame` and others) say which parts of
`IndInv` a step keeps by leaving variables alone. Then there is one lemma per
action that it preserves `IndInv`, and `InvStep` puts them together. The case that takes most work is `PowerLoss`: the new file is a prefix of the
old one, cut at any byte, or the old `disk`, and in each case keeps the
committed prefix of `disk` (`PowerLossKeeps`).

`StoreProofs` also proves `ImplementsLog`, from `IndInv` and one more inductive
invariant, `DoubtInv`: without mishaps the segments of the file are in order of
position, and when no process serves, at most one good segment has events that
nobody has seen. Without it the abstract `Recover` would not know what it
settles. The initial states map to initial states; each action has a lemma that
says which abstract step it is: `AppendStart` begins a batch, `UpdateIndex`
commits, a failed write or fsync aborts or is excused, the recovery scan's last
step recovers, `PowerLoss` is a crash or loses the batch in doubt, and the rest
stutter.

`SubscriptionProofs` proves, for every set of clients and streams, every batch
size, channel capacity and bound, that `Subscription` satisfies `SubInv`
(`SubscriptionsStand`) and from it `Gapless`, `BeginsAtFrom`, `CaughtUpIsTrue`
and `NothingLost`. The assumptions are the three `ASSUME`s of `Subscription`:
the filter for all streams is not a stream, batch size and capacity are
positive, bounds are naturals. What a stream has sent says nothing of what it
will send, which depends on the index it reads and on the channel's place.
`SubInv` says

* for each filter, the positions in the index are those of the events it lets
  through, all of them and in order, and an event's key is its place there
  (`IndexInv`);
* what was sent is a piece of that list (`SentInv`); during replay the cursor
  and `last` are where it ends (`ReplayInv`); a batch that was read follows it,
  and one that was not full had all there was, so that what lies behind it is
  still ahead of the receiver (`BatchInv`);
* in the live phase, the events not sent are ahead of the receiver, and those
  sent live are behind it (`LiveInv`): between them is the overlap, where
  `last` decides;
* an event before `from` that had gone through the channel is behind the
  receiver (`HeardInv`), and the client's checkpoint is where its stream stands
  (`CheckpointInv`).

It is first proved of one stream that a growing index and channel do
not disturb it (`StreamStays`), what `read_all` and `read_stream` return
(`ReadAll`, `ReadStream`), and a lemma for each step it makes; the case that
takes most work is `SendKeeps`, that an event which is neither of another
stream nor replayed is the next one. Then an append keeps the index one
(`AppendKeepsIndex`), and the steps are put together.

`WriterProofs` proves, for every set of requests, every capacity of the channel
and of the cache, and any number of calls and starts, that `Writer` satisfies
`WriterInv` (`WriterInvariance`) and from it `NoEventTwice`, `OneWinner`,
`AnswersAreLogged`, `SameAnswer`, `ErrorsLeaveNothing`, `PublishedInOrder` and
`AnsweredArePublished`. The assumptions are the four `ASSUME`s of `Writer`:
requests have events (`EventfoldService::append` turns others away), capacities
are positive, bounds are naturals, the event IDs are finitely many. None of the
properties is inductive: that a retry is not written twice depends on what the
cache holds, and that on what was evicted, seeded and recorded so far.
`WriterInv` says

* the requests in the channel and in the drained batch are of calls that were
  sent and not answered, each of them once (`ShapeInv`, `QueueInv`);
* until a failed append has left bytes in it, the file has what the index has
  (`FileInv`), so that a restart changes nothing; after that, no event, in index,
  file or cache, is at a position beyond its end (`PlaceInv`);
* without such bytes, an event is in the log at the position it says and was written by a call for
  its stream, and with it the first event of the request and the one with the
  version the request asked for (`LogInv`, `VersionsInv`): a second writer with
  the same expectation would need the same version of the same stream again;
* a call with events in the index or in the file was not turned down and will
  not be, since it is answered, given up, lost, or the one the task is about to
  answer (`OutcomeInv`, `Settled`);
* again without such bytes, an entry of the cache, an answer and what `append` returned are pieces of the
  log that hold the ID they are filed under (`CacheInv`, `AnswersInv`,
  `RecordedInv`);
* how far the broker and the cache have come in each phase of the task
  (`PublishInv`, `IndexedInv`): where nothing was forgotten, every ID of the
  log up to there is in the cache;
* what this process has answered is what the cache still holds, and the request
  that was just written is none of those (`RetryInv`).

`NothingEvicted` is the step from the size of the cache to its contents: while
the IDs of the log fit, `LruCache::put` of one of them evicts none. It needs
the cardinalities of finite sets, the rest does not. `CalmSafe` covers the steps
that change calls and queues only, `OkSafe` the two that answer Ok, `ErrorSafe`
the ones that answer with an error, and `HaltSafe` the ends of the task. TLC
finds `WriterInv` to hold on both instances of `MCWriter`.

`ServerProofs` proves, for all clients, requests, environments and recovered
logs and any number of calls, that `Server` satisfies `ServerInv`
(`ServerInvariance`) and from it `AppendAnswers`, `MetricsExact`,
`GuardedAsConfigured`, `HealthOnlyFalls` and `ExitZeroIsClean`. The assumptions
are the four `ASSUME`s of `Server` and the two of `Service`: clients are
finitely many, the bound on calls is a natural, a request is one of the
service's, an append has a list of events and a range is of two `u64`, and a
recovered log is one that `Store` recovers (dense positions and versions,
position lists that are those of its streams). The last is what
`PositionsDense` and `VersionsDense` show of `Store` unless an fsync has
failed. None of the properties is inductive: what a call is told depends on where its request was in the channel,
what the writer had done with it, and in which phase `main` was. `ServerInv`
says

* which configuration, recorder and calls there can be in each phase of `main`,
  and that the channel is empty unless the task runs (`PhaseInv`, `TaskInv`);
* the status of each name falls at its place in the shutdown (`Fallen`), and no
  check tells sooner (`HealthInv`);
* a call has an ID of its own, is handled only if the interceptor admits it, and
  is undecided exactly where it has no response (`CallInv`, `IdsInv`); what is in
  the channel is valid, once, and of a call that waits or has hung up
  (`QueueInv`);
* the log is dense and its streams are those of its events (`LogInv`); only a call
  answered with OK has events in it, or the one at hand (`WrittenInv`), whose
  events are its end (`TailInv`);
* the metrics lag behind the log by the request at hand and by nothing else
  (`MetricsInv`), and the gauge is the number of running streams (`GaugeInv`).

The steps that take most work are `WriterAppends`, where the answer that is still
to come must fit what is appended now, `WriterResponds`, and `WriterPanics`, which
answers the calls in the channel at once (`ServerTasks`).

`ReadsExact` is proved on top of that (`ReadsAsOfTheirTime`), as long as the log
has at most `MaxU64` events: `saturating_add` ends every range at `u64::MAX`, so
an event at that position would not be read. The invariant is `ReadsInv`: each
position list has the events of its stream, all of them and ascending, at the
place that is their version (`Ordered`), and what each read was told is true of
the events there were at its time (`Told`). A read of
`ReadIndex` holds the lock throughout and returns copies, so it is one step. The
proof shows that the slice it takes is the range that the request means
(`SliceIs`, `read_allIs`, `read_streamIs`), that a listing has each stream once,
with a count and a version that do not wrap around (`list_streamsIs`), and that
an append changes neither what was told nor the order of a list (`ReadKept`,
`OrderedGrows`). `sort_by` is by rank; that ranks differ and that none is left
out (`RankedIs`) follows from the theorems about injections and surjections of
finite sets, without induction. The facts about cardinalities and about
`sort_by` are named `Listing`, which `ListingHolds` proves. TLC finds `ServerInv` and `ReadsInv` to hold on the instance of
`MCServer`.

`ConsoleProofs` proves, for all logs, heights and command lines, every capacity
of page, live tail and channel, and any number of keys, that `Console` satisfies
`ConsoleInv` (`ConsoleInvariance`) and from it `ViewsSound`, `LiveTailFaithful`,
`TerminalRestored` and the action property `SelectsShown`. The assumptions are
the three `ASSUME`s of `Console`: capacities are positive, heights are naturals,
logs are sequences of stream numbers. That a view can be drawn depends on where
the cursor was left when a list was loaded again, and what Enter opens on what
may be loaded between the drawing and the key. `ConsoleInv` says

* each cursor is at an item of its list, or 0 (`AppOK`);
* what was loaded is no longer than what would be loaded now, and the events of
  the open stream are the beginning of it (`LoadedInv`): the server's log only
  grows, so a list that is loaded again does not get shorter under its cursor;
  the list of streams is in ascending order (`Listed`, `InOrder`);
* from the drawing to the key, a stream that is seen highlighted is the one
  under the cursor and its list is not loading, and the list that was drawn is
  contained in the one there is now (`ScreenInv`, `Highlighted`, `DrawnFrom`);
  the loop waits only for what is loading;
* before the loop nothing is sent and the terminal is untouched (`StartInv`), and `main` returns only at its
  end (`OutcomeInv`); `LiveTailFaithful` and `TerminalRestored` are inductive
  with the rest.

The order in which the server lists streams and positions is a function of the
set (`Ascending`, by rank), so that what a larger log does to it can be proved
without induction (`AscendingGrows`, `PositionsGrow`, `StreamsGrow`). That a
stream stays at its index unless a new one sorts before it (`AscendingKept`) is a
matter of ranks: they differ, and each is taken (`RanksDiffer`, `RankIsTaken`), by
counting the numbers below. `TakeEvent`
and `SendEvent` are the two ends of the channel, and `NewestPushed` is
`push_live_event` at and below its capacity. TLC finds `ConsoleInv` to hold on
the instance of `MCConsole`.

The facts about finite sets that these proofs use are named `Counting` in
`WriterProofs`, `ServerLemmas` and `ConsoleProofs`; `CountingHolds` proves them
from the library's theorems.

Only model-checked: `BatchAtomic` (it is not true of proposals that share event
IDs: a batch that begins like an earlier one, which a crash took, shows a part
of that one); everything about `Codec`; and liveness: `CallsEnd`, `ShutdownEnds`,
`EventuallySent`, `LoadsEnd` and `EventsArrive`. Liveness under fairness is out
of the prover's reach; `Codec` and its recovery loop are recursive over data,
which needs induction over data and is too.

## Not modelled

Contents that are passed on unchanged (payload, metadata and event type outside
`Codec`) and time stamps (`recorded_at` may go backwards with the clock, and
nothing depends on it). Collisions of checksums. The signature of a token and
the TLS handshake, which are libraries': `Service` says what they are configured
to require. The histogram and the file-size gauge among the metrics, and the
text format of the endpoint. `format_bytes` and `truncate` in the console, which
turn a payload into text to look at; styles, layout and wording. Logging
(`init_tracing`), error texts, re-exports and generated code. An I/O error
inside `open` other than a failed read of the header ends the process and is
modelled as its death.
