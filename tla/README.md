# Verification of the TRAPD sensor

TLA+ models of the sensor in this repository, model-checked with TLC and, where
that pays, proved with TLAPS. The reference is the source; documents and
comments are used only to state what the code is supposed to do.

Run a check with `tlc -config X.cfg M` and a proof with `tlapm M.tla` in this
directory. `PROJECT.json` lists the runs, the code lines behind every
definition, the hazards, and the mutant that each property was seen to catch.

## 1. The system

The sensor is one process of several tokio tasks:

    capture tasks --obs--> processor --event channel--> uploader --HTTP--> backend
       ^                      |                            |
       | packets              | registry                   | EventQueue: 3 x SegmentedLog
    interfaces, FRITZ!Box     v                            v disk
    config poll, heartbeat, sweeps  <--- shared SensorState ---> admin socket

| Component (crate) | State | Operations | What is hard | What makes it correct |
|---|---|---|---|---|
| Segmented log (`sensor-buffer/log.rs`) | segment files, cursor file, cursor and counters in memory, BufWriter | open, append, flush, read_batch, commit, drop_oldest_segment | crashes and I/O errors between file operations; counters kept by differences | no unconfirmed record skipped, counters equal to the files, at-least-once in order |
| Event queue (`queue.rs`) | three logs, effective disk limit | open, push with eviction, read_batch, commit, flush | three logs under one budget, partial commits, changed configuration | disk limit, priority order both ways, refuses only what cannot fit |
| Uploader (`uploader.rs`) | select loop, batch in flight, backoff | receive, tickers, flush_once, shutdown | request and backoff suspend the loop; partial or lost answers; reads and flushes that fail half-way; shutdown at any time | on disk before on the wire, every event accounted for, backlog drains, a stop leaves the logs synced if its flush succeeds |
| Errors, HTTP client, enrolment (`client.rs`, `error.rs`) | none | classify, upload, fetch_config, enroll | an answer that arrives, but not whole | every answer means one thing to do; a batch counts as sent only when it was taken |
| Remote configuration (`remote_config.rs`) | cached settings and version, `enabled` | poll, apply | stale, empty and lost answers | consent given on the machine is never widened |
| Runtime, supervisor, entry point (`runtime.rs`, `main.rs`, `admin.rs`) | JoinSets, two bounded channels, watches | spawn, supervise, stop in order, exit | task death and panic, order of the stop, full channels | a failed task is noticed, the stop ends by itself and hands over what was accepted |
| FRITZ!Box capture (`sensor-capture/fritzbox/`) | session, decoder buffer, shared health record | login, discover, stream, decode, close, retry | chunk boundaries, streams cut anywhere, two workers on one record | packets complete, record truthful, every outage recovered from |
| Local capture (`sensor-capture/`) | socket | read loop | read errors, stop | frames reach the observer |
| Passive observer and parsers (`sensor-passive/`) | flow table, suppression cache | handle_frame, expire, drain | capacity, exclusions, truncated headers | packets of flows conserved, claims paced, excluded clients unnamed |
| Registry and fingerprinting (`registry.rs`, `sensor-fingerprint/`) | devices with signals and dirty flags | observe, evaluate, prune | updates between evaluations, capacity | no stronger fingerprint is left untold |
| Active scanner (`sensor-active/`) | token bucket, sweep | sweep, acquire, probes | stop between two probes, shared bucket | only what was permitted, never too fast |
| Configuration, policy, deployment, visibility (`sensor-core/`) | none | validate, derive policy, report | modes, exclusions and lists that cut one another | exclusion beats target, more switches never show less |
| Command line tool (`sensor-cli/`) and stored files (`identity.rs`, `secrets.rs`) | configuration, identity, credentials and their drafts | setup, enroll, reset, diagnose | a person and a program on one file, a crash before each rename | no file cut off, lost or opened to others |

## 2. Modules

| Module | Models | Runs |
|---|---|---|
| `WalLog` | the value of one log and the functions its methods compute | through the two modules below |
| `SegmentedLog` | one log, its methods cut at every point where the process can die or an I/O call can fail | `segmented_log` |
| `DurableQueue` | the contract of a log: four numbers, no files | as a PROPERTY |
| `EventQueue` | three logs, disk limit, push/read/commit, restart with another configuration | `event_queue`, `shrunk_config` |
| `Uploader` | the uploader task over three DurableQueues, the event channel, the backend and the daemon's shutdown | `uploader`, `backoff_durability` |
| `Daemon` | all tasks around the two channels, the supervisor, the stop sequence, `main` and the admin server | `daemon`, `router_only`, `admin_last` |
| `PcapStream` | the incremental PCAP decoder | through `Capture` |
| `Wire` | the header and message parsers | through `Capture` |
| `Registry` | device registry and fingerprint engine | through `Capture` |
| `Observer` | from a frame to observations: handlers, suppression, flow table | through `Capture` |
| `Capture` | FRITZ!Box and local workers, each with decoder and observer, the shared health record, the processor with its registry | `capture`, `capture_excluded` |
| `Policy` | configuration, validation, networks, policy by mode, settings of the backend | through `Host` |
| `Visibility`, `Diagnose`, `Probe` | the visibility report, the diagnosis, the bytes of ICMP and SNMP | ASSUMEs of `MC_Host` |
| `Client` | what the backend's answers mean | through `Host`, ASSUMEs of `MC_Host` |
| `Setup` | the decisions of `setup`: detection, plan, preview, writing; the escape of the credentials | through `Host` |
| `Scanner` | sweeps probe by probe, the token bucket, the clock | through `Host` |
| `Host` | the machine: operator, setup, enrolment, the files and their drafts, power, the daemon that starts from them, polls and sweeps | `host`, `lost_edit` |
| `MC_*` | constants of the runs, and reference definitions for the pure functions, as ASSUMEs | |
| `WalLog_proofs`, `SegmentedLog_proofs`, `EventQueue_proofs`, `Uploader_proofs`, `Daemon_proofs`, `Host_proofs`, `Capture_proofs` | theorems | |
| `Observer_proofs` | lemmas about observer and registry for `Capture_proofs` | |

How they fit. `EventQueue` and `SegmentedLog` share `WalLog`, so what is checked
about a log in isolation is about the same definitions the queue is built from.
`Uploader` sees each log through the variables of `DurableQueue`; `EventQueue`
checks (`ImplementsDurableQueues`) that its logs keep that contract. `Daemon`
has every task of the process, each only as far as channels, shutdown and death
go; `Uploader` and `Capture` are two of its tasks from inside. `Capture`
extends `PcapStream`, `Observer`, `Wire` and `Registry`, which hold values and
functions; `Host` extends `Setup`, `Scanner` and `Client` over `Policy`.

### 2.1 State and code

*A log.* Records are numbered in the order of appending; a segment is the
number of its first record (`first[s]`), the existing segments are `lo..active`.
Byte sizes are kept as cumulative sums (`byteAt`), so counting records or bytes
over files is one difference; `LoopsTelescope` says that the file-by-file
loops of `count_pending` and `count_records_between` (`CountLoop`) give the same
numbers. The loop over one file looks at its limit behind a record, so it would
count one too many for a position at the beginning of a file; a batch never ends
there.
Offsets count records, not bytes: the code only ever compares offsets or moves
them from record boundary to record boundary. Two fields describe the disk:
`synced` (how many leading records an fsync covered) and `saved` (the cursor
file). Payloads, CRCs and file names are abstracted; that a torn or corrupt tail
is cut off on open appears as the free choice of the number of surviving
unsynced records.

*File system.* fsync of a file makes its content and its directory entry
durable; the rename in `write_cursor` followed by the directory fsync makes all
earlier changes of the directory durable; other creations and removals may be
undone by a power loss (`dirLo`, `dirHi`). A kill of the process keeps the page
cache and loses some suffix of the BufWriter.

*Steps.* `commit` and `drop_oldest_segment` change several files and are cut
after each of them (`step`); their error returns are actions of their own
(`CommitFails`, `CollectFails`, `DropFails`, `AppendFails`). `EventQueue` does
not cut inside a log, which `SegmentedLog` did, but between the evictions of one
push and between the logs of one commit.

*The uploader.* `control` is the point where the task is suspended: in `select`,
in the request (`send`) or in the backoff (`sleep`). The biased select is in the
guards: shutdown before channel before tickers. `Proceed` is whatever the task
does next; the backend's answer is one of `Accepted`, `Unconfirmed` (partial
2xx, network, 5xx, 429, routing error; any part may have arrived), `Revoked`
(401, 403, 410) or `Invalid` (other 4xx, encoding). A read may fail after any of
the three logs (`ReadFails`), and so may a flush (`Flushed`): the logs before are
synced, the others are not. Histories record where an event ended: `delivered`,
`discarded` and `evicted` are sets of records, `refused` (on arrival) and `lost`
(taken by a restart from the channel or the unsynced end of a log) are counts;
`unsynced` says that the flush at the end failed.

*The daemon.* A task is where its future is suspended (`task[t]`); an
observation is a unit that is counted where it is: in hand (`outbox`), in a
channel, with the processor, in an open flow window. `stage` is the step of the
stop sequence that is waited for. A channel closes when every holder of a sender
is gone (`ObsOpen`, `EventsOpen`); a full one suspends its sender. `failure`,
`result` and `process` are the branch of the supervisor's select, what
`Daemon::run` returns and what `main` does with it. Detached tasks after a
timeout of the stop are not followed.

*Capture.* `worker[w]` is the await at which a worker is; every update of the
shared record and of the interface counter is a step of its own, since other
workers run in between. A stream is its file header and the lengths of its
records; a decoder is how many bytes it holds and how many records it gave out,
so every way to cut the stream into chunks is covered by the sizes of a chunk. A
frame is a record of what its bytes say; byte arithmetic is kept where it
decides (lengths against headers, chains of extension headers, DNS names with
compression pointers). Observations keep the fields the registry reads.
Confidences are counted in 200ths, so half a weight is a number. Histories:
`told` and `cleared` (when a claim was last told, when the cache was emptied),
`passed` and `owed` (packets that must be somewhere).

*The host.* Three files, each with its draft: `file`/`temp` is the configuration,
`identity` and `secrets` hold `stored` and `draft`. A tool is where it is
(`setup.at`, `identity.at`), each write, sync, chmod and rename a step; a kill
is `EndSetup`, `EndEnroll`, `EndDaemon`, a power loss `PowerFails`. What was
synced before its rename survives it whole; an identity, which is not, may be cut
off. Three histories tell whose settings the file has: `hand` is what the
operator last wrote by hand and changes with an edit only; `origin` is the edit
the file goes back to; the two differ when setup replaced an edit that it had not
read (`overwritten`). The daemon remembers all three from its start, and its
probes are compared with them. `sound` says that the file loaded and was not
edited while setup ran. A configuration is a record of the settings anything depends on; the
bounds of numbers that only have to be inside a range are `exceeded`. An address
has `Width` bits. Answers of an operator are sets with one element or none.

*Time.* In `Scanner` a tick is 1/`TokenTicks` of the time of one token at one
probe per second; the bucket counts in units of which a probe costs
`TokenTicks`. `probes` remembers the last `Remembered` probes with their ages,
enough to compare any of them with any other.

## 3. What the runs show

`segmented_log` - one log, two record sizes, segments of two bytes, five
records, batches of up to three: several segments, half-read segments, reads
over a segment boundary, retention that overtakes a batch in flight, crashes
inside crashes' recovery. Counters equal the files (`CountersMatchFiles`), the
cursor never passes what is synced nor lags behind the oldest segment
(`CursorsSafe`), undone directory changes are harmless (`DirectorySafe`), a
batch in hand stays confirmable (`BatchSynced`), retention counts exactly what
becomes undeliverable (`DropCountsLoss`), collection deletes only confirmed
records (`CollectFreesOnlyConfirmed`), and the log implements `DurableQueue`.

`event_queue` - three logs of two records, one-byte segments with a limit of
three bytes that the code raises to six; events are one byte, critical ones one
or three, so that two large critical events fill the queue. `WithinLimit` is
about the files, not the counter, and starts with the first push stored: a
restart with a smaller limit does not evict by itself. `RefusesOnlyOversized` allows a refusal only when a
single record is comparable with a whole segment. `ImportantFirst` and
`ImportantLast` are the two orders; `LogsConsistent` and
`ImplementsDurableQueues` cover partial commits and restarts.

`uploader` - two producers' priorities, a channel of one, batches of two, three
events, an undecodable record, one restart, with fairness.
`PersistBeforeSend`, `NothingLostSilently`, `StopPersists`, `ImportantFirst`,
`QueuesOrdered` are invariants; `BacklogDrains` and `ClosingEnds` are liveness.
`NothingLostSilently` balances every event put into the channel (`Balanced`: in
the channel, in a log, refused and counted, or taken by a restart before it was
synced) and accounts for every record that left its log. `StopPersists` says that
a closed channel was emptied, and that the logs are synced unless the final flush
failed: the code drops that error (uploader.rs:222, 241), and then an orderly
stop leaves an unsynced end.

`daemon` - seven small scenarios instead of one large one: one or two producers
at a time, channels of one, and a panic of one or two of the critical tasks.
`EndHandsOver` follows every observation a channel accepted to the persistent
queue, whatever ended the daemon but a failure of processor, uploader or start.
An open flow window is left only by a capture that failed: a read error returns
before the drain (runtime.rs:451-455), so its windows are lost without a report,
and the model says so (`CaptureRead`). `StopsWithoutTimeout` says that the stop
sequence does not need its 15 seconds when the tasks' own waits end,
`FailureEndsProcess` that no critical task disappears unnoticed.

`capture` - casts of one or two workers: a decoder fed good and broken streams
in chunks of several sizes, two workers on one record with an outage, the end of
sensor or processor at any point, flows through silence and reconnects, claims at
the pace of the network, devices from DHCP, mDNS, SSDP and a scan, and one frame
for every branch of the parsers. `PacketsComplete`, `FlowsConserved`,
`UpMatchesActive`, `StatusTruthful`, `ExcludedHidden`, `FingerprintsTold`
are invariants, `ClaimsPaced` is an action property, `Recovers` is liveness.

`host` - addresses of three bits, networks of up to four hosts, five casts:
`Interactive` (an operator at the terminal, an edit and an outage in between),
`Quiet` (two unattended setups and two edits), `Sweeping` (five configurations
and answers of the backend that would widen, pause or fail), `Together` (an edit
that withdraws active discovery, setup, start and sweep on one file) and
`Enrolling` (two enrolments, reset, outage, start). `ProbesConsented` compares
the probes with the last edit, or, where setup overwrote it, with what setup had
read; `FilesSurvive` says the same of the settings setup does not ask about, and
that a file that loaded still loads unless it was edited while setup ran; that
the last edit alone counts is false (`lost_edit`). These and `ProbesPaced` are
proved for all sizes (section 4). `MC_Host` also holds ASSUMEs that compare pure
functions with references over all small inputs: containment and hosts of a
network, monotony of the visibility report, the choice of the route, the URLs
made from a host name, classification of all status codes, BER lengths and
integers, checksums, which SNMP and ICMP answers are accepted, which failures the
diagnosis finds. `MC_Capture` does so for DNS names (`NameResumes`).

Why these bounds: every operation, every error return and every crash point
fires in each of them; three segments are enough for a cursor before, in and
after the segment that is removed; one restart suffices for each invariant that
relates memory and disk because a restart forgets all memory. The logs are
proved for all sizes anyway (section 4). In `Daemon` a channel of one is both
full and empty within a step, which is all a longer one can be. In `Capture` the
tables hold two entries, so that the third finds them full, and the limits are
scaled down so that a stream of three packets crosses them. In `Host`
`Remembered` = 3 lets a bucket of two be exceeded. `MaxRecords`, `MaxRefused`,
`MaxEvents`, `MaxRestarts`, `Scenarios`, `Casts` with their budgets and
`Remembered` bound the models and stand for nothing in the code.

Fairness (`Uploader!Fairness`). Weak fairness of `Proceed`: the runtime polls a
ready task, a select arm becomes ready at the latest with the tickers, a request
ends by its timeout, a backoff by its maximum. Strong fairness of `Accepted`: a
backend that is asked again and again takes a whole batch again and again. Strong
fairness of `Read`: a disk that fails a read now and then does not fail every one
of them. No fairness of producers, shutdown, retention or restart. Neither the WAL ticker
nor the order between different tickers is assumed.

`Daemon!Fairness`. Weak fairness of every task's next step once it is ready:
`recv` of a capture returns within 500 ms, requests, sweeps and backoffs are
bounded, the processor and the uploader are polled. Nothing makes a frame, a
tick, a signal, a failure or the timeout happen.

`Capture!Fairness`. Weak fairness of each FRITZ!Box worker, which includes that a
stream ends (the read timeout of the client), and of the processor; the router
need not recover, and the local worker need not receive frames. `Host` has only
safety properties and no fairness.

### 3.1 Disagreements

- `shrunk_config`: queue.rs:104-110 raises the limit so that the queue never
  refuses new events for want of something to evict. The active segments of an
  earlier run with larger segments are not covered: after `segment_bytes` and
  `max_disk_bytes` were reduced they can fill the new limit, cannot be evicted,
  and every event is refused. Uploads do not end that by themselves: an active
  segment is rolled by `append` alone, which a refused event never reaches, so
  the file stays however much of it is confirmed.
- `backoff_durability`: CHANGELOG.md:78-81 says durability no longer depends on
  the upload cadence. The backoff is slept inside the select loop
  (uploader.rs:343-344, 414), so the WAL ticker stands still, and `read_batch`
  has flushed only the logs it read.

- `router_only`: runtime.rs:226-228 says that router interfaces supervise
  themselves and never take part in the supervisor's select. With no local
  interface opened, `join_next()` of the empty JoinSet is ready with `None`
  (runtime.rs:290), and the daemon stops right after its start.
- `admin_last`: docs/architecture.md:24-26 has the admin server stopped last. It
  listens to the same watch as the daemon and stops first; `main` then usually
  takes that for the failure of a task and exits with an error after an orderly
  stop.
- `lost_edit`: setup.rs:14-18 says that setup does not touch the settings of
  active discovery, which stay "a decision made by hand in the config file on the
  host", and can "never turn a sensor into something that sends packets it did
  not send before". `write_config` reads the file (setup.rs:776) and later renames
  its own over whatever is there by then (setup.rs:918). An edit in between is
  undone; if it withdrew `active.enabled`, the next daemon probes all the same.
- `capture_excluded`: config.rs:351 says that the traffic of excluded clients is
  not looked at. `handle_dhcp` looks at no address, and an IP header of DHCP
  carries none.

Disagreements that are visible in the models without a run of their own:

- A crash: README.md:332-333 promises that it costs at most the record being
  written. `append` only fills a BufWriter (log.rs:168), so it costs all records
  since the last flush, up to a second of events, or a backoff. `Kill` and
  `PowerLoss` in `SegmentedLog` take any part of the unsynced end.
- Pause: `enabled` is looked at before a sweep starts (runtime.rs:863), so a
  sweep that runs goes on, and capture is not paused at all;
  remote_config.rs:114-116 says that a switch-off takes effect at once. The
  `Sweep` action of `Host` has no such guard. An empty 2xx answer of the poll
  turns a paused sensor on again (remote_config.rs:112).
- Settings of the backend: the poll applies them to a copy nobody reads and
  records the version as applied (runtime.rs:811-818; `PollConfig`).
- Credentials: the escape of secrets.rs:83-94 turns each byte into a character,
  so a password with a character of more than one byte is stored wrongly
  (`CredentialsRoundTrip` in `MC_Host`; the test `roundtrip_and_redaction`,
  secrets.rs:126, has none).
- Setup on a file that does not load starts from the defaults and writes all keys
  of its plan, `capture.promiscuous` included, while main.rs:154-157 of the tool
  says that what setup does not ask about survives (`UnaskedOverwritten`). It
  validates the plan against the configuration it loaded when it started
  (setup.rs:329), but writes into the file as it is then: an edit in between
  can give a file that does not load. `sound` therefore ends with such an edit.
- Diagnosis: exit code 0 (docs/diagnostics.md:9) is never reached, because
  `backend.tls` is always a warning (diagnose.rs:612). Without an interface that
  can capture nothing is reported, although the daemon does not start
  (`NoInterfaceUnseen`), and the identity is not looked at.
- Host names: `http://LOCALHOST` from setup is refused by the validation, `[::1]`
  too, `::1` makes a URL that cannot be used (`UrlsAccepted`).
- Identity: renamed without an fsync (identity.rs:139-146), so a power loss may
  leave it cut off; `FilesSurvive` allows that and nothing else.
- Uploader and queue: undecodable records in a batch are in no count of losses
  (uploader.rs:290); the enforced limit may exceed `max_disk_bytes` (queue.rs:125,
  with a warning); the event sequence restarts at 0 with the process
  (runtime.rs:699); results of the joins in the stop sequence are dropped
  (runtime.rs:338).

## 4. What is proved

`SegmentedLog_proofs`, for every segment size, set of record sizes, batch size
and number of records (assumptions: record sizes and the segment size are
positive, the bounds are naturals):

- `Invariance`: `Spec => []IInv`; from it `TypeCorrect`, `CountersCorrect`,
  `CursorsCorrect`, `DirectoryCorrect`, `BatchCorrect`;
- `LoopsCorrect`: what the loops over the files count is what the counters are
  moved by. A running total is determined by what is added at every step
  (`TotalsUnique`), and the differences of positions are one (`BehindAdds`);
- `RetentionCounts` and `CollectSafe`, the two action properties;
- `Refinement`: `Spec => ImplementsDurableQueue`.

The argument. None of the invariants is inductive alone. That counters are
exact needs the segments to be ordered (`Segmented`), that differences do not
saturate needs the cursor inside the log (`InLog`) and behind the new position
(`BeforeIndex`: the order of positions is the order of records); recovery needs
that the cursor file is not behind the end of what survives, which comes from
`saved <= cursor <= synced`; that a power loss cannot remove the segment the
cursor file points into needs `DirectorySafe`; that a batch can be confirmed
after anything else happened needs `BatchSynced`. Their conjunction with the
types is `IInv`. `WalLog_proofs` shows function by function that `LogInv` is
kept; `SegmentedLog_proofs` has one lemma per action for `IInv` and one for the
refinement. `CommitFacts`, `DropOldestCursor` and `OpenCursor` are the facts
that carry both.

`Host_proofs`, for every configuration an operator may write (`Casts`), any
number of edits, runs of setup, enrolments, starts, outages and answers, every
width of an address, every rate and every resolution of the clock:

- `FilesSurviveAlways`, `ProbesConsentedAlways`, `ProbesPacedAlways`: the three
  properties of the run `host`.

The argument. `FilesSurvive` says that what loads keeps loading and has the
settings of the edit it goes back to (`origin`), which is the last one (`hand`)
unless setup overwrote that; inductive is that together with what setup holds
while it runs (`SetupInv`): unless the file was edited meanwhile, the document it
read is the configuration its plan was validated against, so that what it writes
is what it previewed, and `UpdateKeeps` shows that the writing touches nothing
else.
`StoreInv` carries the draft of the identity through its chmod. `ProbesConsented`
rests on that (`FileInv`): the policy comes from the file, the permission from
the edit it goes back to, and the two agree in everything a policy is made of.
`SweepInv` says
that a host whose turn it is may be probed with what is left to do;
`ProbeConsents` that the policy permits no more than its file. `ProbesPaced`
compares two probes; inductive is `Paced`, which also compares each probe with
what is left in the bucket: what was sent since, and what is left, were one full
bucket and what flowed in. `AppendProbe` and `TailProbes` carry it through a
probe and through forgetting one, `TickProbing` through time. `LateInv` says that
only a probe that already waits for its token can follow the announcement of the
shutdown.

`EventQueue_proofs`, for any segment sizes, limits, record sizes and any number
of pushes, batches, restarts and changes of the configuration:

- `TypeCorrect`, `LogsConsistentAlways`, `WithinLimitAlways`,
  `ImportantFirstAlways`, `ImportantLastAlways`, and `Refinement`, that each of
  the three logs keeps the contract of a `DurableQueue`;
- `RefusesOnlyOversizedAlways`, for runs that never change the size of a segment
  (`OneSegmentSize`). Without that hypothesis it is false: `shrunk_config` is the
  counterexample.

The argument. Each operation of the queue is an operation of one log or of each
of them, so `LogInv` and the lemmas of `WalLog_proofs` carry the logs, and
`Contract` says of each operation what it is to a `DurableQueue`. Inductive are
the logs together with `BatchSynced` (a batch in hand ends at synced records of
the logs it was read from), `OneAtATime` (a push and a batch are never under way
together), `ImportantFirst` and `CountedWithinLimit`, which is the limit on the
counters; that they are the sizes of the files is what `LogsConsistent` adds.
`RefusesOnlyOversized` needs that the limit is at least six segments, which is
what the code raises it for.

`Uploader_proofs`, for any batch size, channel, mix of priorities, answers of the
backend, restarts and shutdowns:

- `TypeCorrect`, `QueuesOrderedAlways`, `PersistedBeforeSent`,
  `NothingLostSilentlyAlways`, `StopPersistsAlways`, `ImportantFirstAlways`.

The argument. Inductive are the types, `QueuesOrdered` and
`NothingLostSilently` together with `BatchCut` (the batch in flight ends, in each
queue, where the order of priorities and the size of a batch cut it, and a queue
it takes something from is synced) and `Ending` (the task says the channel is
drained only when it is closed and empty, and it stops with all queues synced
unless its flush failed), `Balanced` and `Passed` (the records that left a log).
`BatchCut` makes a confirmation cover what was delivered and nothing else;
`PersistBeforeSend` and `ImportantFirst` are read off it, `StopPersists` off
`Ending`.

`Daemon_proofs`, for any set of producers, any capacity of the channels and any
deaths, failures and timeouts:

- `TypeCorrect` and `EndHandsOverAlways`.

The argument. A unit is lost only with the last task that holds or awaits it.
`WindowsReported` says that a capture that ended but did not fail has drained its
flow windows, `StartOrder` that tasks exist only from their start on, `ProcessorLast`
and `UploaderLast` that the processor ends by itself only when every sender of
observations is gone and its channel is empty, and the uploader likewise,
`EndOrder` that a stage of the stop is reached only when the tasks of the stages
before have ended or timed out. Their conjunction is inductive and gives that
whatever remains at the end was cut off by a death or a timeout.

`Capture_proofs`, for any interfaces, streams, frames, limits of the tables and
policies:

- `UpMatchesActiveAlways` and `StatusTruthfulAlways`: the health record and the
  counter of interfaces agree with the sessions that are open. Inductive with
  `ActiveWhere`, which says where a worker can be while its session is active,
  so that no end of a session gets past the update that closes it.
- `ClaimsPacedAlways`. Inductive is `Observing`: what is in an observer's cache
  was told when the cache says so (`Claims`), and outbox and windows hold nothing
  the policy excludes (`AllProper`, `Windows`). `Observer_proofs` carries
  that through every handler (`FrameGoes`), through silence (`ExpireGoes`), the
  end of a session (`DrainGoes`) and sending (`SentGoes`).
- `ExcludedHiddenAlways`: the same lemmas, and the way through channel and
  processor. Its hypothesis `ScansConceal` says that scans report no excluded
  client; the code has two lists, `active.exclude` for the scanner and
  `privacy.exclude_clients` for the observer, and only the configuration makes
  them agree. DHCP is excepted, see `capture_excluded`.
- `FingerprintsToldAlways`. Inductive is `Fingerprinted`: an entry of the
  registry that is not marked was told as strongly as its signals allow
  (`Entry`). Every signal but one marks its entry; that the server string does
  not is harmless because it comes only with a UPnP device, which the engine
  asks for first (`ServerKeeps`). That a confidence is a number at all needs the
  sums of weights, for which `SumRemove` and `SumType` are proved over finite
  sets.
- `FlowsConservedAlways`. Inductive is `Conserving`: until the processor is gone,
  a worker holds packets only at the places where its loop can still hand them
  over (`Placed`; so the session that `Close` replaces holds none), and what the
  closed observers counted and has not arrived (`owed`), together with what the
  open ones counted and no longer hold (`Missing`, the sum of `Gone` over the
  workers), is what the channel carries (`Balanced`). That no handler changes
  `Gone` is shown with the sums of windows and outboxes in `Observer_proofs`
  (`SumChange`, `SumPlus`, `Parted`). A local
  worker that a read error ends keeps its open windows for good, and the balance
  counts them there. That two directions share a flow follows from `Normalized`
  because addresses are totally ordered.
- `PacketsCompleteAlways`. Inductive is `Metering`: what a session has delivered
  and holds never exceeds the whole records of what it received (`Metered`), and
  where its loop goes on it is what the decoder has taken, the decoder standing
  where the received bytes lead and at rest there (`InStep`: `Standing`,
  `Rested`). So nothing is left to take (`RestedHasTakenAll`), and what is left
  in the buffer is less than a record (`RestedHasRoom`): that is why the piece
  `push` cuts off next always finds room, and its limit is never an error
  (`PushGoes`). A session that is closed keeps what it had, and the bound holds
  for it too.
- `TypeCorrect`: every type, and every limit of a table. The flows and the claims
  of an observer stay within theirs in `Observing`; the registry, the channel
  and the rest in `Limited`.

What `decode_available` and `push` compute is proved as well. Each is a function
that calls itself last; `Orbit` is the way such a loop takes, and along it
`LoopExists` gives the function, `ByMeasure` (a set of naturals has a least
member) what it returns. The measures are the bytes in the buffer for the records
taken, and the bytes still to be fed for `push`.

Assumptions of these: the frames are as parsers can find them (`WellFormed`),
no two addresses that may have a flow compare as equal (`Ordered`), scans
carry no packets, the records of a stream have lengths (`Recorded`, of broken
streams too), and chunks and outages are naturals, all in `CastsAssumption`;
weights of signatures are naturals (`WeightsAssumption`).
Induction over the naturals is not available to the prover as a rule; where a
fact needs it, a set has a least member (`Descent`, `ByMeasure`,
`LeastNatural`), since inclusion is well founded on the subsets of a finite set
and so is the order of the naturals.

`lost_edit` and the other runs of section 3.1 show what the theorems cannot say
without their exceptions.

Only model-checked: liveness under fairness (`BacklogDrains`, `ClosingEnds`,
`StopsWithoutTimeout`, `FailureEndsProcess`, `Recovers`), which is out of the
prover's reach, and the ASSUMEs of the MC modules, which compare the pure
functions with reference definitions. Every invariant and every action property
of a run that passes is also a theorem, `ExcludedHidden` and
`RefusesOnlyOversized` under the hypotheses named above.

## 5. What is not modelled

- A write error in the middle of `append` (a header without payload stays in the
  BufWriter) and corruption of records below the cursor: they need a byte-level
  view of the active file (plan below).
- An I/O error in the middle of one log's `flush` or `read_batch`. Between the
  logs both may fail (`Flushed`, `ReadFails`); inside one, nothing changes before
  the error returns but the sync mark, which stays low. A `flush` that succeeds
  after one that failed is taken to have everything on the disk.
- A failing directory fsync (the code ignores it), `metadata` or scan errors
  that the code replaces by zero.
- Unserialisable events in `flush_once`, statistics other than losses, lengths
  of delays.
- Sockets, TLS, mTLS, the login hash of the FRITZ!Box, DNS resolution: I/O or
  cryptography, whose outcomes are free choices.
- Counters that only grow and the snapshot that renders them, the routes of the
  admin endpoint, wording, redaction: nothing depends on them.
- Byte counts, durations and labels of flows; pseudonyms of names; lengths of
  pauses and backoffs.
- `status`, `visibility` and `interfaces` of the tool, which only print; prompts
  are sets of answers. Concurrent runs of setup (they share a temporary name,
  setup.rs:896) and of enrol.
- What detached tasks still do between a timeout of the stop and the end of the
  process.
- Packaging, the build and the installer scripts.

## 6. Plan

1. Done: delivery path, daemon, capture, host; proofs about each of them.
2. Model next: appends that fail half-way, on a byte-level view of the active
   file; two concurrent runs of setup.
