# classick: a verification development

classick keeps a music library on classic iPods: a Rust core (daemon, sync worker, command line) with WinUI and
SwiftUI front ends. The device is a mounted FAT or HFS+ volume that is unplugged at any moment, that the iPod's own
firmware rewrites, and that other programs edit. What must never happen is therefore a question of *order*: which
file was replaced, which record of it was saved, and where the process died in between. This directory holds TLA+
models of the protocols that answer it, from the daemon that decides what a session is for down to the files a
checkpoint replaces, with their TLC runs, two refinements, and proofs for all values of the constants of what makes
the checkpoint, the portable transaction, the daemon's loop, a worker's session and the host's transactions correct.

## 1. The system

| component | state it keeps | operations | what makes it correct |
|---|---|---|---|
| checkpoint transaction (`sync_transaction.rs`, `sync_transaction/`) | iTunesDB, ArtworkDB and `.ithmb`, manifest, playlist ownership, Rockbox files | publish, resume, roll back, recover, abandon, clean up | the database never names missing audio; what rests without a journal agrees; a foreign edit survives; every journal is resolved |
| pending-session journal (`pending_session.rs`) | phase, predecessor, published and verified generation, staged and obsolete files, candidates | new, save, validate, discover, remove | what is saved can be loaded again; cleanup never removes what the database names |
| rollback snapshot (`sync_transaction/rollback.rs`) | copy of database and artwork | create, open, restore, remove | whole whenever a restore may need it |
| device mutation session (`device_coordination.rs`) | lease file, expected generation | acquire, verify, accept, adopt | one session at a time; no write over an unknown generation |
| manifest, playlist ownership, Rockbox projection | one file each, several for the projection | publish, finalise | they name the same tracks and lists as the database |
| sync worker (`apply_loop.rs`) | staged files, albums, stop request | stage, save an album, stop, publish, retry after a full device | only whole albums are published |
| portable host state (`portable/state_store.rs`, `outbox.rs`, `host_cache.rs`) | outbox and cache of each device, on each host | initialise, accept, import, confirm | an accepted edit is kept until it is on the device |
| portable reconciliation (`portable/reconcile.rs`, `coordinator.rs`) | none of its own | load, plan, publish or import, confirm | replay is recognised; a host's cache is never ahead of the device |
| portable device transaction (`portable/device_transaction.rs`) | `pending/portable-config`, profile.json, SysInfoExtended | publish, recover | both files or neither; another program's file survives |
| daemon runtime: admission, controls, source recovery (`daemon/runtime.rs`, `runtime_state.rs`, `source_*`) | the active session, connection generations, queued and deferred work, detached terminal intents | admit, finish, cancel, pause, connect, disconnect, mount, retry, drain | one session; a late completion finishes only its own; every explicit retry is answered |
| worker orchestrator (`daemon/sync_orchestrator.rs`), worker process | the decoder's life cycle, the stop commands, the watchdog; the pipeline and its journal | drive, stop, kill, classify the end | the outcome recorded is what happened; a stopped session ends |
| host transactions (`daemon/device_config_transaction.rs`, `library_mutations.rs`, `mutation_ledger.rs`, `playlist_commands/`) | journals, revisions, staged files, acknowledgements | execute, roll forward, restore, acknowledge | exactly one effect per request id; revision and content move together |
| library, selection, playlists, plan (`selection.rs`, `playlist*.rs`, `sync_set.rs`, `manifest.rs`, `fit.rs`, `apply_loop.rs`) | tag index, manifest, device rows and playlists | walk, select, resolve, diff, fit, stage, publish | the device follows what was asked; the manifest is true; previews agree with the plan |
| device discovery and registry (`device/`, `ipod/device.rs`, `daemon/device_watcher*`, `device_registry.rs`) | polling cache, debouncer, registry file and profile cache | scan, revalidate, observe, connect, disconnect, save, load | no observation joins two volumes; the daemon follows the devices |
| wire and clients (`wire/`, `ipc_daemon.rs`, `daemon/ipc_server.rs`, both front ends' routers) | connections, broadcast queue, routes, a client's view | greet, replay, subscribe, ask, answer, relay | an answer reaches the prompt it was given for; an up-to-date client is right |
| parsing, rendering, encoding, libgpod, mounts, CLI | caches | - | pure functions or I/O |

How they interact: the daemon admits one session, reconciles the portable configuration under the device lease, and
starts the worker process. The worker takes the lease itself, recovers any pending journal, reconciles again, stages
audio and publishes checkpoints, the portable profile's manifest authority last. The daemon and the worker share the
host's files without a lock; hosts share only the device. `PROJECT.json` lists every component with its status and
every hazard at its line.

Hard behaviours: process death or unplugging between any two durable effects; errors of any of them; a second session
that resumes with other playlists than the first; another program's edit between a check and a write; firmware that
drops thumbnails; staged audio lost with the device; an edit accepted while a worker confirms; replay on two hosts.

## 2. Modules

| module | extends or instantiates | holds |
|---|---|---|
| `Checkpoint` | - | the checkpoint transaction, its rollbacks and recovery |
| `CheckpointInvariant`, `CheckpointProofs` | `Checkpoint` | the inductive invariant `IInv`; types, audio and rollbacks proved |
| `CheckpointAgreement`, `CheckpointAgreementProofs` | `CheckpointInvariant` | predecessor and candidate at every point; agreement, retries and foreign edits proved |
| `Portable` | - | outbox, cache, reconciliation and the portable transaction |
| `PortableInvariant`, `PortableProofs` | `Portable` | its invariant, part by part; the proofs |
| `SessionLedger` | - | abstract: device sessions one at a time, one outcome each |
| `Runtime` | implements `SessionLedger` | the daemon's select loop |
| `RuntimeInvariant`, `RuntimeProofs` | `Runtime` | its invariant in two layers; the proofs, the refinement's among them |
| `Worker` | - | the sync subprocess between its two pipes |
| `Orchestrator` | `Worker` | the daemon's driver of that process |
| `OrchestratorInvariant`, `OrchestratorProofs` | `Orchestrator` | what a driver will have seen of its worker; the proofs |
| `HostStore` | - | abstract: a request changes the configuration once and whole |
| `Host` | implements `HostStore` | configuration, deletion, library and registry transactions of the host |
| `HostInvariant`, `HostPromise`, `HostProofs` | `Host` | what a task has done by its step; what a journal has to do with its request and with what is shown; the proofs, the refinement's among them |
| `SyncSet` | - | pure: selection, rules, playlists, sync set, diff, fit, grouping |
| `DeviceLists` | - | pure: owned playlists and Rockbox projections on the device |
| `Preview` | `SyncSet` | pure: what the daemon shows out of its index |
| `SyncPlan` | `Preview`, `DeviceLists` | one run of the worker from the walk to the publications |
| `Observation` | - | the mounted world and the probe of one mount |
| `DeviceRegistry` | - | what the registry saves of a device and reads back |
| `Devices` | `Observation`, instantiates `DeviceRegistry` | watcher, event channel, debouncer, connected devices |
| `DevicesProofs` | `Devices` | what a probe knows between two of its reads; the proof |
| `Wire` | - | messages, directions, greetings, routes, validation |
| `Dispatch` | `Wire` | translation between the wire and the loop's older vocabulary |
| `Clients` | `Dispatch` | connections, broadcasts, replies, the relay and what clients believe |
| `ClientsInvariant`, `ClientsProofs` | `Clients` | what a client will believe once it has read everything; the proofs |
| `MC*` | the module of that name | values for TLC |

### How the modules fit together

They cut the system at its process and trust boundaries. `Clients` sees a worker as a process that asks, reports and
ends, `Orchestrator` sees one worker's two pipes and takes a publication as one effect, `SyncPlan` takes a publication
as one step with the ways it can end, `Checkpoint` opens that step. `Runtime` takes a worker's report as an input,
`Orchestrator` says which reports there are. `Devices` ends where a device is connected or gone, which are inputs of
`Runtime`. `Host` is what a command that changes the configuration does inside one arm of `Runtime`'s loop.

### Checkpoint

One action is one durable effect with the in-memory work around it; the session's place in `sync_transaction.rs` is
`pc`, and `why` tells which caller of a shared routine (`finish_cleanup`, the snapshot restore) it returns to. A crash,
or an error that the code propagates with `?`, ends the session between two actions, which is why one action never
holds two effects. The device lease makes one program counter enough.

* `Gen` is what `generation::capture` hashes: database, artwork, manifest, ownership, Rockbox files, profile. `exp` is
  the session's expected generation; `Fence` is `verify_generation_fence`, and `RecordVerified`, `RecordPublished`,
  `Interrupted` are the records of a generation in the journal.
* `journal` is the journal file. Disk and memory agree at every action that ends a step, so one variable stands for
  both. `Valid` is `PendingSession::validate`, `KnownLive` is `prepare_generation_journal`, `Reset` is
  `reset_staged_publication`.
* `db.ext` counts foreign edits of the database. Tags are one version bit, playlists one version number: enough to
  tell apart what was published, what was rolled back and what a resumed session believes.
* `work` is what the apply loop planned (`run_staged_sync`): staged and obsolete audio, tags, playlists; `want` is the
  playlist list a session resolved, which a recovering session may resolve differently from the one it resumes.
* `PlanProjections` merges the save of the prepared projection with the record of its generation: both are saves of the
  journal at the same live generation. `WriteAuthority` is `portable::coordinator::publish_manifest_authority` seen as
  one write; its own transaction is the subject of `Portable`.

### Portable

The session is the same kind of program counter, held by one of three callers: the daemon that delivers an accepted
edit (`deliver`), the daemon that admits a sync and may first initialise from legacy settings (`admit`), the worker
(`worker`, which skips a device neither side has state for). Two things run beside it: `AcceptLoad` / `AcceptWrite`,
the daemon's acceptance, which takes no lease, and the environment (`Crash`, `ForeignWrite`, `Move` to another host).

* `outbox`, `cache`: the two files of each host; `acc[h]` is the outbox an acceptance has loaded and will write.
* An edit has an id, an owner and the components it sets; an adoption is an edit of every component at revision 0.
  A desired value is told apart by the host that chose it, so an id reused with another value is visible.
* `txn` is the directory `pending/portable-config`: which files are in it, and what its journal records. `RemoveFile`
  removes them one at a time in any order, which is what `remove_dir_all` promises.
* `Generate`, `Owned`, `Usurped` are the outcomes of the SysInfoExtended policy. The device's capability is assumed
  resolved; contents of a generated file are not modelled.
* `reconcile_connected`'s refusal over material of a sync's own transaction is abstracted: the Checkpoint model holds
  that material, and the two transactions are not composed.

### Runtime and SessionLedger

One step is one arm of the loop in `daemon/runtime.rs`, with everything the arm calls: the loop is single threaded. What
runs beside it (workers, mount attempts, name readers) is a member of a set from its start until the arm that handles
its report takes it out, which is where late and overtaking reports come from. `loop` holds admission and the queues,
`connection` the connection generation of each device, `detached` the terminal intent of a session whose device went
away, `saved` and `retained` the history. `SessionLedger` knows only the last identifier, the live session and the
outcomes; `ImplementsLedger` maps the loop's session and its terminal entries to it.

### Worker and Orchestrator

`worker` is the process (phase, pipeline, journal, exit), `pipe` its output, `decisions` what was written to its input.
`driver` is `drive_child_with_stall_grace` with the decoder's life cycle in `life`: every line read is judged there.
The pipeline keeps `Window` transcodes ahead of the committer and `Threads` at work. A prompt waits for an answer and
throws away a stop that arrives in its place, as `await_prompt` does.

### Host and HostStore

`task` is the command or recovery in progress, one durable write per step; `commit`, `drop`, `library` are the three
journals, `staged` the staging directory of a deletion, `saved` the registry file as a load would read it. `daemon`
walks through the recoveries of a start and ends `up` or `refused`. `HostAssumption` names what a request may say
(`Names` are the tracks, artists and genres a selection or a list can name, subscriptions name playlists), keeps devices
and playlists apart, and says that the startup repair's name is no client's request. `HostStore` has only the content, who was
told and what may still be taken back; the mapping gives a reader the content a pending journal stands for
(`Content`).

### SyncSet, DeviceLists, Preview, SyncPlan

The three pure modules are operators on walks (sequences of path, mtime, size), files (path to audio and tags), the
manifest and the device's playlists; paths and text are naturals so that `<` is the code's order. `SyncPlan` runs them
as `run_connected` does: walk, index, scope, playlists, diff, review, staging album by album with a checkpoint at any
album boundary, and the publication with its ends (done, interrupted, rolled back, resumed by the next run). Between
the steps the user edits files, selection, subscriptions and settings and other programs edit the device. What happens
inside a publication is `Checkpoint`'s. `Preview` is the daemon's own computation over the index of the last scan.

### Observation, DeviceRegistry, Devices

The world is which device has which disk number, what is mounted where, and which file is the database; `Outside`
changes it between any two reads of a probe. A probe reads layout and database, then the USB identity in two steps
(disk numbers are reused), then checks that the path still leads to what was opened. `Devices` is the polling watcher
(Windows) or the notification-driven one (macOS), chosen in the initial state, the cache that decides whether to look
again, the channel, the debouncer and the registry's save. A daemon that restarts needs a registry it can read.

### Wire, Dispatch, Clients

`Wire` is the table of the protocol: which message each direction of each stream admits, the order of a greeting, the
route a message carries, which events `validate` refuses to write. `Dispatch` is the translation of commands and events
to and from the vocabulary the loop still speaks; its assumptions, evaluated by TLC, say that every command of the wire
is translated, answered or refused and that no translated event is outside the table. `Clients` is the loop as its
clients see it: one step of the loop, after which it publishes; a connection is greeted, replays its batch event by
event, then reads the broadcast queue and its own replies. A connection's task and the client behind it are one step,
and so are the worker's output pipe and the relay; answers go through the relay straight to the worker's input. The
client's view is what the routers of both front ends keep.

## 3. What the runs check

The numbers are distinct states.

| run | bounds | properties | states |
|---|---|---|---|
| `Checkpoint_crash` | two syncs, two crashes at any point, one failing operation or lost staged audio, one foreign edit at any point | `TypeOK`, `IInv`, `NoDangling`, `AuthoritiesAgree`, `JournalLoads` | 1 925 000 |
| `Checkpoint_foreign` | two syncs, one foreign edit at every fenced point, one crash, one fault, late verification errors and firmware included | `ForeignPreserved`, `RollbackIsFinal` | 537 000 |
| `Checkpoint_settles` | fairness, two syncs, two crashes at resolvable points, one fault | `RetryKeepsInputs`, `Settles` | 77 000 |
| `Portable_publish` | two hosts, three edits (one an adoption), two sends, one crash at any point, one failing write, one foreign write, one move | `TypeOK`, `IntentKept`, `CacheTruthful`, `NothingTorn`, `ForeignKept` | 1 028 000 |
| `Portable_delivers` | fairness, the same without the foreign write, crash at resolvable points | `Delivers` | 297 000 |
| `Runtime_daemon` | two devices, two requests, two source locations, one of six budgets of requests, mounts, ticks, failing history writes | `OneWorker`, `HistoryKept`, `SourceWorkProceeds`, `ChangeNotLost`, `QueueLeavesAnswered`, `NamesNeverRegress`, `ImplementsLedger` | 1 361 000 |
| `Session_worker` | an album of three additions and a removal and one of metadata, window 2, two threads, pipe of 2, one prompt or two faults, four kinds of session | `TypeOK`, `OutcomeTruthful`, `PublishedLanded`, `StreamAccepted`, `StopEnds` | 104 000 |
| `Host_transactions` | six scripts of three requests, two devices, one playlist, one acknowledgement kept, one crash, two failing writes (one with library drops) | `TypeOK`, `AppliedOnce`, `CrashRecovers`, `JournalsEndWhole`, `ImplementsStore` | 234 000 |
| `Sync_planning` | two tracks, one of them with artwork that fills its first MiB, one playlist, two audio versions, five scenarios of two runs with edits and faults | `AudioTruthful`, `DeviceFollows`, `ForeignKept`, `ViewsTruthful` | 298 000 |
| `Devices_follow` | fairness, two devices, three volumes, two mount points, two changes, one event, two platforms | `ObservationWhole`, `FollowsDevices` | 479 000 |
| `Wire_clients` | two clients, one device, two connections, one starting and one steering command, one fault, four such deeds in all, one prompt or report for each worker, queues of 2 | `AnswersReachTheirPrompt`, `ClientsAgree` | 1 329 000 |
| `Wire_unplugged` | one client that only listens, one fault | `ClientsKept`, violated | - |

**Why the bounds are enough.** A checkpoint's hazards are about one journal and the session after it, so two syncs
reach every pair *(died here, resumed there)*, and two crashes reach the rollback or recovery that itself dies. The five
work kinds cover the switches of the code: audio with and without replacement, playlists that appear, stay or are
cleared, tags alone, removal alone. Two names for new audio tell a partly staged album from a whole one. In `Portable`
two hosts and one move are what a stale cache or a replay needs, and two components tell a batch from an edit.

In `Runtime` a late report needs two of something: two devices for a session that ends after another began, two source
locations for a mount attempt of an earlier one, two connection generations for a name. The budgets keep one kind of
trouble in a behaviour and the combinations that interact. In `Session_worker` one album longer than the window shows
the pipeline full, a second shows the stop between albums, and a pipe of 2 makes the worker wait for the daemon. In
`Host` each script puts one journalled command against another that touches the same file or revision, and one kept
acknowledgement makes the eviction happen. In `Sync_planning` two runs are the shortest behaviour in which what one
left behind decides what the next one plans. In `Devices_follow` two changes are an unplugging and a mount in its
place, within one probe. In `Wire_clients` a stale answer needs a client that connects, an answer, a worker that
dies and a command that starts the next: four deeds.

`Wire_clients` is cut off (`NobodyLags`) where a client has lost a broadcast: the code only warns of it, so nothing can
be said of that client afterwards. The clients of that run are interchangeable, and it has no liveness property, so the
symmetry is sound.

**Deadlock** is checked for `Checkpoint` and `Portable`, whose sessions always have a next step. The other modules end
when their budgets are used up, the daemon has stopped or the worker has gone, and say `CHECK_DEADLOCK FALSE`; that
nothing is stuck before is what their liveness and waiting properties say.

**Windows and crash points left out of the passing runs, by name.**

* `Windows` (Checkpoint): between a generation check and the record of the write behind it, a foreign edit cannot be
  seen by any check; `docs/device-coordination.md:223-228` says so. `MCPortable!Windows` is the same for the portable
  transaction. `ResumeWindow` is not documented: see section 5.
* `SettlingPoints`, `Settling`: the points where a crash leaves a journal that a later session can resolve. At the
  others the code blocks for good; section 5 lists them. Safety is checked with crashes at all points.
* `Uncompared`: an edit accepted after the worker compared the outbox and before it cleared it: see section 5.
* `CrashRecovers` speaks of crashes alone, without an imported profile: a failing write on the way to the crash, or
  counters that came with a profile, leave journals whose recovery refuses to decide.
* `ClientsAgree` exempts a session whose stop was announced and whose worker died before its result: nothing tells the
  clients that it ended.
* `FollowsDevices` exempts a device whose last news was lost by the debouncer or by a registry that could not be saved,
  and one hidden by another known device in the polling cache.

**Fairness.** `Checkpoint`, `Portable`: `WF(Session)`, a running process takes its next step; `WF(Acquire)` /
`WF(Connect)`, an attached device is offered to a session again, which a scheduled, plugged-in or requested sync does.
`Orchestrator`: `WF(Receive)`, `WF(Expire)`, `WF(Eof)`, the daemon reads the pipe, the watchdog's timer fires, the end
of the stream is noticed; nothing is assumed of the worker, which may hang for ever. `Devices`: `WF(WatcherSteps)`,
`WF(DaemonSteps)`, `WF(WindowPasses)`, two threads run and a clock advances. No step of the environment is fair: users
need not retry, nothing need be accepted, a crash need not come. Where the fair action is a disjunction, its disjuncts
are the steps of one sequential program, so weak fairness of the disjunction is fairness of that program.

**Mutants.** Every property has a mutant in `PROJECT.json`: a definition of the model with a bug the code could have
had, under which the property fails in its run. They stand beside the definitions they replace and are marked so.

## 4. What is proved

Every theorem is about the specification a run checks, for all values of its constants: any tracks, hosts, devices,
requests, locations, albums, scripts and budgets, any set of points for crashes, faults and foreign writes. What a
theorem assumes beyond the assumptions on the constants is written in its statement. The inductive invariants were
checked by TLC, in `Checkpoint_crash` and on instances like those of section 3, before they were proved; the proofs have
a lemma for each action, or group of actions, and part of the invariant it can disturb.

| module | theorems | from |
|---|---|---|
| `CheckpointProofs` | `TypeCorrect` | - |
| | `InvariantHolds`, `NoDanglingSafe`, `RollbackFinal` | `CacheWhole` |
| `CheckpointAgreementProofs` | `AgreementHolds`, `JournalLoadsSafe` | `CacheWhole` |
| | `AgreementSafe` (`AuthoritiesAgree`) | `CacheWhole`, `ArtworkKept` |
| | `RetrySafe` (`RetryKeepsInputs`) | `CacheWhole`, `StagedKept` |
| | `ForeignSafe` (`ForeignPreserved`) | `CacheWhole`, `EditsSeen` |
| `PortableProofs` | `TypesHold`, `CachesTrue`, `FilesTogether` | - |
| | `EditsKept` (`IntentKept`) | no acceptance at a point of `Compared` |
| | `ForeignSafe` (`ForeignKept`) | no foreign write at a point of `Unwatched` |
| `RuntimeProofs` | `InvariantHolds`, `OneWorkerSafe`, `HistoryKeptSafe`, `SourceWorkSafe`, `ChangeSafe`, `NamesSafe`, `QueueSafe`, `LedgerImplemented` | `RuntimeAssumption` |
| `OrchestratorProofs` | `SessionInvariant`, `TypesHold`, `OutcomeSafe`, `PublishedSafe`, `StreamSafe` | `WorkerAssumption` |
| `HostProofs` | `InvariantHolds`, `TypesHold`, `AppliedOnceSafe`, `RecoverySafe`, `JournalsSafe` | `HostAssumption` |
| | `StoreImplemented` (`ImplementsStore`) | no library drop at work while another's journal is pending (`Serial`) |
| | `CrashesKeepPromise` (`ImplementsStore`) | no failed write, no imported profile (`OnlyCrashed`) |
| `DevicesProofs` | `ObservationsWhole` (`ObservationWhole`) | `ObservationAssumption` |
| `ClientsProofs` | `InvariantHolds`, `AnswersReach` (`AnswersReachTheirPrompt`), `ClientsAgreeSafe` (`ClientsAgree`) | `WireAssumption`, `ClientsAssumption` |

### Checkpoint: audio and rollbacks

`TypeOK` has the types (`Typed`) and the order in which the journal fills in the record of a staged file
(`RecordsFilled`): a database id only after its final path, and no id left when a rollback resets the publication.

`NoDangling` is not inductive: whether a write or a restore of the database is safe depends on what was staged, moved
and deleted before. `IInv` has six parts. `PhaseInv` ties each part of the program to the phases it runs in. `SnapInv`
says that the snapshot is whole wherever it may be restored. `FreshInv` says that staged names are not in the database
of the predecessor, so that removing them in a rollback cannot hurt it. `MediaInv` says that whatever may become the
database (the candidate in memory, the snapshot) is backed by audio. `HeldInv` says that once the manifest is
published, the recorded generations hold the candidate; with the fence, every later verification finds what it found
before, so that no rollback starts after obsolete audio went. `FinalInv` says where a journal at RollbackComplete may
be.

`CacheWhole` says that no verification past DatabaseVerified fails for a reason the database does not justify (in the
code: the artwork cache of this host, which `verify_candidate` reads, is the one the journal was built with). It is
needed: without it an error of a verification in the session that resumes a cleanup restores a database that names
audio already deleted (section 5).

### Checkpoint: agreement, retries, foreign edits

`CheckpointAgreement` says what the files hold between two generations, the journal's predecessor and its target
(`Target`, the predecessor's tracks without the obsolete ones and with the staged ones). Until the manifest is
published ownership and Rockbox files are the predecessor's, the database is the predecessor's or the target's, and
the snapshot, where it is full, is the predecessor's (`BaseInv`, `LiveInv`); the candidate in memory and the one in
the journal are on the way from one to the other (`WalkInv`, `CandInv`). From there to the cleanup the files follow
the database one by one (`ForwardInv`), and where no journal is at work everything agrees (`SettledInv`). The point
the argument turns on is that `verify_candidate` asks only that the manifest's tracks are in the database: from
`CandInv` and `LiveInv` the database holds either none of the staged tracks or all, so that the one-sided check is
exact. `ArtInv` says the same of the thumbnails, and needs `ArtworkKept`: the firmware, which drops thumbnails at any
time, can do so after the last check.

`RetrySafe` adds that whatever leads back to a publication (`InputsInv`) has its staged audio in the journal's directory
or on the device. Audio lost while the device was away (`StagedKept` excludes it) is noticed by the next resume only.

`ForeignSafe` counts foreign edits: no generation the journal has recorded, nor the one the session expects, is ahead of
the database or of a snapshot that may be restored (`ExtInv`), so that a comparison that finds them equal has seen every
edit. It needs `EditsSeen`: no edit between a comparison and what follows on its strength, which is the write and the
record of the database, the restore, and the check of a resumed publication. This is weaker than what the run leaves out
(`Windows` and `ResumeWindow`): under `CacheWhole` no rollback starts late.

### Portable

`CacheInv` says that whatever may become the profile, a candidate or the original of an open transaction, covers every
host's cache, so that neither a publication nor a rollback puts the device behind a host; moving to another host
between any two sessions changes nothing. `TornInv` follows the two files through the journal's originals in the same
way. `IntentInv` follows an accepted edit from the outbox, or the outbox an acceptance is about to write, through the
candidate to the profile (`Carries`). `EditsKept` excludes an acceptance between the comparison of the outbox and its
clearing, which the code does not notice (`state_store.rs:123`, section 5). `ForeignInv` says that a file that is not
this program's is in the original or stops the session; `Unwatched` are the points between a comparison and the record
of the write behind it.

### Runtime

The loop's record goes through a chain of transformers in each arm (`QueueSync`, `Launch`, `StartAvailable`, `Resumed`
and so on). `Coherent` is what every one of them keeps: the admitted session is under the last identifier and its
worker is the one that runs, mount attempts are numbered, each request is in one place (with its client, in the queue,
deferred, among the retries, or answered once). `Steady` and the rest hold between two arms: a retry waits for an
attempt, nothing waits in an idle loop with an available source, the entry of a session whose device went is written
and its worker still runs, and a name comes from no later connection than the device has. There is a lemma for each
transformer and one for each arm. The action properties and the steps of `SessionLedger` follow from what a
transformer may do to the record (`Kept`): `LedgerImplemented` is the refinement, without liveness on either side.

### Worker and Orchestrator

The driver is behind its worker by the events in the pipe. `Heard` says that there is a trace of views, one for each
event, at each of which the decoder accepts the event, that starts at what the driver has seen and ends at a view that
reflects what the worker has done (`Leads`, `Reflects`). A worker's step appends to the trace, the driver's takes its
first view, a kill keeps a prefix. What ends a session, an exit code, a flag, a disposition, is then read off the last
view. The lemmas about the worker alone are that no more than `Window` jobs are ahead of the committer (`Permitted`),
that what is journalled has been copied (`Landed`) and that every action before the loop's place is staged, published
or reported (`Covered`).

### Host

`CommitAt`, `DropAt` and `LibraryAt` say, for each step of a task, what of its journal it has done; these hold
whatever fails. `Ledgered` says that an applied drop is in the ledger, evicted, or in the pending journal, and that
the ledger has no request twice and no more than `MaxPerTarget` of a target, from which `AppliedOnce` follows.
`Settling` holds while no write has failed and no profile was imported: one journal at most is pending, the registry
in memory is the saved one, and the journal can be undone or completed from what is on disk. A start that refuses has
found a deletion without subscribers.

The refinement needs more than what a task has done: it needs what was asked. `HostPromise` relates a pending journal
to the request it serves, to whether that was answered, and to `before`, the content a reader was last entitled to.
`Alone` says that one journal at most is pending and which of them each phase of a start has settled. `CommitPart` says
that a commit's new parts are those of its request, or the repair's, and that a part whose undo is no longer certain
shows its old value as what may be taken back; `DropPart` says the same of a deletion with its subscribers, and ties
each phase of its journal to what the files hold; `LibraryPart` says that the list or selection a drop names is in
place once its journal is past `prepared`; `SavePart` does so for a save. For each kind of journal there are lemmas on
what a reader is shown while it is pending; then each durable step is one step of `HostStore` or a stutter. Writing the
journal of a commit or a drop is the moment a request takes effect, the ledger's write the moment it is noted, an answer
the moment it can no longer be taken back. A registry that a failed command reads again is the step that takes back
the rest, a repaired subscription the step that prunes what no longer exists.

These hold whatever fails and whatever profile is imported, under one hypothesis, `[]Serial`: no library drop is at
work while the journal of another command is pending. Every other command is refused then; library drops are not
(section 5), and what they write over is an edit the promise covers. The hypothesis is not needed while no write failed
and no profile was imported, since `Settling` gives it: that is `CrashesKeepPromise`.

### Devices

A probe reads the two identities of a device, of its disk and of its bus, in steps of their own, while the world moves
as it likes. `Scans` says what a scan knows at each of them. If the path still leads to the mount that was opened
(`Still`), it has led there all the time, since every mount is an instance of its own, numbered beyond all earlier
ones; then the number read belongs to the owner of the volume, since devices on the bus have disk numbers of their own
(`World`), and so does the identity looked up by it. The check at the end of a probe is exactly that, so that a number
given out again between two reads, or a path that leads elsewhere and back, is never part of an observation.

### Clients

A client is behind the daemon by what its batch and its queue hold. `Leads` says that there is a trace of beliefs, one
for each event still unread, that starts at what the client believes and takes in one event at a time; `Knows` says
that its last belief is what the daemon knows of sessions and source, or will have said with the inventory it is about
to publish. So it is for every subscribed client that lost no event (`lagged`), unless an event it has yet to read
cannot be written (`Doomed`), which ends its connection. A broadcast appends to the trace: for every broadcast there is
a lemma that from a belief that knew the daemon before it the client learns one that knows the daemon after it. A
client that reads takes the first belief of the trace. The batch is built and the subscription made in one turn of the
loop, so that what a new client's batch leads to is known when nothing has been broadcast to it yet. `Given` follows
an answer from the client through the command queue and the worker's input: it is in `past.answers` all the way,
because the loop lets it through for the session that runs and no other, and the relay's route is that session's.

### What is only model-checked

The four properties of `SyncPlan`, whose choices (diff, fit, resolve) are recursive definitions over data. Liveness (`Settles`, `Delivers`, `StopEnds`,
`FollowsDevices`), ENABLED and what a recursive definition computes for every input are out of reach of the proof
system.

## 5. Where code and documents disagree

`Wire_unplugged` is the run that finds a violation. A session stays active until its worker has drained, so once its
iPod is unplugged the inventory names a disconnected device with a session; `wire/inventory.rs:113-118` refuses to write
that, and the connection of every client ends over it, that of one that connects again included, until the worker is
gone. `docs/archive/design/2026-07-18-multi-device-sync-stabilization-design.md:340` says "A disconnect event removes
only its matching serial."

**A device that goes twice.** Five steps of `Runtime_daemon` reach a state in which the daemon panics: a device is
unplugged while it syncs, plugged in again and unplugged again before the worker of its session has drained. The session
is still the active one (`runtime.rs:1797`), and nothing asks whether it was settled already, so its "device_detached"
entry is appended to the history file a second time (1817), and `record_detached_terminal_intent` (1818) fails its
assertion `assert!(previous.is_none(), "session {id} was already detached")` (`runtime_state.rs:118`); the loop runs on
the main thread (`main.rs:44`), so the daemon ends. The action `Disconnect` does exactly that, to the phase "panicked"
in which nothing is enabled. `HistoryKept` (and `HistoryKeptSafe`, its theorem) therefore says that the file names a
session once except that this last write before the panic repeats the entry of the session whose device went; that a
session has one outcome holds there too.

What follows was met while choosing constants, scripts and exemptions; the passing runs leave these cases out by name,
and no run of its own shows them.

**Checkpoint** (`sync_transaction.rs`).

* 780: a resumed session adopts the live database without comparing tags, and publishes a manifest whose tags the
  database does not hold.
* 786: a resumed session restores its snapshot without the check that guards every other rollback.
* 556: a crash while artwork is prepared leaves a Staging journal whose abandonment `validate` refuses.
* 1042: the late verification error of section 4.
* 1045: a rollback after ownership was published cannot restore it, so it never completes.
* A crash blocks every later session at 303 (manifest replaced, generation not recorded), 560 (abandonment saved,
  directory not removed), 625 (audio moved, track not journalled), 733 and 1346 (snapshot half filled, half removed),
  780 (playlist-only candidate adopted), 1025 (predecessor restored, reset not saved), 179 (firmware abandonment saved,
  not removed); in `portable/device_transaction.rs` at 72 (one original restored), 121 and 124 (file replaced,
  generation not recorded), 239 (directory half removed).

**Portable.** `state_store.rs:123`: an edit accepted between the worker's comparison of the outbox and its clearing is
lost. Two hosts with different legacy settings make mutations that share the id of `legacy_mutation_id` and so conflict;
an edit before the first connection waits for the other components; a manifest authority may be stale when a
publication is confirmed.

**Runtime and worker.** The comment at `runtime.rs:1792-1796` says that the completion of a detached session is dropped
as the daemon is idle by then; it is not idle, and the completion is what frees the session (1344-1352). A queued sync
starts for a device that has gone; a request to forget a device can end without a reply (`runtime.rs:2732`); the
shutdown drain records no history; a location set through protocol 3 neither rewatches nor rescans the library (the test
at 931 matches the legacy command only). A cancel after the worker's successful finish makes the session
"finalization_interrupted" (`sync_orchestrator.rs:717`); `await_prompt` swallows a stop; a scan that has to ask is a
protocol error; the watchdog kills a publication that takes more than its grace; joining the transcoders can hang on a
stop within an album (`apply_loop.rs:1018-1021`).

**Host.** `playlist_commands/transaction.rs:225`: a deletion whose rollback fails half way consumes its staged target;
`docs/archive/ipc-protocol-history.md:1354-1358` promises that the next start restores the files. A library drop is
not refused while the journal of another command is pending (`runtime.rs:2398-2410`), and rolling it forward then
writes over the other's edit; reloading the registry takes back revisions it has handed out; a crash in a save that
changes a playlist's kind leaves both kinds; a failure is answered although the journal later rolls forward.

**Planning.** `replace_library` never looks for a pending journal (`apply_loop.rs:1733-1844`); recovery at
DeviceManifestPublished needs the display names of the playlists (`rockbox_publication.rs:52-80`), and a recorded
projection that drifted wedges it; a metadata update staged after the audio changed keeps the old audio (1512-1571); a
run without deletion records the new root, so that the next run removes without asking; a first checkpoint without a
manifest fails for lack of a source root (`manifest_store.rs:150-157`); an edit of playlists alone is never published;
an unreadable file counts as removed; `--rebuild-manifest` can add tracks twice; `plan_fit` ignores the growth of
modified files. An edit that keeps the size of a file and its first MiB is not seen, whatever its modification time:
the fingerprint covers that prefix only (`source.rs:164-179`; the test at 257 asserts it), so the diff calls the file
unchanged and the device keeps the old audio or tags. `DeviceFollows` asks for what size and fingerprint tell apart
(`Alike`) and no more; in the run the artwork of the second track fills its prefix, so that its audio can change unseen.

**Previews.** A preview ignores `reserve_bytes`; `preview_selection` counts tracks that only playlists keep as
removals (`daemon/library.rs:188-198` against its comment at 160-163); entries that lost their track are shown as
synced, and X of Y can exceed Y; `cli.rs:159` speaks of a database backup that production code never makes.

**Devices.** The polling cache hides a second device (`device/legacy_v2.rs:106`); the debouncer drops a changed
connection within its window (`device_watcher.rs:52-60`); a failed save drops a connection (`runtime.rs:1687`), and
one unreadable host cache fails every save (`device_registry.rs:392-412`); the revisions handed out since the last
import are lost when the registry is read again (`docs/archive/ipc-protocol-history.md:1405-1407` calls the counters
durable).

**Wire.** A client that connects while a worker waits for a prompt never learns of it, and the session waits until
somebody answers or kills it; a worker that dies between the announcement of a stop and its result leaves the route of
that session in both front ends; an event that fails `validate` in the worker ends its IPC thread silently; a client
that lagged is not told; two devices under one mount path, or a playlist with an invalid slug, cut every client as an
unplugging does. `legacy_progress.rs` is called by tests only.

## 6. What is abstracted or not modelled

Of the components that are modelled, these things are left out:

* `SyncPlan`: legacy manifests and markers of version 1; foreign database edits while a journal waits (`Checkpoint` has
  them); host edits happen between runs, file edits at any time, each advancing the seconds of a modification time. The
  bytes an AAC file will take are not estimated, so that "everything fits" is stated for ALAC only.
* `Host`: devices that are not configured, request ids that collide, equal times in the eviction, the settings
  component, the portable outbox's acceptance (which is `Portable`'s).
* `Devices`: writes into a database in place, the notification authority of Windows, registry files of version 1, the
  coarse times of FAT; one counter stands for the three of a device; the file reads of one recheck are one step.
* `Clients`: a client that leaves of its own accord (losing its connection leaves the same behind), the start and
  progress events of a scan, broadcasts without a form on this wire; the source is always configured, and a refused
  login counts as unavailable; replacing the library behaves as a backfill.
* `Runtime`: status broadcasts, the trimming of the history.

Not modelled: the manifest's schema migrations, the quarantine protocol of `rockbox_projection_fs.rs`, the device lease
as a file two processes race for, mounting itself (`macos_netfs`), parsing and rendering, libgpod's format, transcoding
and artwork encoding, backup and restore of a database, the command line and the wizard, the front ends beyond what a
router keeps. They are I/O or conversions whose outcomes are inputs of the models here.

## 7. The plan

The modules come in the order in which they were planned: the checkpoint, the portable transaction, admission and
worker, host transactions, planning, devices, wire. What is left, in this order:

1. The abstract specification of an atomic checkpoint ("the device goes from one agreed state to the next"), refined by
   `Checkpoint` at rest.
2. The quarantine protocol of `rockbox_projection_fs`; the lease between two processes.
