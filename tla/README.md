# DahuaBridge in TLA+

DahuaBridge connects Dahua recorders, cameras and door stations to Home Assistant: it shares their RTSP
streams, chooses where a live stream comes from, transcodes and records it, archives events and serves
all of it over HTTP. This directory holds TLA+ models of its concurrent core, the TLC configurations
that check them on small instances, and TLAPS proofs of the central invariants. Paths below are relative
to `bridge/internal/`.

| module | what it is |
| --- | --- |
| `RtspRelay.tla` | the shared RTSP relay: `rtsprelay/server.go`, `rtsprelay/preconnect.go` |
| `LiveSource.tla` | which upstream a live stream comes from: `app/runtime_live_source*.go`, `streams/live_source.go`, parts of `app/runtime.go` |
| `MediaWorkers.tla` | the FFmpeg workers of the media manager: `media/manager.go`, `live_mjpeg.go`, `live_hls.go`, `dash.go`, `webrtc.go`, `retention.go`, `lifecycle.go` |
| `ArchiveClips.tla` | archive exports from request to retention: `media/capture.go`, `clip_*.go`, `archive_cleanup.go`; `app/runtime_archive_export.go`, `archive_live_searcher.go`; `archive/assets.go`, `clip_retention.go` |
| `ClipRetention.tla` | the abstract specification that `ArchiveClips` implements |
| `EventScan.tla` | the archive's event index: `archive/checkpoints.go`, the scheduling half of `archive/service.go`, `archive/lifecycle.go` |
| `DeviceState.tla` | what the bridge knows of a recorder and the state file that keeps it: `store/`, the probe path and caches of `dahua/nvr/driver.go` and `write_authority.go`, `app/admin_actions.go`, the loops and the shutdown of `app/app.go` |
| `RtspRelayProofs.tla`, `RtspRelayCountingProofs.tla`, `RtspRelayPolicyProofs.tla` | proofs about the relay's tables and index maps, about its counters and limits, and about its policy and Close |
| `LiveSourceProofs.tla`, `MediaWorkersProofs.tla`, `ArchiveClipsProofs.tla`, `EventScanProofs.tla`, `DeviceStateProofs.tla` | proofs about the others |
| `MC*.tla` | constants and environments of the small instances |

To repeat the checks: `tlc -workers 2 -config MCRtspRelayOneSlot.cfg MCRtspRelayScopes.tla`, and so on for
each row of the table of runs; `tlapm EventScanProofs.tla`, and so on, for the proofs.

## 1. Inventory

### Components, their state and operations

**Shared RTSP relay** (`rtsprelay/`). State, under one mutex: `workers` (one upstream connection for each
stream and profile), `sessions` and `conns` (which worker a client uses), `starts`, `preconnectRetry`,
`preconnectStarting`, the mode and the desired targets of warm-up, `closed`. Operations: the gortsplib
handlers (`OnDescribe`, `OnSetup`, `OnPlay`, `OnPause`, `OnSessionClose`, `OnConnClose`), one `run`
goroutine for each worker with its start timer, `reapIdle`, `runPreconnect`, `InvalidateStream`,
`WakePreconnect`, `Start`, `Close`. Correct when: the tables agree with each other and with the workers;
nobody who waits or watches loses an input to the reaper or to other demand; the limit on inputs holds; every
request is answered; a saved policy takes effect; nothing survives Close.

**Live sources** (`app/runtime_live_source.go`, `app/runtime_live_source_health.go`,
`streams/live_source.go`, `store/live_source.go`). State: a default preference and overrides in the probe
store, the routes in the stored probes, `liveHealth` (a queue of 64, pending failures, selections with the
signature they were made for, revisions). Operations: `SetStreamLiveSource`, `SetDefaultLiveSource`, four
health workers, a 15-second ticker, `ReportLiveSourceFailure`, and every reader of the catalog. Correct
when: a stream falls back only to a route found healthy, returns when the preferred one is back, no late
check overrules the operator, and viewers and snapshots do not keep the old source.

**Live warm-up settings** (`app/runtime_live_preconnect.go`, `streams/live_preconnect.go`): saves a mode, wakes the
relay, lists the targets.

**Media workers** (`media/manager.go`, `live_hls.go`, `dash.go`, `live_mjpeg.go`, `webrtc.go`, `retention.go`,
`lifecycle.go`). State: tables of MJPEG, HLS, DASH and WebRTC workers and clip jobs under one mutex,
generations of streams, retained outputs, subscribers of each worker. Operations: get-or-create, subscribe and
leave, idle stop, retention, `InvalidateStream`, `Close`. Correct when: the limit holds, no worker starts from a
resolution older than the last invalidation, an idle worker stops and a used one does not, Close joins all.

**Clip jobs** (`media/capture.go`, `clip_storage.go`, `clip_transcode.go`, `archive_cleanup.go`). State:
`clipJobs`, a video and a metadata file for each clip. Operations: start, stop, complete, delete, restart of the
bridge. Correct when: one recording for each stream, files and metadata agree after any failure, a
deleted clip stays deleted.

**Archive** (`archive/`). State: SQL tables of recordings, events, clips and checkpoints; running flags, a
trigger channel of four. Operations: scheduled and manual synchronisation, backfill, clip ownership,
retention, Close. Correct when: no window of history is skipped, a clip is deleted once it is owed no
longer and never before, Close joins every job.

**Application** (`app/app.go`, `app/runtime.go`, `app/admin_actions.go`, `app/runtime_playback.go`,
`app/runtime_archive_export.go`). State: drivers and configurations, snapshot and recording caches, playback
sessions. Operations: probe and event loops with backoff, configuration updates, snapshots, playback, exports, start and
shutdown. Correct when: a shutdown joins every writer before its last save.

**Probe store** (`store/`): probes, events and settings in memory, a dirty flag and a revision, one
JSON file replaced by rename. Operations: `Set`, `Update`, the periodic and the final flush, the saving of a preference,
loading. Correct when: what counts as saved is on file, whichever writer wrote and whatever arrived meanwhile; a
preference is visible only once it is durable.

**NVR driver** (`dahua/nvr/driver.go`, `write_authority.go`). State: the configuration, here and in each client, an
inventory and a verdict on configuration writes, both kept for fifteen minutes. Operations: `Probe`, `UpdateConfig`,
`InvalidateInventoryCache`, capability queries. Correct when: after a change of the configuration what the caches and the
store say is about the new recorder, sooner or later.

**Device clients** (`dahua/rpc`, `dahua/cgi`, `dahua/vto`, `dahua/ipc`, `dahua/rtsp`, `onvif`,
`imou`): a login session, cached tokens and capabilities; the rest translates replies.

**HTTP server** (`httpserver/`): stateless handlers, authentication, a rate limiter for each client.

**Stream catalog, configuration, metrics, logging** (`streams/catalog.go`, `config/`, `metrics/`, `logging/`):
pure construction from probes and configuration, or output only.

**Home Assistant integration and cards** (`integration/`, `ha-cards/`): a polling client and a user
interface.

### How they interact

- A viewer's request goes to the media manager or to the relay; the media manager itself reads live inputs
  from the relay over a local RTSP URL. Both resolve a stream through the runtime's catalog, outside their
  own mutex.
- The catalog is computed at each call from the settings, the probes and `liveHealth`: shared state
  read piece by piece.
- A changed source calls back into both: `invalidateLiveSource` empties the snapshot cache and calls
  `InvalidateStream` of the manager and of the relay. Upstream failures travel the other way, by
  `ReportLiveSourceFailure`.
- Probe loops and admin requests write the store; a probe that moves a route changes what the catalog says without
  telling anybody. The flush loop, each saved preference and the shutdown write the store's file.
- Archive synchronisation starts clip jobs through the media manager and deletes their files after
  retention.

### What is hard

Locks are short and the work happens between them: lookups, network probes, handshakes, socket closing and file
writes all run unlocked, and each comes back to a state that has moved on. The code defends itself with
revisions, generations, signatures, identities and "retired" flags. Those defences, and the counters and limits
that every early return must respect, are what the models are about. `PROJECT.json` lists forty hazards with their
lines and the properties that cover them; two are in parts that are not modelled and say why.

## 2. Plan

The most important behaviour first; every step is a module with its runs and, where it pays, its proofs.

1. `RtspRelay`: the component with the most parties on one lock. Modelled; every safety property is proved.
2. `LiveSource`: uses the relay and the media manager through what they promise it, that
   `InvalidateStream` stops an input even while it is being looked up. Modelled; every safety property is proved.
3. `MediaWorkers`: keeps that promise (`NoStaleInput`) for one table of workers that HLS, DASH, MJPEG,
   WebRTC and clips share. Modelled; every safety property is proved.
4. `ArchiveClips`, with `ClipRetention` as its abstract specification and the refinement between them.
   Modelled; its safety, the refinement included, is proved.
5. `EventScan`: checkpoints, backfill, scheduling and shutdown of the archive. Modelled; its safety is proved.
6. `DeviceState`: the probe store, its file, the driver's caches and the shutdown, below everything else. Modelled; its
   safety is proved.
7. Next, if this development is carried on: the RPC client's login and the playback sessions, which hold the two
   uncovered hazards.

Runs stay few: each module gets one run for safety (and, where the environments are small enough, liveness with
it), made of several environments (section 4). Bounds are two or three of everything that competes.

## 3. The models and the code

### RtspRelay

One critical section of the relay's mutex is one action; whatever a goroutine does between two of them is a
state in which the others act. A `relayStream` is a record in `wk`; identities are reused when no
pointer to the old object is left.

| code | model |
| --- | --- |
| `workers`, `sessions`, `conns`, `starts` | `reg`, `sessions`, `conns`, `starts` |
| `preconnectMode`, targets, `preconnectRetry`, `preconnectStarting`, `preconnectWake` | `mode`, `targets`, `retry`, `starting`, `wake` |
| `getStreamForDemand` | `Request`, then `WaitReady` or `WaitCancelled` |
| the end of `OnDescribe` and `OnSetup` | `Bind`, then `Release` |
| `OnPlay`, `OnPause`, `OnSessionClose`, `OnConnClose` | `Play`, `Pause`, `SessionClose`, `ConnClose` |
| `run`, the start timer, `finishWorker` | `RunResolves`, `RunRejects`, `RunFails`, `RunReady`, `RunEnds`, `TimerFires`, `RunFinishes` |
| `retireLocked` and the function it returns | `RetireIn`, `RetireAll`; `Cleanup` |
| `reapIdle` | `ReapScan`, then `ReapNext` for each stream it saw |
| `runPreconnect`, `reconcilePreconnect` | `RecFirst`, `RecRead` (resolver, unlocked), `RecRejects` or `RecApplies`, `RecWakes`, `RecTicks`, `RecStops` |
| `InvalidateStream` | `InvalidateStream`, then `PullNext` for each worker |
| `SetLivePreconnect`, `WakePreconnect` | `PersistSettings`, `Bump`, `Signal` |
| `Start`, `Close` | `Start`; `CloseBegins`, `CloseCancels`, `CloseRetires`, `CloseServer`, `CloseJoins` |

Abstractions. Time is whether a deadline has passed: `used` is aged after `IdleTimeout`, `viewed` is past
after `RecentKeepAlive`, a retry is expired after its minute. The oldest entry of a table is any entry
of the class the code prefers. Targets are any set of keys the catalog might list, in the order of the keys.
Media packets, URLs and responses are left out. gortsplib and the cameras are external: `Hangup` and `MayRequest`
say what a client may do, `OnConnClose` runs after the handlers of its connection have returned, and `OnSetup`
runs in its session's goroutine.

Properties of safety: `IndexAgrees`, `RegistryHonest`, `DemandCounted`, `WarmStartCounted`, `StreamsBounded`,
`TablesBounded`, `WarmWithinBudget`, `NoLostPolicy`, `ClosedStaysEmpty`, and the proved `TypeOK`; what a step may never
do: `DemandProtected`, `PolicyNotUndone`; liveness: `DemandAnswered`, `HungCloses`, `CloseTerminates`,
`UnusedDrains`. Each is stated in words above its definition.

### LiveSource

| code | model |
| --- | --- |
| `ProbeStore.defaultLiveSource`, `liveSources` | `default`, `override` |
| the stored probes of a channel | `urls` (a recorder URL and a camera URL or none) |
| `liveHealth` | `h`: queue, `queued`, `failures`, `states`, `revisions`, phase |
| `applyNVRLiveSource` | `Effective` |
| `queueLiveSourceHealth`, `clearLiveSourceHealth` | `Queued`, `Cleared` |
| `runLiveSourceHealthWorker`, `checkLiveSourceHealth` | `Take`, `Snapshot`, `ProbeCurrent`, `ProbeOther`, `Apply`, `FinishCut`, `Finish`, `Requeue` |
| `SetStreamLiveSource`, `SetDefaultLiveSource` | `SetBegins`, `Save` or `SaveFails`, `Clear`, `Relist`, `CutEach`, `QueueEach`, `SetReturns` |
| `invalidateLiveSource` | `CutSnapshot`, `CutView` |
| `listStreams` | three reads: `SawSettings`, `SawProbes`, `SawSelections` |
| a relay or media worker of the stream | `Open`, `Resolve`, `Fail`, `Leave`, and the report in `late` |
| `NVRSnapshot` with its flight and cache | `SnapshotBegins`, `SnapshotResolves`, `SnapshotStores`, `SnapshotFallsBack`, `SnapshotEnds` (a lookup that finds the cached snapshot expired is part of `SnapshotBegins`) |

Abstractions. A route is one URL; a route with several profile URLs is healthy when all of them answer, which is
one member of `alive` here. `listStreams` also reads the configuration of the device first; a
reconfigured recorder is a change of routes. Streams whose routes have moved are left out of
`ViewFollows` and `SnapshotFollows`: the finding `live_moves` is about them. `torn`, `moved` and
`dropped` are history for the properties; the code has no such field.

What a snapshot promises. When the selected stream has no target or its capture fails, `NVRSnapshot` asks the
recorder's driver for its own image and puts it in the same cache under the same flight (`app/runtime.go:229-241`;
`bridge/docs/features.md:69` keeps the providers as the fallback). That image stands in for the selected source whichever
that is, so it may well show the recorder while the camera is selected. `SnapshotFollows` therefore makes two promises. A
captured frame in the cache is of the source the catalog names. A recorder's own image in it was asked for after the last
invalidation of the stream: a call that began before a switch (`dropped`) does not put its image in the cache after it,
by either way of storing. Both rest on `storeSnapshotForFlight`, which stores only for the flight the channel still
knows.

The receive from the queue and the read of the pending
failure are one step: the stream stays marked as queued between them, so a report in between ends up in the
same place.

### MediaWorkers

The worker structs of six files are one record in `wk`, with a `kind`; the tables are one set `tab`. A struct that
nobody reaches any more becomes a free slot (`Collected`); a slot is used again (`Free`) when no table, no request, no
cancellation under way and no queued output refers to it.

| code | model |
| --- | --- |
| `m.mjpegWorkers`, `hlsWorkers`, `dashWorkers`, `webrtcPeers`, `clipJobs` | `tab`, by `kind` |
| `m.retainedOutputs` with its serials | `kept` |
| `m.streamGenerations` | `gens`; the source itself is `src`, what is between them `pending` |
| `resolveStream` | `Ask` (the generation), `Resolve` (the catalog, unlocked) |
| `getOrCreateMJPEGWorker`, `getOrCreateFrameCaptureWorker`, `getOrCreateHLSWorker`, `getOrCreateDASHWorker`, `WebRTCAnswer` | `OpenMJPEG`, `OpenHLS`, `OpenDASH`, `OpenWebRTC`, or `Refuse` |
| `Subscribe`, `CaptureFrame`, `removeSubscriber` | `AddSubscriber`, `Ready`, `GiveUp`, `Leave` |
| `worker.stopWhenIdle` with `idleGeneration` | `Elapses`, `IdleTimer`; a timer's `window` is the generation |
| `readFileWhenReady`, `stopWhenIdle` of files | `Served`, `NotServed`; `Ages`, `Tick` |
| `run` and its deferred calls | `Prepare`, `Produces`, `Retries`, `Fails`, `Completes`, `Killed`; `CloseSubscribers`, `CancelSession`, `RemoveWorker`, `Sweep` |
| `retainHLSWorker`, `retainDASHWorker`, the cleanup task of `retainOutputLocked` | `Retain`; `KeeperUnlists`, `KeeperSweeps`, `KeeperReleases` |
| the WebRTC handshake | `Answer`, `OfferFails`, `PeerGone` |
| `StartClip`, `InvalidateStream`, `StopIntercomSessions` | `StartClip`, `InvalidateStream`, `StopIntercomSessions`; `CutNext` for the cancels after the unlock |
| `Close` | `Close`, `CloseJoins` |

Abstractions. Profile and width only choose a key, so a stream has one key of each kind. Frames, segments, SDP and
codecs are left out: output is there or not. `MaxWorkers` 0, which means no limit, is left out. The `os.RemoveAll` that ends
an HLS or DASH worker, or a retained output, may fail: the error is logged, nobody tries again, and the directory is
`"stuck"`. So `ClosedLeavesNothing` speaks of two things: no worker, timer, ticker or cleanup task is left, and no output
whose removal was not tried. It does not say that the disk is empty. `whole`, a mark on
timers, is history for `IdleStopIsEarned`.

### ArchiveClips and ClipRetention

| code | model |
| --- | --- |
| the clip directory; downloaded inputs | `video`, `meta`; `input` |
| `m.clipJobs`, `clipJob` | `job` |
| `bridge_mp4_clips`, `archive_clip_retention`, the clip columns of `smd_ivs_events` | `rows`, `owned`, `link` and `mark` |
| `EnsureNVRArchiveClip` | `Export`, `Find`, `GivesUp`, `Start`, `Launch`, `Started`, or `ContextEnds` and `Abandons` |
| `clipJob.run`, `complete` | `FFmpegStarts`, `Retries`, `FFmpegEnds`, `Completes`, `Leaves` |
| `TrackNVRArchiveClip`, `UpsertClipAsset` | `Upsert` |
| `reconcileClipAssets`, `GetClip` of the searcher, `DeleteClipAsset` | `Reconcile`, `GetClip`, `Unlink` |
| `EnrichRecordings` | `Search` |
| `StopClip`, `DeleteClip` | `Stop`, `Stopped`, `DeleteClip`, `RemoveVideo`, `RemoveMeta` |
| `PruneOlderThan`, `deletePrunedClips`, `DeleteArchiveClip`, `finishClipCleanup` | `Prune`, `Check`, `CleanVideo`, `CleanMeta`, `Finish`, `Rests` |

A transaction is one action. `persistClip` writes with `os.WriteFile`, which empties the file first
(`media/clip_storage.go:79`): a write that fails leaves the old metadata or a `"torn"` file that is no JSON, and so may a
crash, whenever a job has a write before it (`Persist`, `Crash`). A torn file is an error and not `ErrClipNotFound`, and
who meets it differs: `FindClips` skips it, reconciliation unlinks the clip as it does on any error, and
`deletePrunedClips` (`app/archive/service.go:1006-1008`) and `DeleteArchiveClip` (`media/archive_cleanup.go:41`) give up, on
every pass. A loss of power that undoes writes already made is left out. Anything may fail and the bridge may crash between any two steps, within `world.faults`.
Recordings of live streams, which the archive does not own, are left out.

`ClipRetention` says in seven actions what the archive promises: a clip appears, records refer to it, it is condemned
once nothing refers to it, and it goes; what is gone does not come back and nothing comes to refer to a condemned
clip. The refinement mapping is `Life`, computed from the files, the job, the record and the queue, with `link` as it is;
`RetentionHolds` is `R!Spec`. `Erase` takes a set of clips because one crash may take several: those whose requests had an
ID but nothing on disk yet. A torn metadata file is still something on disk.

### EventScan

| code | model |
| --- | --- |
| the cursors of `archive_event_scan_progress` | `saved`, two times for each code |
| the rows of `smd_ivs_events` | `settled`: the times whose events are all stored |
| `syncIncrementalEventCode` | `Load`, then `Scan` and `Save` for each window; `Since`, `Before`, `Outage` and `Backfill` are its arithmetic |
| `s.trigger`, `runLoop`, `smdIVSLoop`, cron | `trigger`; `Dispatch`; `EventTicker`; `Cron` |
| `beginSync` and the running flags | `BeginEvents`, `BeginFull`, `EndFull`, `PassEnds` |
| `Start`, the application's context, `Close` | `Start`, `ParentEnds`, `CloseBegins`, `CloseCancels`, `CloseJoins`, `LoopExits` |
| the end of the process | `Crash`, `Restart` |
| the clock | `Tick`, `ClockBack` |

Times are integers in units of the overlap. The recorder reports an event at most the overlap after its time: this is what
the code assumes by scanning with that overlap, and what `Seen` says. Two assumptions on the clock are named at
their actions. A correction puts the clock back behind every cursor (the clock was far ahead), and afterwards the clock
does not run over an old cursor before the next pass has seen it. What was scanned with the wrong clock does not count
as settled. The rows of recordings and the SQL are left out.

### DeviceState

One critical section, one request to the recorder or one step of a write is one action. A probe result is abstracted
to where its parts come from: the configuration the probe began with, the one that answered its first request, those
that answered the inventory, and the one the write verdict is about.

| code | model |
| --- | --- |
| `Driver.cfg`, the CGI client's copy | `cfg`, `client` |
| `cachedInventory`, `configWriteKnown` and what belongs to it | `inventory`, `verdict`; their ages are `InventoryExpires`, `VerdictExpires` |
| `ProbeStore.results`, preferences, `imouAuth`, `dirty`, `revision` | `results`, `prefs`, `kept`, `dirty`; `changed` says that `revision` has moved since the snapshot |
| `Probe` | `ProbeBegins`, `ProbeInfo`, `LookupInventory`, `LoadInventory`, `CacheInventory`, `ConfigWriteStatus`, `LoadRecordModes`, `CacheVerdict`, then `StoreResult` |
| `runProbeLoop`, `ProbeDevice`, `RefreshNVRInventory`, capability queries | `PollTick`, `AskProbe` |
| `RotateDeviceCredentials`, `UpdateConfig` | `AskRotate`, `UpdateDriver`, `UpdateClient`, `InvalidateInventoryCache`, `ResetConfigWriteStatus`, then a probe |
| `updateEventState`; a new Imou token | `Event`; `TokenRefresh` |
| `SaveFileWithMetadata`, `runStateStoreLoop`, `persistState` | `FlushBegins`, `FlushLocks`, `WritesFile` or `WriteFails`, `MarksClean` |
| `saveLiveSourceSettings` | `SetBegins`, `SetLocks`, `WritesFile` or `WriteFails`, `MarksClean`, `Publishes` |
| the deferred cleanup of `Run` | `Stop`, `ServerStops`, `LoopsJoin`, the last flush, `Exits` |
| the end of the process; `loadPersistedState` | `Crash`, `Restart`; `Fresh` |

Abstractions. One recorder and one result; the preferences of `SetLiveSource`, `SetDefaultLiveSource` and
`SetLivePreconnect` are one value, as they share one writer. The RPC, RTSP and ONVIF clients are reconfigured in the same
call as the CGI client and feed other fields of the result; the runtime's own copy of the configuration is a route change
in `LiveSource`. Two operators who rotate at the same moment, and so may leave `cfg` and the client's copy different for
good, are left out: one handler rotates. A preference save writes the token of the last clean save and not the client's, so
the token on file may be the older one until the next flush; nothing here says otherwise. Disk and ONVIF requests
of a probe change no state. `world.stored` is `StateStore.Enabled`; `world.unsteady` says whether requests fail by
accident and caches grow old.

`CleanIsSaved`: the dirty flag lets the flush skip its write, so clear must mean saved. `PublishedIsDurable`: what readers
see of the preferences is on file. `ExitSaves`: an orderly shutdown leaves everything on file unless its last flush
failed or a request outlived the five seconds the server gives it. `StateCatchesUp`: a configuration changed in the middle
of a probe leaves the old recorder's inventory and verdict in the caches, as `write_authority.go:24` writes them over the
reset, but not for good.

### How the modules fit together

`LiveSource` cuts an input by calling `InvalidateStream`, and assumes that afterwards the relay and the media
manager hold no input of the old source, also when a lookup is under way; `IndexAgrees`, `RegistryHonest` and
`NoStaleInput` are that promise in the other two modules. `ArchiveClips` assumes that a started job ends and leaves
its table; `MediaWorkers` has clips as one kind of worker with their share of the limit. `EventScan` is the pass
whose exports and links `ArchiveClips` calls the event sync, and the recording sync that it leaves opaque is the
cleaner there. `Save` of `LiveSource` is the whole of a preference save in `DeviceState`, whose `PublishedIsDurable` and file lock
justify taking it as one step; `RoutesChange` there is a `StoreResult` here. The modules are not put into one state space: these interfaces are calls in one direction, and
the product would be out of reach of TLC.

## 4. Runs

TLC explores the whole state space of each instance. An environment says who acts, on what, how often and which
deadlines pass. In all modules but `LiveSource` it is a variable, `world`, chosen once, which only guards what clients,
operators, failures and the clock do, so the fair specification can be checked in each. `relay_one_slot` limits its
worlds further, with a constraint, in the clients, keys, failing routes and inputs there are at a time. `live_safety`
adds the environment from outside, as *scopes* (`MCLiveSourceScopes`): a variable that never changes, and a next-state
relation without the steps that would leave the scope. Leaving out such steps loses no behaviour of the code within
the scope but makes fairness meaningless, so both are used for safety only.

| run | instance | shows |
| --- | --- | --- |
| `relay_one_slot` | `MaxStreams` 1, 2 workers; worlds: *Demand* two clients on one key with the reaper; *Heirs* the same with an input and its dying predecessor; *Evict* a warm input against a viewer of another camera; *Bounds* three failing routes; *Reroute* a client between two profiles of a camera whose source changes; *Shutdown* Close while a viewer asks, waits, is served or leaves; *Policy* two cameras, no clients, one worker at a time, settings and sources changing under the reconciler while routes fail and their backoff ends; *LastPass* the same for one camera, with Close | the counters, the maps, the limits and tables, protection of demand, no lost and no undone policy, the budget of warm starts, emptiness after Close |
| `relay_liveness` | one key, one worker, one client, modes off and recent, all deadlines but the backoff, Close | requests answered, connections gone, Close returns, unused inputs released |
| `relay_backoff` | two cameras, no client | finding: a failure inside `InvalidateStream` restores the backoff |
| `live_safety` | scopes: *Queue* two streams, two workers, queue of one, failure reports, any routes silent; *Health* two checks against two changes of preference, routes or reachability; *Turns* the same against three changes, routes staying in place; *Switch* a viewer across one change with a check; *TwoChanges* a viewer across two, without; *Snapshots* two flights across one; no override is saved at first | one check for each stream, current selections, no blind switch, viewers and snapshots follow, the recorder's own images included |
| `live_settles` | one stream, one change, fair | failover and return |
| `live_moves`, `live_torn` | one stream, two changes, fair | findings: viewers left on a source the catalog no longer names |
| `media_workers` | one stream; worlds: *Shared* two viewers of one MJPEG worker; *Changes* a source change against a request at every stage, two slots; *Live* two viewers of live HLS with a second FFmpeg attempt; *Playback* HLS and DASH outputs under a limit of one; *Sessions* WebRTC and a clip, a switch, Close; *Closing* MJPEG and HLS with Close | no worker on an old source, limits, readable outputs, no early and no missing idle stop, Close returns and leaves nothing but what could not be removed |
| `archive_clips` | worlds: *OneClip* everything that can happen to one clip, one fault; *Again* an event exported anew after a failure or a crash; *Links* a user and the sync with two clips of one event; *Chunk* two users of a downloaded chunk with a second attempt | `ClipRetention` is implemented, inputs outlive jobs, queued deletions are carried out unless the metadata is torn, stale links heal |
| `archive_orphans` | one event, one user, no fault | finding: an attempt without an owner |
| `device_state` | two configurations, two preferences, one token; worlds: *Saves* preferences, results and tokens written while writes fail, the process ends and the bridge stops, two faults; *Late* a request cut off by the shutdown; *Rotation* the configuration changed twice, at every point of a probe, without a state file; *Requests* a probe, a refresh and a capability query sharing the caches, one failed request | clean means saved, published means durable, an orderly shutdown saves everything, the store catches up with the recorder |
| `event_scan` | overlap 1, window 3, reach 9, two backfill windows a pass; worlds: *Outages* the clock may run six units, twice a window, at any moment; *Failures* a failure, crash or correction anywhere; *Requests* both syncs on a channel of two; *Both* two codes of which one may fail | no gap behind a cursor, quiet after Close, everything in reach is scanned in the end |

Why the bounds are enough to be interesting. In the relay two workers let a successor be registered while its
predecessor is still dying; one slot makes every limit bind; two clients are what it takes for one to stay while the
other leaves; the tables' limit is `2 * MaxStreams`, so with one slot three failing keys exceed it. Two live
profiles at once need two slots, which no run gives to a client: a session that tries to set up a second profile is
therefore not reached by TLC; the invariants of section 5 are proved for every `MaxStreams` and cover it. The budget of
warm starts is one for one slot as for two. In `LiveSource` three changes allow a preference to be changed, changed back and a route to fail during one
check; the code's queue of 64 and its four workers become one and two, which is the same competition. `MaxEvents`
bounds only the operator and the world, never the code. In `MediaWorkers` the hazards are pairs: two viewers, an old
worker and its successor under one key, an output and the one that replaces it, a request and a switch. In
`ArchiveClips` two clips of one record are what an export and its retry, or a link and its replacement, need; one
fault is one crash or one failed write, at every point, and properties of recovery are about what follows it. In
`EventScan` a window of three overlaps leaves a whole unit between the overlap's end and the window's, the reach of three
windows makes a pass of two backfill windows stop before its end, and six units of clock are an outage twice as long
as a window. The channel of four holds two: it is full after `Start` and one tick, as four would be after a few more. In `DeviceState` two configurations suffice to tell old from new, and two faults are two
rotations, a failed write and a crash, or a new token and an event: each pair of what can happen to a save.
Keys, workers and requests are symmetric where the cfg says so and never in the liveness runs. `CHECK_DEADLOCK` is off
for `LiveSource` alone, where nothing need happen after the last event.

What these bounds hide: a horizon of six means that no pass of `event_scan` is itself overtaken by a second long
outage while two codes are being scanned, and that a chain of outages, each longer than a window, restarts the
backfill at most once. `NoGap` is proved without the bound; `BackfillCompletes` is a statement about a clock that rests.

Fairness (`FairSpec`). Weak fairness on what the program's own goroutines, timers, tickers and deferred calls do next:
Go schedules a runnable goroutine and a timer fires. In the relay, `RecStops` is strongly fair: `select` chooses
at random among ready cases, so a context that stays cancelled is noticed. Clients, the operator and cameras owe
nothing, with two exceptions that are the libraries' promise: a cancelled handshake ends, and the session of
a dead connection ends. In `LiveSource` viewers, probes and routes owe nothing; a dead upstream is noticed by
its reader, and its report is delivered. In `MediaWorkers` a killed FFmpeg exits and the caller that switched a source
goes on to invalidate it; a request goes on, because each of its waits has a timeout; a viewer leaves only when its
channel is closed or its task sees a context end. In `ArchiveClips` FFmpeg reads a finite window and ends, the
recording sync comes round again, and `Reconcile` is strongly fair because each pass of the event sync begins with it.
In `EventScan` the ticker is strongly fair: cron fires at most once a minute and so cannot keep the channel full at
every tick; nothing is assumed of failures beyond their number, nor that the clock moves. In `DeviceState` the tickers
tick, requests end within their timeouts, caches grow old and file writes end; `FlushLocks` and `SetLocks` are strongly
fair because `sync.Mutex` hands itself to a waiter that starves. `StateCatchesUp` asks besides that the bridge is up
from some moment on.

Findings, each a run TLC must find violated:

- `relay_backoff` (`rtsprelay/server.go:232`): `InvalidateStream` clears the backoff under one hold of the mutex and
  retires under later ones. A warm worker that fails in between writes the entry again, and the new route
  waits a minute; the package's own test expects the new route warmed at once.
- `live_moves` (`app/runtime_live_source_health.go:267`): a moved route voids the selection through its signature. The
  source changes although nobody decided so, and the viewers are not reconnected.
- `live_torn` (`app/runtime.go:598`): a reader that takes the preference before a change and the selection after it
  opens a source that the stream had neither before nor after, and nobody cuts it.
- `archive_orphans` (`app/runtime_archive_export.go:226`): the metadata of an attempt is written before FFmpeg starts; an
  attempt that does not start is never tracked, and retention does not find it. The documentation says that every
  attempt has an owner.

One more disagreement has no run of its own, because it is an exception stated in a property that holds.
`bridge/docs/media-and-recording.md:268-271` says that pending deletions survive restarts and filesystem errors and that
missing clip JSON strands no MP4. Missing JSON does not; JSON torn by a full disk or a crash does: the deletion stays
queued for good and the MP4 with it. `QueuedIsCleaned` excludes such clips; without `meta[c] = "torn"` on its right TLC
finds, in `archive_clips`, a crash under a job that has ended, then the pruning that queues the clip, then passes
that skip it for ever.

## 5. Proofs

TLAPS proves the theorems below for every value of the constants, from the named assumptions of each module (finite
sets where something is counted, positive limits, `None` is no member of anything).

| module | theorem | says |
| --- | --- | --- |
| `RtspRelayProofs` | `RegistryStaysHonest`, `IndexAlwaysAgrees` | `Spec => []RegistryHonest`, `Spec => []IndexAgrees` |
| `RtspRelayCountingProofs` | `TypesHold`, `DemandAlwaysCounted`, `WarmStartsAlwaysCounted`, `StreamsStayBounded` | `TypeOK`, `DemandCounted`, `WarmStartCounted`, `StreamsBounded` |
| `RtspRelayPolicyProofs` | `WarmStaysWithinBudget`, `TablesStayBounded`, `PolicyNeverLost`, `ClosedStaysDrained`, `PolicyNeverUndone`, `DemandAlwaysProtected` | `WarmWithinBudget`, `TablesBounded`, `NoLostPolicy`, `ClosedStaysEmpty`; no step violates `PolicyNotUndone` or `DemandProtected` |
| `LiveSourceProofs` | `TypeCorrect`, `EachStreamCheckedOnce`, `SelectionsStayCurrent`, `ViewersFollow`, `SnapshotsFollow`, `NeverSwitchesBlindly` | `TypeOK`, `OneCheckEach`, `SelectionIsCurrent`, `ViewFollows`, `SnapshotFollows`; no step violates `NoBlindSwitch` |
| `MediaWorkersProofs` | `NoStaleInputHolds`, `MediaTypeOK`, `LimitsHold`, `KeptStaysReadable`, `ClosedLeavesNothingHolds`, `IdleStopEarned` | `NoStaleInput`, `TypeOK`, `WithinLimits`, `KeptIsReadable`, `ClosedLeavesNothing`; no step violates `IdleStopIsEarned` |
| `ArchiveClipsProofs` | `TypeCorrect`, `InputsOutliveJobs`, `RetentionImplemented`, `RetentionSparesReferred` | `TypeOK`, `InputOutlivesJob`; `Spec => RetentionHolds`, the refinement of `ClipRetention`; the clean-up removes no clip an event refers to |
| `EventScanProofs` | `TypeCorrect`, `IndexHasNoGap`, `ClosedStaysQuiet` | `TypeOK`, `NoGap`, `ClosedIsQuiet` |
| `DeviceStateProofs` | `TypeCorrect`, `CleanStoreIsOnFile`, `PublishedPreferencesAreOnFile`, `ShutdownSaves` | `TypeOK`, `CleanIsSaved`, `PublishedIsDurable`, `ExitSaves` |

`TypeOK` is checked by a run in `MediaWorkers` alone; elsewhere it is proved and no run checks it.

**The relay.** The inductive invariant is `Sound == Typed(Int) /\ Bonds /\ Tallies /\ StreamsBounded`.

- `Typed(Int)` lets `pendingDemand` and `preconnectStarting` be negative. That they are natural follows from
  what they count, not from the types: a decrement preserves `Typed(Int)` by itself, and `TypeOK` only
  together with the tallies.
- `Bonds == Keyed /\ RegistryHonest /\ IndexAgrees` ties the registry, the workers and the two index maps to each
  other. None is inductive alone: retiring a worker clears the index entries found through its readers and
  connections, which needs `IndexAgrees`, and that the worker found under a key is the one to unregister
  needs `RegistryHonest`.
- `Tallies == OpsNamed /\ DemandCounted /\ WarmStartCounted`: a handler names its worker exactly while it holds a
  unit, and each step changes the set counted by one element or not at all.
- `StreamsBounded` needs the bonds, since a worker is registered under one key only, and is kept by an action for
  each way of starting: a viewer's, which evicts first, and the reconciler's, which counts what is
  left.

The proof of a step has one step for each group of actions, and lemmas say once what retirement does to the maps and
what adding or removing one element does to a cardinality.

**The relay's policy.** `Decided == Leases /\ TargetsFit /\ Drained /\ Heard /\ TablesBounded` is inductive on top of
`Sound`. `Leases` says for every live worker, not only for those the registry holds, that its warm lease is the
reconciler's last decision about its key, and that whoever plays reads. `Heard` is why no policy is lost: a catalog
snapshot that is still current holds the saved mode, or the operator's call has not come as far as to void it; and whoever
has voided one is about to wake the reconciler or has left a token. `PolicyNotUndone` and `NoLostPolicy` both follow from
it. `Drained` says that what Close has not retired yet is on its list, which needs that nobody registers a worker once
`closed` is set. `DemandProtected` is a case analysis of every way to retire a worker: the reaper's and the reconciler's
compare `pendingDemand` and the players under the lock that retires.

**Live sources.** `Once` extends `OneCheckEach` to `h.queued`: what is in the queue or under a check is in that set, the
queue has no stream twice, and no checked stream is in it. So `Queued`, which looks at the set alone, cannot break it;
`QueueingTyped` and `Queueing` say so once for its five callers. `SelectionIsCurrent` is kept by `Apply` because the
revision is compared under the lock, and by `Clear` because it drops the selection with the revision. That revisions
stay within `MaxEvents` needs `Counted`: each is one of the operator's changes, and a call that has not cleared yet owes
one. `Locked` ties the lock to the call, the cutting worker and the invalidation; without its last line, that an
operator's call has no invalidation before it has listed the streams, `SaveFails` could release the lock over one.

What viewers and snapshots show needs a second invariant, `Follow`, because nothing stores the source of a stream: every
reader derives it. It speaks of the streams whose routes have not moved. `Signed`: a published selection is for the stored
preference, or the operator's call has saved the new one and is about to drop it. `Aimed`: a check whose revision is still
the stream's began with the source the catalog names, so that `Apply` compares `Decision` with the truth, and cuts whenever
it changes it; `NoBlindSwitch` follows from it as well. `CallFits`: what the operator's call read when it took the lock
was the source named then, and from there to its second reading the source is either that one or the one the new preference
gives, so the streams whose source `Relist` finds unequal are all that have to be cut. `ReadsTrue`: a reader midway holds a
preference and routes that are still the stored ones, or is torn. `Finds` puts them together: what was found is what is named
now, or what the call read first, or somebody is about to cut it. Most actions change none of what `Effective` looks at, and
`Even` says so once for all of them. The theorems assume `NoneAssumption`, that `None` is no selection and no invalidation.
`SnapshotFollows` needs a little more for the recorder's own images, `Fresh`: the flight a channel knows has
seen no invalidation. `CutSnapshot` keeps it, as it forgets the flight it drops.

**Media workers.** `NoStaleInput` speaks of the moment when nothing is pending, which is not inductive. A stream's
generation counts its invalidations and `src` its changes: `Announced` says that the difference is `pending`.
`ReadInOrder` says that a request that read its generation first resolves a source at least as new, and `Current` that
a registered worker's source lies between the last invalidation and now. Registration keeps `Current` because the
generation is compared under the lock (`Admitted`); `InvalidateStream` keeps it because it takes the stream's
workers out in the same critical section that raises the generation. When nothing is pending the bounds meet.
Every other action is an instance of `FrameStep`: it registers nothing, resolves nothing and changes no source.

The limits, the kept outputs, Close and the idle stop have one more invariant, `Tidy`. `Fit` says of one worker by itself what
its stage implies: a completed one has ended, one that has ended holds no timer and no ticker, a
directory that is still to be removed has a cleanup task to do it. `Listed` says that a worker requests can find has not ended, unless its output is kept; `Queued` that
the queue of finished outputs has one entry for each key, each with its cleanup task; `Offered` that a WebRTC worker under
negotiation has one request, so that a failed offer ends the worker it made and no other. `WithinLimits` is part of `Tidy`
and not a consequence: that the count of running workers grows by an admission only needs that nothing which has ended
goes back to running. Each action is shown once to be of a few kinds (`Follows` for a worker that goes on, a
registration, a retirement), and the invariants are proved for the kinds. The attempt found a slip of an earlier version of
this model: the slot of an ended worker could be used for a new one while a request still held the old, two objects
that the code tells apart. `Free` now says who may still hold it.

**Archive clips.** `InputOutlivesJob` needs to know who holds a job before it is launched: `Launching` says that the
request does, alone, and that the job still waits for it; `Kept` extends the property to that job. A clip ID is used
once (`Next1`), so the input that a finished or abandoned job gives back is nobody else's.

`RetentionImplemented` is a simulation: every step of `ArchiveClips` from a state of the invariant is a step of
`ClipRetention` under `Life`, or changes neither `Life` nor `link`. The invariant `RInv` says what the steps rely on:
whatever a table or a link names has been issued (`Known`, `Shelved`), no record refers to a clip whose deletion is queued
(`Unlinked`), and the cleaner has removed what it has passed, of a clip nobody records any more (`Cleaning`). So the row
that `finishClipCleanup` deletes is the end of a clip of which nothing is left. The attempt showed that one crash ends the
lives of several clips at a time, which the abstract specification, written with one clip a step, did not allow; `Erase` says it
now.

**The event index.** `NoGap` is about saved cursors; the pass holds one that is not saved yet. `Sound` says that this
cursor is honest up to the window under way, and `Stamped` that it bears the pass's time. The arithmetic of windows,
outages and clock corrections is in `RecentCovers` and in the lemmas about one action each. `ClosedIsQuiet` is
inductive with the types, since after `Close` every start is refused.

**The device state.** `FileInv` adds five facts to `CleanIsSaved` and `PublishedIsDurable`. One writer holds the file
lock (`OneWriter`), and the file is its snapshot once it has written (`Written`). Its snapshot holds the store's results
unless something `changed` since (`Current`), and what changed left the store dirty (`Noticed`), so that a writer never
marks clean what it did not save. A flush carries the published preferences (`Carried`), because only the other writer
replaces them, and it keeps the lock until it has published. `ExitSaves` needs the order of the shutdown: after
`LoopsJoin` nobody is left to write the store but a request that was given up, which is what `forced` records.

Only model-checked: the properties of the findings, which do not hold, and every liveness property (liveness under
fairness and `ENABLED` are outside this prover's reach).

## 6. What is not modelled

`PROJECT.json` lists every component with its state. Not modelled, with a protocol of their own but a small one:

- the RPC client's login: what matters is how a device answers a half-confirmed session, which this repository does not
  say;
- playback sessions, the recording cache and the rate limiter: every operation is one critical section on one map.

Not modelled because there is no protocol to check: the rest of the NVR driver, the VTO and IPC drivers, the retry delays of
the event loops, the stream catalog, the HTTP pages and
handlers, configuration, ffmpeg command lines and log parsing, SQL text, metrics and the two user interfaces. These are
most of the repository's lines; they translate or format, and what they ask of the modelled parts appears there as the
actions of clients, devices and operators.
