----------------------------- MODULE DeviceState -----------------------------
(***************************************************************************)
(* What the bridge knows of a recorder, and the state file that keeps it:  *)
(* bridge/internal/store (store.go, live_source.go, live_preconnect.go),   *)
(* the probe path and the caches of dahua/nvr/driver.go and                *)
(* write_authority.go, app/admin_actions.go, and the loops and the         *)
(* shutdown of app/app.go.                                                 *)
(*                                                                         *)
(* A poll loop and admin requests probe the recorder.  A probe is a        *)
(* sequence of requests, each made with the configuration the CGI client   *)
(* has at that moment, around two caches of fifteen minutes: the channel   *)
(* inventory and the verdict on configuration writes.  An operator may     *)
(* change the configuration between any two of them.  The results, the     *)
(* operator's live preferences and the Imou token are written to one file, *)
(* periodically, on every change of a preference and when the bridge       *)
(* stops; the process may end at any point.                                *)
(*                                                                         *)
(* A result is abstracted to where its parts come from: the configuration  *)
(* the probe began with, the one that answered its first request, those    *)
(* that answered the inventory, and the one the verdict is about.          *)
(***************************************************************************)
EXTENDS Naturals

CONSTANTS
    Configs,     \* device configurations: address and login
    Home,        \* the one in the configuration file
    Prefs,       \* live source and warm-up preferences, as one value
    Default,     \* the ones of a new installation
    Tokens,      \* Imou access tokens
    Handlers,    \* admin requests in progress
    None, Failed,
    Worlds       \* the environments explored, see WorldType

\* handlers: the requests there are, for ops; stored: cfg.StateStore.Enabled; sets, stops: whether
\* preferences are saved and the application stops; unsteady: whether requests to the recorder
\* fail by accident and caches grow old; faults: bound on failed requests and
\* writes, crashes, device events, new configurations and new tokens together.
WorldType == [handlers : SUBSET Handlers, ops : SUBSET {"probe", "refresh", "rotate", "ask"},
              stored : BOOLEAN, sets : BOOLEAN, stops : BOOLEAN, unsteady : BOOLEAN, faults : Nat]

ASSUME ValuesAssumption ==
    /\ Home \in Configs /\ Default \in Prefs
    /\ None \notin Configs \cup Tokens \cup Prefs /\ Failed \notin Configs \cup {None}
    /\ "poll" \notin Handlers
ASSUME WorldsAssumption == Worlds \subseteq WorldType

VARIABLES
    phase,       \* how far the shutdown of app.Run is
    cfg,         \* Driver.cfg
    client,      \* what the CGI client is configured with
    inventory,   \* cachedInventory: the configurations that answered it, {} without one
    verdict,     \* configWriteAllowed: the configuration it is about, None unless known
    job,         \* the probes and the admin requests
    results,     \* ProbeStore.results of the recorder
    prefs,       \* liveSources, defaultLiveSource and livePreconnect
    kept,        \* ProbeStore.imouAuth
    dirty,       \* ProbeStore.dirty
    changed,     \* ProbeStore.revision is no longer that of the snapshot being written
    save,        \* the two kinds of writers of the file
    disk,        \* the state file
    token,       \* the Imou client's token
    forced,      \* Shutdown gave up waiting for a request
    failed,      \* the last flush returned an error
    faults,      \* what may still go wrong or be changed
    world

driverVars == <<cfg, client, inventory, verdict, job>>
storeVars == <<results, prefs, kept, dirty, changed>>
fileVars == <<save, disk, failed>>
appVars == <<phase, token, forced, world>>
vars == <<driverVars, storeVars, fileVars, appVars, faults>>

Probers == {"poll"} \cup Handlers
Savers == {"flush", "set"}
Phases == {"up", "stopping", "joining", "final", "flushing", "exited"}
Token == Tokens \cup {None}

\* info: whom the first request was answered by; inventory: {} when it could not be read;
\* active: the state an event has reported since.
Result == [cfg : Configs, info : Configs, inventory : SUBSET Configs,
           verdict : Configs \cup {Failed}, active : BOOLEAN]
Snapshot == [results : Result \cup {None}, prefs : Prefs, token : Token]

\* Between two steps a probe holds what it has read.  next: the new configuration of a rotation.
JobType == [pc : {"idle", "cfg", "client", "drop", "reset", "begin", "info", "inventory", "channels",
                  "remote", "cache", "status", "modes", "judge", "store"},
            next : Configs \cup {None}, cfg : Configs \cup {None}, info : Configs \cup {None},
            inventory : SUBSET Configs, verdict : Configs \cup {Failed, None}]
SaveType == [pc : {"idle", "queued", "write", "mark", "publish"},
             arg : Token \cup Prefs, snap : Snapshot \cup {None}]

NoJob == [pc |-> "idle", next |-> None, cfg |-> None, info |-> None, inventory |-> {},
          verdict |-> None]
NoSave == [pc |-> "idle", arg |-> None, snap |-> None]

Fault == faults > 0 /\ faults' = faults - 1
\* A request fails by accident, or because its context is cancelled.
RequestFails == IF phase = "up" THEN world.unsteady /\ Fault ELSE UNCHANGED faults
-----------------------------------------------------------------------------
(* Driver: rotation of the configuration, caches, probe. *)

DriverOnly == UNCHANGED <<storeVars, fileVars, appVars>>
At(p, pc) == job[p].pc = pc
Goto(p, pc) == job' = [job EXCEPT ![p].pc = pc]

\* A new request is accepted until the server shuts down.
Serves(p) == At(p, "idle") /\ p \in world.handlers /\ phase \in {"up", "stopping"}

PollTick ==
    /\ At("poll", "idle") /\ phase \in {"up", "stopping", "joining"}
    /\ Goto("poll", "begin")
    /\ DriverOnly /\ UNCHANGED <<cfg, client, inventory, verdict, faults>>

AskProbe(h) ==
    /\ Serves(h)
    /\ \/ "probe" \in world.ops /\ Goto(h, "begin")
       \/ "refresh" \in world.ops /\ Goto(h, "drop")
       \/ "ask" \in world.ops /\ Goto(h, "status")
    /\ DriverOnly /\ UNCHANGED <<cfg, client, inventory, verdict, faults>>

AskRotate(h) ==
    /\ Serves(h) /\ "rotate" \in world.ops /\ Fault
    /\ \E c \in Configs : job' = [job EXCEPT ![h] = [@ EXCEPT !.pc = "cfg", !.next = c]]
    /\ DriverOnly /\ UNCHANGED <<cfg, client, inventory, verdict>>

\* UpdateConfig, lock by lock.
UpdateDriver(h) ==
    /\ At(h, "cfg") /\ cfg' = job[h].next /\ Goto(h, "client")
    /\ DriverOnly /\ UNCHANGED <<client, inventory, verdict, faults>>

UpdateClient(h) ==
    /\ At(h, "client") /\ client' = job[h].next /\ Goto(h, "drop")
    /\ DriverOnly /\ UNCHANGED <<cfg, inventory, verdict, faults>>

InvalidateInventoryCache(h) ==
    /\ At(h, "drop") /\ inventory' = {}
    /\ Goto(h, IF job[h].next = None THEN "begin" ELSE "reset")
    /\ DriverOnly /\ UNCHANGED <<cfg, client, verdict, faults>>

ResetConfigWriteStatus(h) ==
    /\ At(h, "reset") /\ verdict' = None
    /\ job' = [job EXCEPT ![h] = [NoJob EXCEPT !.pc = "begin"]]
    /\ DriverOnly /\ UNCHANGED <<cfg, client, inventory, faults>>

Rotates(h) ==
    UpdateDriver(h) \/ UpdateClient(h) \/ InvalidateInventoryCache(h) \/ ResetConfigWriteStatus(h)

ProbeBegins(p) ==
    /\ At(p, "begin")
    /\ job' = [job EXCEPT ![p] = [@ EXCEPT !.pc = "info", !.cfg = cfg]]
    /\ DriverOnly /\ UNCHANGED <<cfg, client, inventory, verdict, faults>>

\* The first request decides whether there is a result at all.
ProbeInfo(p) ==
    /\ At(p, "info")
    /\ \/ job' = [job EXCEPT ![p] = [@ EXCEPT !.pc = "inventory", !.info = client]]
          /\ UNCHANGED faults
       \/ RequestFails /\ job' = [job EXCEPT ![p] = NoJob]
    /\ DriverOnly /\ UNCHANGED <<cfg, client, inventory, verdict>>

LookupInventory(p) ==
    /\ At(p, "inventory")
    /\ IF inventory = {} THEN Goto(p, "channels")
       ELSE job' = [job EXCEPT ![p] = [@ EXCEPT !.pc = "status", !.inventory = inventory]]
    /\ DriverOnly /\ UNCHANGED <<cfg, client, inventory, verdict, faults>>

\* The channels (two requests of one fate) and the cameras' addresses, which may be missing.
After == [channels |-> "remote", remote |-> "cache"]
Answered(j) == [j EXCEPT !.pc = After[j.pc], !.inventory = j.inventory \cup {client}]

LoadInventory(p) ==
    /\ job[p].pc \in DOMAIN After
    /\ \/ job' = [job EXCEPT ![p] = Answered(@)]
          /\ UNCHANGED faults
       \/ RequestFails /\ IF At(p, "remote") THEN Goto(p, "cache")
                          ELSE job' = [job EXCEPT ![p] = [@ EXCEPT !.pc = "status",
                                                                   !.inventory = {}]]
    /\ DriverOnly /\ UNCHANGED <<cfg, client, inventory, verdict>>

CacheInventory(p) ==
    /\ At(p, "cache") /\ inventory' = job[p].inventory /\ Goto(p, "status")
    /\ DriverOnly /\ UNCHANGED <<cfg, client, verdict, faults>>

\* A probe goes on with its verdict, a capability query ends.
Judged(j, v) == IF j.cfg = None THEN NoJob ELSE [j EXCEPT !.pc = "store", !.verdict = v]

ConfigWriteStatus(p) ==
    /\ At(p, "status")
    /\ IF verdict = None THEN Goto(p, "modes")
       ELSE job' = [job EXCEPT ![p] = Judged(@, verdict)]
    /\ DriverOnly /\ UNCHANGED <<cfg, client, inventory, verdict, faults>>

LoadRecordModes(p) ==
    /\ At(p, "modes")
    /\ \E v \in {client, Failed} :
         /\ job' = [job EXCEPT ![p] = [@ EXCEPT !.pc = "judge", !.verdict = v]]
         /\ IF v = Failed THEN RequestFails ELSE UNCHANGED faults
    /\ DriverOnly /\ UNCHANGED <<cfg, client, inventory, verdict>>

\* Whatever was known, or reset, meanwhile.
CacheVerdict(p) ==
    /\ At(p, "judge") /\ verdict' = job[p].verdict
    /\ job' = [job EXCEPT ![p] = Judged(@, @.verdict)]
    /\ DriverOnly /\ UNCHANGED <<cfg, client, inventory, faults>>

\* The slip: the verdict is believed until the next change of the configuration.
VerdictExpires_Never == FALSE /\ UNCHANGED vars

\* nvrConfigWriteCacheTTL.
VerdictExpires ==
    /\ world.unsteady /\ verdict # None /\ verdict' = None
    /\ DriverOnly /\ UNCHANGED <<cfg, client, inventory, job, faults>>

InventoryExpires ==
    /\ world.unsteady /\ inventory # {} /\ inventory' = {}
    /\ DriverOnly /\ UNCHANGED <<cfg, client, verdict, job, faults>>
-----------------------------------------------------------------------------
(* Store. *)

MarkDirty == dirty' = TRUE /\ changed' = TRUE

\* ProbeStore.Set: the new result replaces what events had reported.
StoreResult(p) ==
    /\ At(p, "store")
    /\ results' = [cfg |-> job[p].cfg, info |-> job[p].info, inventory |-> job[p].inventory,
                   verdict |-> job[p].verdict, active |-> FALSE]
    /\ MarkDirty
    /\ job' = [job EXCEPT ![p] = NoJob]
    /\ UNCHANGED <<cfg, client, inventory, verdict, prefs, kept, fileVars, appVars, faults>>

\* ProbeStore.Update.
Event ==
    /\ phase \in {"up", "stopping", "joining"} /\ results # None /\ Fault
    /\ \E on \in BOOLEAN : results' = [results EXCEPT !.active = on]
    /\ MarkDirty
    /\ UNCHANGED <<driverVars, prefs, kept, fileVars, appVars>>

TokenRefresh ==
    /\ phase \in {"up", "stopping", "joining"} /\ Fault
    /\ \E t \in Tokens \ {token} : token' = t
    /\ UNCHANGED <<driverVars, storeVars, fileVars, phase, forced, world>>
-----------------------------------------------------------------------------
(* The state file: fileMu is held from the snapshot to the end of the write. *)

Holding == {"write", "mark", "publish"}
Free == \A s \in Savers : save[s].pc \notin Holding
Saving(s, pc) == save[s].pc = pc
Ends(s) == save' = [save EXCEPT ![s] = NoSave]

\* The token is exported before the lock is taken.
FlushBegins ==
    /\ Saving("flush", "idle") /\ phase \in {"up", "stopping", "joining", "final"} /\ world.stored
    /\ save' = [save EXCEPT !["flush"] = [NoSave EXCEPT !.pc = "queued", !.arg = token]]
    /\ phase' = IF phase = "final" THEN "flushing" ELSE phase
    /\ UNCHANGED <<driverVars, storeVars, disk, failed, token, forced, world, faults>>

\* A clean store whose token is on file has nothing to write.
Unsaved(t) == dirty \/ kept # t

FlushLocks ==
    /\ Saving("flush", "queued") /\ Free
    /\ LET t == save["flush"].arg IN
         save' = [save EXCEPT !["flush"] =
             IF Unsaved(t)
             THEN [NoSave EXCEPT !.pc = "write",
                                 !.snap = [results |-> results, prefs |-> prefs, token |-> t]]
             ELSE NoSave]
    /\ changed' = FALSE /\ failed' = FALSE
    /\ UNCHANGED <<driverVars, results, prefs, kept, dirty, disk, appVars, faults>>

\* SetLiveSource, SetDefaultLiveSource and SetLivePreconnect, one at a time under liveSourceMu.
SetBegins ==
    /\ Saving("set", "idle") /\ world.sets /\ world.stored /\ phase \in {"up", "stopping"} /\ Fault
    /\ \E p \in Prefs : save' = [save EXCEPT !["set"] = [NoSave EXCEPT !.pc = "queued", !.arg = p]]
    /\ UNCHANGED <<driverVars, storeVars, disk, failed, appVars>>

SetLocks ==
    /\ Saving("set", "queued") /\ Free
    /\ save' = [save EXCEPT !["set"] =
           [NoSave EXCEPT !.pc = "write",
                          !.snap = [results |-> results, prefs |-> save["set"].arg, token |-> kept]]]
    /\ changed' = FALSE
    /\ UNCHANGED <<driverVars, results, prefs, kept, dirty, disk, failed, appVars, faults>>

\* A temporary file is renamed: the old file stays until the new one is whole.
WritesFile(s) ==
    /\ Saving(s, "write") /\ disk' = save[s].snap
    /\ save' = [save EXCEPT ![s].pc = "mark"]
    /\ UNCHANGED <<driverVars, storeVars, failed, appVars, faults>>

\* The slip: the new preference is published although it could not be written.
AfterError_Publish(s) ==
    save' = [save EXCEPT ![s] = IF s = "set" THEN [@ EXCEPT !.pc = "publish"] ELSE NoSave]

AfterError(s) == Ends(s)

WriteFails(s) ==
    /\ Saving(s, "write") /\ Fault
    /\ AfterError(s)
    /\ failed' = (failed \/ s = "flush")
    /\ UNCHANGED <<driverVars, storeVars, disk, appVars>>

\* The slip: the store is clean after every write.
Covered_Always == TRUE

\* Nothing has changed since the snapshot.
Covered == ~changed

\* The end of writeFile.
MarksClean(s) ==
    /\ Saving(s, "mark")
    /\ dirty' = (dirty /\ ~Covered)
    /\ kept' = IF Covered THEN save[s].snap.token ELSE kept
    /\ IF s = "set" THEN save' = [save EXCEPT ![s].pc = "publish"] ELSE Ends(s)
    /\ UNCHANGED <<driverVars, results, prefs, changed, disk, failed, appVars, faults>>

\* The end of saveLiveSourceSettings.
Publishes ==
    /\ Saving("set", "publish") /\ prefs' = save["set"].snap.prefs /\ MarkDirty
    /\ Ends("set")
    /\ UNCHANGED <<driverVars, results, kept, disk, failed, appVars, faults>>
-----------------------------------------------------------------------------
(* Shutdown, crash and start of the application. *)

Busy(h) == ~At(h, "idle")
RequestsLeft == (\E h \in Handlers : Busy(h)) \/ ~Saving("set", "idle")

Stop ==
    /\ phase = "up" /\ world.stops /\ phase' = "stopping"
    /\ UNCHANGED <<driverVars, storeVars, fileVars, token, forced, world, faults>>

\* adminServer.Shutdown waits five seconds for requests, then closes their connections.
ServerStops ==
    /\ phase = "stopping" /\ phase' = "joining" /\ forced' = RequestsLeft
    /\ UNCHANGED <<driverVars, storeVars, fileVars, token, world, faults>>

\* The slip: the loops are not waited for.
Joined_Early == TRUE

\* driverWG.Wait and persistenceWG.Wait.
Joined == At("poll", "idle") /\ Saving("flush", "idle")

LoopsJoin ==
    /\ phase = "joining" /\ Joined /\ phase' = "final"
    /\ UNCHANGED <<driverVars, storeVars, fileVars, token, forced, world, faults>>

Exits ==
    /\ phase = (IF world.stored THEN "flushing" ELSE "final") /\ Saving("flush", "idle")
    /\ phase' = "exited"
    /\ UNCHANGED <<driverVars, storeVars, fileVars, token, forced, world, faults>>

\* A new process: NewProbeStore, LoadFileWithMetadata and ImportAuthState.
Fresh ==
    /\ phase' = "up" /\ forced' = FALSE /\ failed' = FALSE
    /\ cfg' = Home /\ client' = Home /\ inventory' = {} /\ verdict' = None
    /\ job' = [p \in Probers |-> NoJob]
    /\ results' = disk.results /\ prefs' = disk.prefs /\ kept' = disk.token /\ token' = disk.token
    /\ dirty' = FALSE /\ changed' = FALSE
    /\ save' = [s \in Savers |-> NoSave]
    /\ UNCHANGED <<disk, world>>

Crash == phase # "exited" /\ Fault /\ Fresh
Restart == phase = "exited" /\ Fresh /\ UNCHANGED faults
-----------------------------------------------------------------------------
Init ==
    /\ world \in Worlds /\ faults = world.faults
    /\ phase = "up" /\ forced = FALSE /\ failed = FALSE
    /\ cfg = Home /\ client = Home /\ inventory = {} /\ verdict = None
    /\ job = [p \in Probers |-> NoJob]
    /\ results = None /\ prefs = Default /\ kept = None /\ token = None
    /\ dirty = FALSE /\ changed = FALSE
    /\ save = [s \in Savers |-> NoSave]
    /\ disk = [results |-> None, prefs |-> Default, token |-> None]

ProbeStep(p) ==
    \/ ProbeBegins(p) \/ ProbeInfo(p) \/ LookupInventory(p) \/ LoadInventory(p) \/ CacheInventory(p)
    \/ ConfigWriteStatus(p) \/ LoadRecordModes(p) \/ CacheVerdict(p) \/ StoreResult(p)
HandlerStep(h) == AskProbe(h) \/ AskRotate(h) \/ Rotates(h)
FileStep(s) == WritesFile(s) \/ WriteFails(s) \/ MarksClean(s)
Locks == FlushLocks \/ SetLocks
Shutdown == Stop \/ ServerStops \/ LoopsJoin \/ Exits

Next ==
    \/ PollTick \/ \E p \in Probers : ProbeStep(p)
    \/ \E h \in Handlers : HandlerStep(h)
    \/ VerdictExpires \/ InventoryExpires \/ Event \/ TokenRefresh
    \/ FlushBegins \/ SetBegins \/ Locks \/ Publishes \/ \E s \in Savers : FileStep(s)
    \/ Shutdown \/ Crash \/ Restart

Spec == Init /\ [][Next]_vars

\* The tickers tick, requests end within their timeouts, caches grow old, file writes end and
\* sync.Mutex is starvation-free.  Nothing is assumed of operators, events and failures.
FairSpec ==
    /\ Spec
    /\ WF_vars(PollTick \/ ProbeStep("poll"))
    /\ \A h \in Handlers : WF_vars(Rotates(h) \/ ProbeStep(h))
    /\ WF_vars(VerdictExpires) /\ WF_vars(InventoryExpires)
    /\ WF_vars(FlushBegins \/ FileStep("flush")) /\ WF_vars(FileStep("set") \/ Publishes)
    /\ SF_vars(FlushLocks) /\ SF_vars(SetLocks)
-----------------------------------------------------------------------------
(* Properties. *)

\* What a probe has read by the time a step needs it; a query has no configuration of its own.
Ready(j) ==
    /\ j.pc = "idle" => j = NoJob
    /\ j.pc \in {"cfg", "client"} => j.next # None
    /\ j.pc \in {"info", "inventory", "channels", "remote", "cache", "store"} => j.cfg # None
    /\ j.pc \in {"inventory", "channels", "remote", "cache", "store"} => j.info # None
    /\ j.pc \in {"status", "modes", "judge"} /\ j.cfg # None => j.info # None
    /\ j.pc \in {"judge", "store"} => j.verdict # None

\* A writer with the lock has a snapshot, a waiting one what it is to write.
Armed(s) ==
    /\ save[s].pc \in Holding => save[s].snap \in Snapshot
    /\ save[s].pc = "queued" => save[s].arg \in IF s = "set" THEN Prefs ELSE Token

\* The driver's caches, the store and the file hold what store.go and driver.go keep in them, and
\* no step uses what an earlier one has not read (driver.go Probe, store.go writeFile).
TypeOK ==
    /\ world \in Worlds /\ faults \in Nat /\ phase \in Phases
    /\ cfg \in Configs /\ client \in Configs
    /\ inventory \in SUBSET Configs /\ verdict \in Configs \cup {Failed, None}
    /\ job \in [Probers -> JobType] /\ \A p \in Probers : Ready(job[p])
    /\ results \in Result \cup {None} /\ prefs \in Prefs /\ kept \in Token /\ token \in Token
    /\ dirty \in BOOLEAN /\ changed \in BOOLEAN /\ forced \in BOOLEAN /\ failed \in BOOLEAN
    /\ save \in [Savers -> SaveType] /\ \A s \in Savers : Armed(s)
    /\ disk \in Snapshot

\* A store that counts as clean is on file: the flag lets the periodic flush skip its write
\* (store.go:139-142), so a result that arrives while the file is written must not be taken for
\* saved, whichever of the writers wrote and however the writes failed.
CleanIsSaved ==
    ~dirty => /\ disk.results = results
              /\ disk.token = kept \/ \E s \in Savers : Saving(s, "mark")

\* A preference is published only once it is on file: what readers of the settings have seen is
\* what a restart reads, unless a newer one has just been written ("publishes the new preference
\* only after the snapshot has been written successfully", store/live_source.go:22-23).
PublishedIsDurable == prefs # disk.prefs => save["set"].pc \in {"mark", "publish"}

\* A shutdown loses nothing: when app.Run returns, everything the loops and the requests have
\* stored is on file, unless the final flush failed or a request outlived the server's deadline
\* (app.go:63-88, "every exit ... owns the same cleanup").
ExitSaves ==
    phase = "exited" /\ world.stored /\ ~failed /\ ~forced =>
        disk = [results |-> results, prefs |-> prefs, token |-> token]

\* What the file says in the end: everything from one configuration.
Settled == [cfg |-> cfg, info |-> client, inventory |-> {client}, verdict |-> client,
            active |-> FALSE]

\* The store catches up with the recorder: a configuration changed in the middle of a probe may
\* leave an inventory and a verdict of the old recorder in the caches and in the store, but not
\* for good, and what is stored reaches the file (write_authority.go:24-30, driver.go:1604-1607,
\* app.go:195-203).
StateCatchesUp ==
    <>[](phase = "up") => <>[](results = Settled /\ (world.stored => disk.results = results))
=============================================================================
