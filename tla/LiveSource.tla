----------------------------- MODULE LiveSource -----------------------------
(***************************************************************************)
(* Which upstream a live stream comes from: the recorder ("nvr") or the    *)
(* camera itself.  bridge/internal/app/runtime_live_source.go and          *)
(* runtime_live_source_health.go, with the catalog rule of                 *)
(* streams/live_source.go and the snapshot flight of runtime.go.           *)
(*                                                                         *)
(* Three parties decide about one stream.  The operator sets a preference. *)
(* Health workers probe the routes and select the other one while the      *)
(* preferred one is down.  Device probes move the routes themselves.       *)
(* Nothing stores the outcome: each reader of the catalog derives it, from *)
(* a preference, a route list and a selection it reads one after another.  *)
(* Viewers and snapshots keep what they derived until InvalidateStream.    *)
(*                                                                         *)
(* liveSourceMu is the variable lock.  Network probes happen outside it,   *)
(* so everything may change between the two halves of a check.             *)
(***************************************************************************)
EXTENDS Integers, Sequences, FiniteSets

CONSTANTS
    Streams,     \* the recorder's channels
    Workers,     \* the health workers (liveSourceHealthWorkers goroutines)
    Requests,    \* concurrent NVRSnapshot calls, for any stream
    Layouts,     \* what a device probe can find: [nvr |-> url, camera |-> url or None]
    Watched,     \* the streams somebody watches
    Unprobed,    \* the streams whose first probe may not be stored when the bridge starts
    QueueCap,    \* capacity of liveHealth.queue
    Choices,     \* the preferences the operator sets
    MaxEvents,   \* bound: changes by the operator and the world in one behaviour
    None

Sources == {"nvr", "camera"}
Urls == (UNION {{l.nvr, l.camera} : l \in Layouts}) \ {None}

\* liveSourceHealthState: a selection and the routes that cool down; madeAt is history, the
\* revision of the check that made it.
Selections == [source : Sources, signature : Sources \X Layouts, cooling : SUBSET Sources,
               madeAt : 0..MaxEvents]

ASSUME StreamsAssumption == Unprobed \subseteq Streams /\ Watched \subseteq Streams
ASSUME QueueAssumption == QueueCap \in Nat \ {0}
ASSUME EventsAssumption == MaxEvents \in Nat
ASSUME ChoicesAssumption == Choices \subseteq Sources \cup {"default"}
ASSUME LayoutsAssumption ==
    \A l \in Layouts : DOMAIN l = Sources /\ l.nvr # None /\ l.nvr # l.camera
ASSUME NamesAssumption ==
    /\ None \notin Streams \cup Workers \cup Requests \cup Layouts
    /\ "operator" \notin Workers \cup {None}
ASSUME NoneAssumption ==
    /\ None \notin Sources /\ None \notin Selections
    /\ None \notin [stream : Streams, at : {"snapshot", "view"}]

VARIABLES
    default,     \* ProbeStore.defaultLiveSource
    override,    \* ProbeStore.liveSources, None where a stream inherits the default
    urls,        \* the routes of each stream in the stored probes, None before the first
    moved,       \* history: the streams whose routes have changed
    alive,       \* the URLs that accept an authenticated DESCRIBE
    h,           \* runtimeServices.liveHealth
    job,         \* the local variables of each runLiveSourceHealthWorker
    lock,        \* the holder of liveSourceMu
    call,        \* the operator's SetStreamLiveSource or SetDefaultLiveSource
    cut,         \* where invalidateLiveSource is
    view,        \* the live upstream of each stream (relay or media worker)
    late,        \* failure reports on their way to ReportLiveSourceFailure
    cache,       \* snapshotCache
    flight,      \* snapshotFlight: the request that owns the flight
    request,     \* where each NVRSnapshot call is
    dropped,     \* history: the calls whose flight an invalidation has dropped
    events       \* how many of MaxEvents are spent

vars == <<default, override, urls, alive, moved, h, job, lock, call, cut, view, late,
          cache, flight, request, dropped, events>>
settings == <<default, override>>
world == <<urls, alive, moved>>
watching == <<view, late>>
snapshots == <<cache, flight, request, dropped>>
control == <<job, lock, call, cut>>

Spent == events < MaxEvents /\ events' = events + 1

-----------------------------------------------------------------------------
(* The catalog rule: streams.applyNVRLiveSource. *)

PreferredUnder(d, o, s) == IF o[s] = None THEN d ELSE o[s]
Preferred(s) == PreferredUnder(default, override, s)
Other(source) == IF source = "camera" THEN "nvr" ELSE "camera"

\* A selection counts only for the preference and the routes it was made for
\* (LiveSourceSignature).
Effective(preferred, routes, chosen) ==
    IF /\ chosen # None
       /\ chosen.signature = <<preferred, routes>>
       /\ routes[chosen.source] # None
    THEN chosen.source
    ELSE IF routes[preferred] = None THEN "nvr" ELSE preferred

Present(s) == urls[s] # None
Source(s) == Effective(Preferred(s), urls[s], h.states[s])
Url(s) == urls[s][Source(s)]
Signature(s) == <<Preferred(s), urls[s]>>

-----------------------------------------------------------------------------
(* liveHealth: a bounded queue of streams, at most one entry for each. *)

\* queueLiveSourceHealth: a stream that waits is not queued twice, and a report that finds
\* the queue full is dropped.
Queued(hh, s, url) ==
    LET noted == IF url = None THEN hh ELSE [hh EXCEPT !.failures[s] = url]
    IN  IF hh.phase # "on" THEN hh
        ELSE IF s \in hh.queued THEN noted
        ELSE IF Len(hh.queue) < QueueCap
        THEN [noted EXCEPT !.queue = Append(@, s), !.queued = @ \cup {s}]
        ELSE [noted EXCEPT !.failures[s] = None]

Cleared(hh, S) ==
    [hh EXCEPT !.states = [s \in Streams |-> IF s \in S THEN None ELSE @[s]],
               !.failures = [s \in Streams |-> IF s \in S THEN None ELSE @[s]],
               !.revisions = [s \in Streams |-> IF s \in S THEN @[s] + 1 ELSE @[s]]]

Idle == [pc |-> "idle"]

StartHealth ==
    /\ h.phase = "new"
    /\ h' = [h EXCEPT !.phase = "on"]
    /\ UNCHANGED <<settings, world, control, watching, snapshots, events>>

\* The context is cancelled at shutdown: workers leave at their next check of it.
StopHealth ==
    /\ h.phase = "on"
    /\ Spent
    /\ h' = [h EXCEPT !.phase = "off"]
    /\ UNCHANGED <<settings, world, control, watching, snapshots>>

\* The 15 s ticker reaches this stream.
Tick(s) ==
    /\ h.phase = "on"
    /\ Present(s)
    /\ h' = Queued(h, s, None)
    /\ h' # h
    /\ UNCHANGED <<settings, world, control, watching, snapshots, events>>

\* liveSourceFailureCooldown passes for a route that failed.
CooldownEnds(s, source) ==
    /\ h.states[s] # None /\ source \in h.states[s].cooling
    /\ h' = [h EXCEPT !.states[s].cooling = @ \ {source}]
    /\ UNCHANGED <<settings, world, control, watching, snapshots, events>>

-----------------------------------------------------------------------------
(* A health worker: take, snapshot, probe outside the lock, apply, cut. *)

\* Slip: the stream counts as dequeued while it is checked.
Take_Unqueues(w) ==
    /\ job[w] = Idle
    /\ h.phase = "on"
    /\ h.queue # <<>>
    /\ LET s == Head(h.queue) IN
       /\ job' = [job EXCEPT ![w] = [pc |-> "taken", stream |-> s, failed |-> h.failures[s]]]
       /\ h' = [h EXCEPT !.queue = Tail(@), !.queued = @ \ {s}, !.failures[s] = None]
    /\ UNCHANGED <<settings, world, lock, call, cut, watching, snapshots, events>>

Take(w) ==
    /\ job[w] = Idle
    /\ h.phase = "on"
    /\ h.queue # <<>>
    /\ LET s == Head(h.queue) IN
       /\ job' = [job EXCEPT ![w] = [pc |-> "taken", stream |-> s, failed |-> h.failures[s]]]
       /\ h' = [h EXCEPT !.queue = Tail(@), !.failures[s] = None]
    /\ UNCHANGED <<settings, world, lock, call, cut, watching, snapshots, events>>

\* The routes that cool down.  A check works on a copy; since a stream has one check at a
\* time, the deadlines it writes back are the ones still stored, and its own new ones.
Cooling(s) ==
    IF h.states[s] # None /\ h.states[s].signature = Signature(s)
    THEN h.states[s].cooling ELSE {}

\* A reported failure counts as one probe of the current route; a report of any
\* other URL is obsolete and ends the check.
Snapshot(w) ==
    LET s == job[w].stream
        reported == job[w].failed # None
        fresh == [pc |-> "current", stream |-> s, revision |-> h.revisions[s],
                  signature |-> Signature(s), current |-> Source(s),
                  skips |-> Cooling(s), failed |-> {}, good |-> {}]
    IN
    /\ job[w].pc = "taken"
    /\ lock = None
    /\ job' = [job EXCEPT ![w] =
          IF \/ ~Present(s) \/ h.phase = "off"
             \/ reported /\ job[w].failed # Url(s)
          THEN [pc |-> "done", stream |-> s]
          ELSE IF reported
          THEN [fresh EXCEPT !.pc = "other", !.failed = {Source(s)}]
          ELSE fresh]
    /\ UNCHANGED <<settings, world, h, lock, call, cut, watching, snapshots, events>>

\* checkRoute: every URL of the route is probed, unless there is none or the
\* route still cools down.
Checked(j, source) ==
    LET url == j.signature[2][source]
    IN  IF url = None \/ source \in j.skips THEN j
        ELSE IF url \in alive
        THEN [j EXCEPT !.good = @ \cup {source}]
        ELSE [j EXCEPT !.failed = @ \cup {source}]

ProbeCurrent(w) ==
    /\ job[w].pc = "current"
    /\ LET j == Checked(job[w], job[w].current) IN
       job' = [job EXCEPT ![w] =
          [j EXCEPT !.pc = IF j.current # j.signature[1] \/ j.current \notin j.good
                           THEN "other" ELSE "decided"]]
    /\ UNCHANGED <<settings, world, h, lock, call, cut, watching, snapshots, events>>

ProbeOther(w) ==
    /\ job[w].pc = "other"
    /\ job' = [job EXCEPT ![w] = [Checked(@, Other(@.current)) EXCEPT !.pc = "decided"]]
    /\ UNCHANGED <<settings, world, h, lock, call, cut, watching, snapshots, events>>

\* Slips: switch without having found the other route healthy; never switch back.
Decision_Trusting(j) ==
    IF j.current \notin j.good THEN Other(j.current) ELSE j.current
Decision_Sticky(j) ==
    IF Other(j.current) \in j.good /\ j.current \notin j.good THEN Other(j.current) ELSE j.current

\* The preferred route wins when it is healthy, the other one only when the
\* current one is not.
Decision(j) ==
    IF /\ Other(j.current) \in j.good
       /\ j.current # j.signature[1] \/ j.current \notin j.good
    THEN Other(j.current) ELSE j.current

\* Slip: the revision is not compared.
Outdated_BySignature(j) == h.phase = "off" \/ Signature(j.stream) # j.signature

\* The settings or the routes changed while the routes were probed.  A preference that
\* was changed and changed back has the same signature but a later revision.
Outdated(j) ==
    h.phase = "off" \/ Signature(j.stream) # j.signature \/ h.revisions[j.stream] # j.revision

Apply(w) ==
    LET j == job[w]
        s == j.stream
    IN
    /\ j.pc = "decided"
    /\ lock = None
    /\ IF Outdated(j)
       THEN /\ job' = [job EXCEPT ![w] = [pc |-> "done", stream |-> s]]
            /\ UNCHANGED <<h, lock, cut>>
       ELSE /\ h' = [h EXCEPT !.states[s] =
                        [source |-> Decision(j), signature |-> j.signature,
                         cooling |-> Cooling(s) \cup j.failed, madeAt |-> j.revision]]
            /\ IF Source(s) # Decision(j)
               THEN /\ lock' = w
                    /\ cut' = [stream |-> s, at |-> "snapshot"]
                    /\ job' = [job EXCEPT ![w] = [pc |-> "cutting", stream |-> s]]
               ELSE /\ job' = [job EXCEPT ![w] = [pc |-> "done", stream |-> s]]
                    /\ UNCHANGED <<lock, cut>>
    /\ UNCHANGED <<settings, world, call, watching, snapshots, events>>

FinishCut(w) ==
    /\ job[w].pc = "cutting"
    /\ cut = None
    /\ lock' = None
    /\ job' = [job EXCEPT ![w].pc = "done"]
    /\ UNCHANGED <<settings, world, h, call, cut, watching, snapshots, events>>

\* A failure reported meanwhile found the stream queued and is still to be queued.
Finish(w) ==
    /\ job[w].pc = "done"
    /\ LET s == job[w].stream IN
       /\ h' = [h EXCEPT !.queued = @ \ {s}]
       /\ job' = [job EXCEPT ![w] = IF h.failures[s] = None THEN Idle
                                    ELSE [pc |-> "requeue", stream |-> s]]
    /\ UNCHANGED <<settings, world, lock, call, cut, watching, snapshots, events>>

Requeue(w) ==
    /\ job[w].pc = "requeue"
    /\ h' = Queued(h, job[w].stream, None)
    /\ job' = [job EXCEPT ![w] = Idle]
    /\ UNCHANGED <<settings, world, lock, call, cut, watching, snapshots, events>>

-----------------------------------------------------------------------------
(* invalidateLiveSource, run by whoever holds the lock. *)

\* The snapshot of the stream and the flight that would refill it go first ...
CutSnapshot ==
    /\ cut # None /\ cut.at = "snapshot"
    /\ cache' = [cache EXCEPT ![cut.stream] = None]
    /\ flight' = [flight EXCEPT ![cut.stream] = None]
    /\ dropped' = dropped \cup
          {q \in Requests : request[q] # Idle /\ request[q].stream = cut.stream}
    /\ cut' = [cut EXCEPT !.at = "view"]
    /\ UNCHANGED <<settings, world, h, job, lock, call, watching, request, events>>

\* Slip: an input that is looked up but not yet open is not stopped.
CutView_OpenOnly ==
    /\ cut # None /\ cut.at = "view"
    /\ view' = [view EXCEPT ![cut.stream] = IF @.pc = "open" THEN Idle ELSE @]
    /\ cut' = None
    /\ UNCHANGED <<settings, world, h, job, lock, call, late, snapshots, events>>

\* ... then InvalidateStream of the media manager and the relay, which also stop an
\* input whose catalog lookup is still under way.
CutView ==
    /\ cut # None /\ cut.at = "view"
    /\ view' = [view EXCEPT ![cut.stream] = Idle]
    /\ cut' = None
    /\ UNCHANGED <<settings, world, h, job, lock, call, late, snapshots, events>>

-----------------------------------------------------------------------------
(* The operator: SetStreamLiveSource(t) and, for t = "all", SetDefaultLiveSource. *)

Scope(t) == IF t = "all" THEN Streams ELSE {t}

\* The streams whose preference the call changes, as the catalog read at its start says.
Changes(t, choice) ==
    IF t = "all" THEN {s \in Streams : Present(s) /\ override[s] = None /\ default # choice}
    ELSE {s \in {t} : override[s] # choice}

SetBegins(t, choice) ==
    /\ call = Idle /\ lock = None
    /\ t # "all" => Present(t)
    /\ t = "all" => choice # "default"
    /\ Spent
    /\ lock' = "operator"
    /\ LET stored == IF choice = "default" THEN None ELSE choice IN
       call' = [pc |-> "read", target |-> t, choice |-> stored, changes |-> Changes(t, stored),
                old |-> [s \in Streams |-> IF Present(s) THEN Source(s) ELSE None]]
    /\ UNCHANGED <<settings, world, h, job, cut, watching, snapshots>>

\* The state file cannot be written: nothing is published.
SaveFails ==
    /\ call.pc = "read"
    /\ call' = Idle /\ lock' = None
    /\ UNCHANGED <<settings, world, h, job, cut, watching, snapshots, events>>

\* torn is history, for the properties: the preference of the stream changed under this
\* reading.
Torn(r, d, o) ==
    IF r.pc \in {"probes", "selections"} /\ r.preferred # PreferredUnder(d, o, r.stream)
    THEN [r EXCEPT !.torn = TRUE] ELSE r

Save ==
    /\ call.pc = "read"
    /\ LET d == IF call.target = "all" THEN call.choice ELSE default
           o == IF call.target = "all" THEN override
                ELSE [override EXCEPT ![call.target] = call.choice]
       IN  /\ default' = d /\ override' = o
           /\ view' = [s \in Streams |-> Torn(view[s], d, o)]
           /\ request' = [q \in Requests |-> Torn(request[q], d, o)]
    /\ call' = [call EXCEPT !.pc = "saved"]
    /\ UNCHANGED <<world, h, job, lock, cut, late, cache, flight, dropped, events>>

\* clearLiveSourceHealth for the streams whose preference changed.
Clear ==
    /\ call.pc = "saved"
    /\ h' = Cleared(h, call.changes)
    /\ call' = [call EXCEPT !.pc = "cleared"]
    /\ UNCHANGED <<settings, world, job, lock, cut, watching, snapshots, events>>

\* The catalog is read again and compared with the first reading.
Relist ==
    /\ call.pc = "cleared"
    /\ LET left == {s \in Scope(call.target) : Present(s)} IN
       call' = [pc |-> "each", left |-> left,
                cuts |-> {s \in left : call.old[s] # None /\ call.old[s] # Source(s)}]
    /\ UNCHANGED <<settings, world, h, job, lock, cut, watching, snapshots, events>>

CutEach(s) ==
    /\ call.pc = "each" /\ s \in call.cuts /\ cut = None
    /\ cut' = [stream |-> s, at |-> "snapshot"]
    /\ call' = [call EXCEPT !.cuts = @ \ {s}]
    /\ UNCHANGED <<settings, world, h, job, lock, watching, snapshots, events>>

QueueEach(s) ==
    /\ call.pc = "each" /\ s \in call.left \ call.cuts /\ cut = None
    /\ h' = Queued(h, s, None)
    /\ call' = [call EXCEPT !.left = @ \ {s}]
    /\ UNCHANGED <<settings, world, job, lock, cut, watching, snapshots, events>>

SetReturns ==
    /\ call.pc = "each" /\ call.left = {} /\ cut = None
    /\ call' = Idle /\ lock' = None
    /\ UNCHANGED <<settings, world, h, job, cut, watching, snapshots, events>>

-----------------------------------------------------------------------------
(* Readers of the catalog (listStreams): the preference, then the stored     *)
(* probes, then the selections, with no lock held across the three.          *)

Reading(s) == [pc |-> "settings", stream |-> s, torn |-> FALSE]

SawSettings(r) ==
    [pc |-> "probes", stream |-> r.stream, torn |-> r.torn,
     preferred |-> Preferred(r.stream)]

SawProbes(r) ==
    [pc |-> "selections", stream |-> r.stream, torn |-> r.torn,
     preferred |-> r.preferred, routes |-> urls[r.stream]]

SawSelections(r) ==
    [pc |-> "found", stream |-> r.stream, torn |-> r.torn,
     source |-> Effective(r.preferred, r.routes, h.states[r.stream]),
     url |-> r.routes[Effective(r.preferred, r.routes, h.states[r.stream])]]

Advance(r) ==
    CASE r.pc = "settings"   -> SawSettings(r)
      [] r.pc = "probes"     -> SawProbes(r)
      [] r.pc = "selections" -> SawSelections(r)
      [] r.pc = "found"      -> [r EXCEPT !.pc = "open"]

Midway(r) == r.pc \in {"settings", "probes", "selections", "found"}

\* A viewer, or the reconciler, asks for the stream: its worker is registered first.
Open(s) ==
    /\ s \in Watched
    /\ view[s] = Idle /\ Present(s)
    /\ view' = [view EXCEPT ![s] = Reading(s)]
    /\ UNCHANGED <<settings, world, h, control, late, snapshots, events>>

Resolve(s) ==
    /\ Midway(view[s])
    /\ view' = [view EXCEPT ![s] = Advance(@)]
    /\ UNCHANGED <<settings, world, h, control, late, snapshots, events>>

\* The upstream ends or refuses, and the worker is about to report it; a URL that still
\* answers DESCRIBE may fail too.
Fail(s) ==
    /\ view[s].pc = "open"
    /\ IF view[s].url \in alive THEN Spent ELSE UNCHANGED events
    /\ late' = late \cup {<<s, view[s].url>>}
    /\ view' = [view EXCEPT ![s] = Idle]
    /\ UNCHANGED <<settings, world, h, control, snapshots>>

\* A dead upstream is noticed: the worker's dial or read fails.
Dies(s) == view[s].pc = "open" /\ view[s].url \notin alive /\ Fail(s)

\* The last viewer leaves: no report.
Leave(s) ==
    /\ view[s].pc = "open"
    /\ view' = [view EXCEPT ![s] = Idle]
    /\ UNCHANGED <<settings, world, h, control, late, snapshots, events>>

ReportLiveSourceFailure(s, url) ==
    /\ <<s, url>> \in late
    /\ late' = late \ {<<s, url>>}
    /\ h' = Queued(h, s, url)
    /\ UNCHANGED <<settings, world, control, view, snapshots, events>>

-----------------------------------------------------------------------------
(* NVRSnapshot: one flight per channel feeds a short-lived cache, with a     *)
(* frame of the stream or, where none can be captured, with the image the    *)
(* recorder itself serves, whatever the source of the stream.                *)

\* The cache holds no snapshot of the stream, or one older than snapshotCacheTTL, which stays
\* until another replaces it.
SnapshotBegins(q, s) ==
    /\ request[q] = Idle /\ Present(s)
    /\ flight[s] = None
    /\ flight' = [flight EXCEPT ![s] = q]
    /\ request' = [request EXCEPT ![q] = Reading(s)]
    /\ dropped' = dropped \ {q}
    /\ UNCHANGED <<settings, world, h, control, watching, cache, events>>

SnapshotResolves(q) ==
    /\ Midway(request[q])
    /\ request' = [request EXCEPT ![q] = Advance(@)]
    /\ UNCHANGED <<settings, world, h, control, watching, cache, flight, dropped, events>>

\* Slip: whichever call returns refills the cache.
Store_Any(q, s, image) ==
    /\ cache' = [cache EXCEPT ![s] = image]
    /\ request' = [request EXCEPT ![q] = [pc |-> "stored", stream |-> s]]

\* storeSnapshotForFlight: only the flight the channel still knows refills the cache.
Store(q, s, image) ==
    /\ cache' = IF flight[s] = q THEN [cache EXCEPT ![s] = image] ELSE cache
    /\ request' = [request EXCEPT ![q] = [pc |-> "stored", stream |-> s]]

\* CaptureFrame returned a frame of the stream that was looked up.
SnapshotStores(q) ==
    /\ request[q].pc = "open"
    /\ Store(q, request[q].stream, request[q])
    /\ UNCHANGED <<settings, world, h, control, watching, flight, dropped, events>>

\* No target, no media reader or a failed capture: provider.Snapshot fetched the recorder's
\* own image.
SnapshotFallsBack(q) ==
    LET s == request[q].stream IN
    /\ Midway(request[q]) \/ request[q].pc = "open"
    /\ Store(q, s, [pc |-> "own", stream |-> s, stale |-> q \in dropped])
    /\ UNCHANGED <<settings, world, h, control, watching, flight, dropped, events>>

\* finishSnapshotFlight, after a store or when the provider failed too.
SnapshotEnds(q) ==
    LET s == request[q].stream IN
    /\ request[q] # Idle
    /\ flight' = IF flight[s] = q THEN [flight EXCEPT ![s] = None] ELSE flight
    /\ request' = [request EXCEPT ![q] = Idle]
    /\ dropped' = dropped \ {q}
    /\ UNCHANGED <<settings, world, h, control, watching, cache, events>>

-----------------------------------------------------------------------------
(* The world. *)

\* A device probe or a new device configuration stores the routes of a stream.
RoutesChange(s, l) ==
    /\ urls[s] # l
    /\ Spent
    /\ urls' = [urls EXCEPT ![s] = l]
    /\ moved' = moved \cup {s}
    /\ UNCHANGED <<settings, alive, h, control, watching, snapshots>>

\* A route starts or stops answering.
Flip(url) ==
    /\ Spent
    /\ alive' = IF url \in alive THEN alive \ {url} ELSE alive \cup {url}
    /\ UNCHANGED <<settings, urls, moved, h, control, watching, snapshots>>

-----------------------------------------------------------------------------
Init ==
    /\ default \in Sources
    /\ override \in [Streams -> (Sources \cap Choices) \cup {None}]
    /\ urls \in [Streams -> Layouts \cup {None}]
    /\ \A s \in Streams : urls[s] = None => s \in Unprobed
    /\ alive \in SUBSET Urls /\ moved = {}
    /\ h = [phase |-> "new", queue |-> <<>>, queued |-> {},
            failures |-> [s \in Streams |-> None], states |-> [s \in Streams |-> None],
            revisions |-> [s \in Streams |-> 0]]
    /\ job = [w \in Workers |-> Idle]
    /\ lock = None /\ call = Idle /\ cut = None
    /\ view = [s \in Streams |-> Idle] /\ late = {}
    /\ cache = [s \in Streams |-> None] /\ flight = [s \in Streams |-> None]
    /\ request = [q \in Requests |-> Idle] /\ dropped = {}
    /\ events = 0

WorkerStep(w) ==
    \/ Take(w) \/ Snapshot(w) \/ ProbeCurrent(w) \/ ProbeOther(w)
    \/ Apply(w) \/ FinishCut(w) \/ Finish(w) \/ Requeue(w)

CallStep ==
    \/ SaveFails \/ Save \/ Clear \/ Relist \/ SetReturns
    \/ \E s \in Streams : CutEach(s) \/ QueueEach(s)

Cuts == CutSnapshot \/ CutView

Next ==
    \/ StartHealth \/ StopHealth \/ Cuts \/ CallStep
    \/ \E w \in Workers : WorkerStep(w)
    \/ \E t \in Streams \cup {"all"}, choice \in Choices : SetBegins(t, choice)
    \/ \E s \in Streams :
          \/ Tick(s) \/ Open(s) \/ Resolve(s) \/ Fail(s) \/ Leave(s)
          \/ \E source \in Sources : CooldownEnds(s, source)
          \/ \E url \in Urls : ReportLiveSourceFailure(s, url)
          \/ \E q \in Requests : SnapshotBegins(q, s)
          \/ \E l \in Layouts : RoutesChange(s, l)
    \/ \E q \in Requests :
          \/ SnapshotResolves(q) \/ SnapshotStores(q) \/ SnapshotFallsBack(q)
          \/ SnapshotEnds(q)
    \/ \E url \in Urls : Flip(url)

Spec == Init /\ [][Next]_vars

\* The code's own goroutines, timers and calls under way go on; nobody else need act.
Fairness ==
    /\ WF_vars(StartHealth) /\ WF_vars(Cuts) /\ WF_vars(CallStep)
    /\ \A w \in Workers : WF_vars(WorkerStep(w))
    /\ \A s \in Streams :
         /\ WF_vars(Tick(s)) /\ WF_vars(Dies(s))
         /\ \A source \in Sources : WF_vars(CooldownEnds(s, source))
         /\ \A url \in Urls : WF_vars(ReportLiveSourceFailure(s, url))

FairSpec == Spec /\ Fairness

-----------------------------------------------------------------------------
(* Properties *)

\* Every variable has its type, and liveSourceMu has a holder exactly while a call or an
\* invalidation by a worker is under way.
TypeOK ==
    /\ default \in Sources
    /\ override \in [Streams -> Sources \cup {None}]
    /\ urls \in [Streams -> Layouts \cup {None}]
    /\ alive \subseteq Urls /\ moved \subseteq Streams
    /\ h.phase \in {"new", "on", "off"} /\ h.queue \in Seq(Streams) /\ h.queued \subseteq Streams
    /\ h.failures \in [Streams -> Urls \cup {None}]
    /\ h.states \in [Streams -> Selections \cup {None}]
    /\ h.revisions \in [Streams -> 0..MaxEvents]
    /\ late \subseteq Streams \X Urls
    /\ flight \in [Streams -> Requests \cup {None}] /\ dropped \subseteq Requests
    /\ cut = None \/ cut \in [stream : Streams, at : {"snapshot", "view"}]
    /\ lock = "operator" <=> call # Idle
    /\ \A w \in Workers : lock = w <=> job[w].pc = "cutting"
    /\ cut # None => lock # None
    /\ Len(h.queue) <= QueueCap
    /\ events \in 0..MaxEvents

\* A stream is in the queue or in one worker's hands, never in two places: two checks of
\* one stream would each act on a selection the other is replacing (h.queued).
OneCheckEach ==
    LET checking(w) == job[w].pc \notin {"idle", "requeue"} IN
    /\ \A v, w \in Workers :
         v # w /\ checking(v) /\ checking(w) => job[v].stream # job[w].stream
    /\ \A w \in Workers : checking(w) =>
         \A i \in 1..Len(h.queue) : h.queue[i] # job[w].stream

\* A published selection was decided by a check that began after the operator's last word
\* on that stream (liveHealth.revisions), not only under the same preference.
SelectionIsCurrent ==
    \A s \in Streams : h.states[s] # None => h.states[s].madeAt = h.revisions[s]

\* Somebody holds the lock and has yet to invalidate, or to decide whether to.
Switching(s) ==
    \/ cut # None /\ cut.stream = s
    \/ call.pc \in {"read", "saved", "cleared"}
    \/ call.pc = "each" /\ s \in call.cuts

Follows(r, s) == r.torn \/ s \in moved \/ Switching(s) \/ r.url = Url(s)

\* The live input of a stream is the one the catalog names, outside an invalidation under
\* way, as long as its routes stay; except for an input that was looked up while the
\* preference changed (ReconnectsOnSwitch is about both).
ViewFollows == \A s \in Streams : view[s].pc = "open" => Follows(view[s], s)

\* No snapshot outlives a switch, however late the call that made it (storeSnapshotForFlight):
\* a cached frame is of the source the catalog names, with the exceptions of ViewFollows, and
\* a recorder's own image, which stands in for the selected source whichever that is, was
\* asked for after the last invalidation of the stream.
SnapshotFollows ==
    \A s \in Streams : cache[s] # None =>
        IF cache[s].pc = "own" THEN ~cache[s].stale ELSE Follows(cache[s], s)

\* A health check moves a stream only to a route it found healthy itself; when both routes
\* fail the stream stays where it is.
NoBlindSwitch ==
    [][\A w \in Workers, s \in Streams :
        job[w].pc = "decided" /\ job[w].stream = s /\ job'[w] # job[w]
        /\ h'.states # h.states /\ Source(s)' # Source(s) => Source(s)' \in job[w].good]_vars

\* The source a stream belongs on: the preferred one if it answers, else the other.
Answers(s, source) == urls[s][source] \in alive
Best(s) ==
    IF Answers(s, Preferred(s)) THEN Preferred(s)
    ELSE IF Answers(s, Other(Preferred(s))) THEN Other(Preferred(s)) ELSE None

\* Failover and return: once the world settles, the stream settles on its best source.
SettlesOnBest ==
    \A s \in Streams, source \in Sources :
        <>[](h.phase = "on" /\ Present(s) /\ Best(s) = source) => <>[](Present(s) /\ Source(s) = source)

\* docs/media-and-recording.md: "Source changes reconnect affected live viewers": an input
\* from another source than the catalog names is stopped, sooner or later.
ReconnectsOnSwitch ==
    \A s \in Streams :
        (view[s].pc = "open" /\ view[s].source # Source(s))
            ~> (view[s].pc # "open" \/ h.phase = "off" \/ view[s].source = Source(s))
=============================================================================
