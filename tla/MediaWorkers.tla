---------------------------- MODULE MediaWorkers ----------------------------
(***************************************************************************)
(* The FFmpeg workers of the media manager: bridge/internal/media,         *)
(* manager.go, live_mjpeg.go, live_hls.go, dash.go, webrtc.go,             *)
(* retention.go and lifecycle.go.                                          *)
(*                                                                         *)
(* A request resolves its stream first and takes m.mu only afterwards, so  *)
(* the source may change in between; m.streamGenerations is what notices.  *)
(* A worker is a goroutine around one FFmpeg process: it leaves its table  *)
(* when it ends, or before, when InvalidateStream takes it out and only    *)
(* then cancels it.  Viewers share MJPEG workers (an idle timer runs for   *)
(* every empty window) and HLS and DASH workers (an access time and a      *)
(* ticker).  The finished output of a playback stream stays on disk for a  *)
(* while without using a worker's place.  Close waits for all of it.       *)
(*                                                                         *)
(* The client's profile and width only choose the key, so each stream has  *)
(* one key per kind here.                                                  *)
(***************************************************************************)
EXTENDS Naturals, Sequences, FiniteSets

CONSTANTS
    Streams,     \* stream IDs
    Viewers,     \* concurrent requests
    Slots,       \* bound: workers that exist at one time, identified by numbers
    Worlds,      \* the environments explored, see WorldType
    None

Kinds == {"mjpeg", "hls", "dash", "webrtc", "clip"}
Files == {"hls", "dash"}

\* kinds: what clients ask for; playback: the "nvrpb_" streams, which end by themselves;
\* viewers: who asks; slots: who can exist; limit: cfg.MaxWorkers (0, no limit, is left out);
\* switches: bound on source changes per stream; retries: FFmpeg attempts after the first
\* (buildFFmpegStartAttempts); closes: whether Close is called.
WorldType == [kinds : SUBSET Kinds, playback : SUBSET Streams, viewers : SUBSET Viewers,
              slots : SUBSET Slots, limit : Nat \ {0}, switches : Nat, retries : Nat,
              closes : BOOLEAN]

ASSUME SlotsAssumption ==
    Slots \subseteq Nat /\ None \notin Slots \cup Streams \cup Viewers /\ Streams # {}
ASSUME WorldsAssumption == Worlds \subseteq WorldType

VARIABLES
    wk,        \* the workers: the worker, hlsWorker, dashWorker, webrtcSession and clipJob structs
    tab,       \* the workers registered in m's tables
    kept,      \* m.retainedOutputs in the order of their serials
    gens,      \* m.streamGenerations
    src,       \* the version of each stream's source (its URL in the catalog)
    pending,   \* InvalidateStream calls due after a switch, by stream
    cutting,   \* workers whose cancel InvalidateStream or StopIntercomSessions still has to call
    closing,   \* Close: "open", "cancelled", "joined"
    vw,        \* the requests
    world      \* the environment, one of Worlds

vars == <<wk, tab, kept, gens, src, pending, cutting, closing, vw, world>>
sources == <<gens, src, pending>>

-----------------------------------------------------------------------------
(* Workers. *)

\* pc is where run (waitForFFmpeg, job.run) is: "spawned" before the output
\* directory, "offer" while session.start negotiates, "live" while FFmpeg runs, and
\* then the deferred calls.  shut is subscribersClosed, failed is lastError (kept for
\* the readers of files), keeper is the cleanup task of a retained output.  A timer
\* knows whether its window is still the worker's (idleGeneration) and whether its time
\* is over; whole is history: nobody has subscribed since it started.  A directory is
\* stuck when os.RemoveAll has failed: nobody tries again.
WorkerType ==
    [kind : Kinds, stream : Streams, input : Nat,
     pc : {"spawned", "offer", "live", "closing", "retaining", "unlisting", "sweeping",
           "cancelling", "done"},
     cancelled : BOOLEAN, left : Nat, produced : BOOLEAN, failed : BOOLEAN,
     subs : SUBSET Viewers, shut : BOOLEAN,
     timers : SUBSET [window : {"this", "past"}, due : BOOLEAN, whole : BOOLEAN],
     dir : {"none", "made", "stuck"}, ticking : BOOLEAN, aged : BOOLEAN,
     completed : BOOLEAN, keeper : {"none", "kept", "sweep", "release"}, expired : BOOLEAN]

Blank == [kind |-> "mjpeg", stream |-> CHOOSE s \in Streams : TRUE, input |-> 0,
          pc |-> "done", cancelled |-> TRUE, left |-> 0, produced |-> FALSE,
          failed |-> FALSE, subs |-> {}, shut |-> TRUE, timers |-> {}, dir |-> "none",
          ticking |-> FALSE, aged |-> FALSE, completed |-> FALSE, keeper |-> "none",
          expired |-> FALSE]

Alive(w) == ~wk[w].cancelled
ListedFor(k, s) == {w \in tab : wk[w].kind = k /\ wk[w].stream = s}
Among(set) == Cardinality({w \in set : ~wk[w].completed})
Active == Among(tab)

\* Everything that still runs for a worker, or still points at it.
Quiet(r) == r.pc = "done" /\ r.keeper = "none" /\ ~r.ticking /\ r.timers = {}
Holders(w) == {v \in Viewers : vw[v].w = w}

\* The garbage collector: a struct nobody reaches becomes a free slot, unless its
\* directory is still to be removed.
Collected(f) ==
    [w \in Slots |-> IF /\ Quiet(f[w]) /\ f[w].dir # "made"
                        /\ Holders(w)' = {} /\ w \notin cutting' \cup tab'
                     THEN Blank ELSE f[w]]
Put(w, r) == wk' = Collected([wk EXCEPT ![w] = r])
Free == {w \in world.slots : wk[w] = Blank /\ Holders(w) = {} /\ w \notin cutting \cup tab}

\* Timers and tickers select on w.ctx.Done() and return without another effect.
Cancel(r) == [r EXCEPT !.cancelled = TRUE, !.timers = {}, !.ticking = FALSE, !.aged = FALSE]

-----------------------------------------------------------------------------
(* Requests: resolve without the lock, then look up or create under it. *)

ViewType == [pc : {"idle", "asked", "resolved", "opened", "waiting", "watching", "reading",
                   "offering"},
             kind : Kinds, stream : Streams, gen : Nat, input : Nat, w : Slots \cup {None},
             watcher : BOOLEAN]
NoView == [pc |-> "idle", kind |-> "mjpeg", stream |-> CHOOSE s \in Streams : TRUE,
           gen |-> 0, input |-> 0, w |-> None, watcher |-> FALSE]

\* resolveStream reads the generation before it asks the catalog.
Ask(v, k, s) ==
    /\ vw[v].pc = "idle" /\ v \in world.viewers /\ k \in world.kinds \ {"clip"}
    /\ vw' = [vw EXCEPT ![v] = [NoView EXCEPT !.pc = "asked", !.kind = k, !.stream = s,
                                              !.gen = gens[s]]]
    /\ UNCHANGED <<wk, tab, kept, sources, cutting, closing, world>>

Resolve(v) ==
    /\ vw[v].pc = "asked"
    /\ vw' = [vw EXCEPT ![v].pc = "resolved", ![v].input = src[vw[v].stream]]
    /\ UNCHANGED <<wk, tab, kept, sources, cutting, closing, world>>

\* ErrManagerClosed, ErrStreamSourceChanged.
Admitted(v) == closing = "open" /\ vw[v].gen = gens[vw[v].stream]

Refuse(v) ==
    /\ vw[v].pc = "resolved" /\ ~Admitted(v)
    /\ vw' = [vw EXCEPT ![v] = NoView]
    /\ UNCHANGED <<wk, tab, kept, sources, cutting, closing, world>>

NewWorker(k, s, input, pc) ==
    [Blank EXCEPT !.kind = k, !.stream = s, !.input = input, !.pc = pc,
                  !.cancelled = FALSE, !.shut = FALSE, !.left = world.retries]

\* The part of every getOrCreate that misses: a dead entry under the key goes, and
\* a worker starts if there is room without it.
Create(v, k, pc, next) ==
    LET s == vw[v].stream
        room == IF k = "webrtc" THEN tab ELSE tab \ ListedFor(k, s)
    IN IF Among(room) >= world.limit
       THEN /\ tab' = room
            /\ vw' = [vw EXCEPT ![v] = NoView]
            /\ wk' = Collected(wk)
       ELSE \E w \in Free :
            /\ \A x \in Free : w <= x
            /\ tab' = room \cup {w}
            /\ vw' = [vw EXCEPT ![v] = [NoView EXCEPT !.pc = next, !.w = w]]
            /\ wk' = [Collected(wk) EXCEPT ![w] = NewWorker(k, s, vw[v].input, pc)]

Found(v, k, usable, next) ==
    \E w \in usable :
        /\ vw' = [vw EXCEPT ![v] = [NoView EXCEPT !.pc = next, !.w = w]]
        /\ wk' = [wk EXCEPT ![w].aged = FALSE]
        /\ UNCHANGED tab

OpenMJPEG(v) ==
    LET usable == {w \in ListedFor("mjpeg", vw[v].stream) : Alive(w)}
    IN /\ vw[v].pc = "resolved" /\ vw[v].kind = "mjpeg" /\ Admitted(v)
       /\ UNCHANGED <<kept, sources, cutting, closing, world>>
       /\ IF usable # {} THEN Found(v, "mjpeg", usable, "opened")
                         ELSE Create(v, "mjpeg", "live", "opened")

\* A finished output is as good as a running worker; either counts as touched.
OpenFiles(v, k) ==
    LET usable == {w \in ListedFor(k, vw[v].stream) : wk[w].completed \/ Alive(w)}
    IN /\ vw[v].pc = "resolved" /\ vw[v].kind = k /\ Admitted(v)
       /\ UNCHANGED <<kept, sources, cutting, closing, world>>
       /\ IF usable # {} THEN Found(v, k, usable, "reading")
                         ELSE Create(v, k, "spawned", "reading")

OpenHLS(v) == OpenFiles(v, "hls")
OpenDASH(v) == OpenFiles(v, "dash")

OpenWebRTC(v) ==
    /\ vw[v].pc = "resolved" /\ vw[v].kind = "webrtc" /\ Admitted(v)
    /\ UNCHANGED <<kept, sources, cutting, closing, world>>
    /\ Create(v, "webrtc", "offer", "offering")

-----------------------------------------------------------------------------
(* MJPEG viewers (Subscribe, CaptureFrame). *)

\* The timer of a past window, which may fire at any moment.
Past(t) == [t EXCEPT !.window = "past", !.due = FALSE]

\* A late subscriber of a worker that is going away gets a closed channel.
AddSubscriber(v) ==
    LET w == vw[v].w
        late == ~Alive(w) \/ wk[w].shut
    IN /\ vw[v].pc = "opened"
       /\ vw' = [vw EXCEPT ![v].pc = "waiting"]
       /\ wk' = IF late THEN wk
                ELSE [wk EXCEPT ![w].subs = @ \cup {v},
                                ![w].timers = {[Past(t) EXCEPT !.whole = FALSE] : t \in @}]
       /\ UNCHANGED <<tab, kept, sources, cutting, closing, world>>

\* waitUntilReady succeeds; Subscribe leaves a task behind that unsubscribes.
Ready(v) ==
    /\ vw[v].pc = "waiting" /\ wk[vw[v].w].produced
    /\ vw' = [vw EXCEPT ![v].pc = "watching", ![v].watcher = closing = "open"]
    /\ UNCHANGED <<wk, tab, kept, sources, cutting, closing, world>>

\* removeSubscriber: an empty worker starts a new window and a timer for it (runTask
\* declines after Close, when the worker is cancelled too).
RemoveSubscriber_OldWindow(v) ==
    LET w == vw[v].w
        r == wk[w]
        rest == r.subs \ {v}
        started == IF Alive(w) THEN {[window |-> "past", due |-> FALSE, whole |-> TRUE]} ELSE {}
        past == {Past(t) : t \in r.timers}
    IN /\ vw' = [vw EXCEPT ![v] = NoView]
       /\ UNCHANGED <<tab, kept, sources, cutting, closing, world>>
       /\ Put(w, IF rest # {} THEN [r EXCEPT !.subs = rest]
                 ELSE [r EXCEPT !.subs = rest, !.timers = past \cup started])

RemoveSubscriber(v) ==
    LET w == vw[v].w
        r == wk[w]
        rest == r.subs \ {v}
        started == IF Alive(w) THEN {[window |-> "this", due |-> FALSE, whole |-> TRUE]} ELSE {}
        past == {Past(t) : t \in r.timers}
    IN /\ vw' = [vw EXCEPT ![v] = NoView]
       /\ UNCHANGED <<tab, kept, sources, cutting, closing, world>>
       /\ Put(w, IF rest # {} THEN [r EXCEPT !.subs = rest]
                 ELSE [r EXCEPT !.subs = rest, !.timers = past \cup started])

\* The first frame fails, is late, or the client goes.
GiveUp(v) == vw[v].pc = "waiting" /\ RemoveSubscriber(v)

\* The viewer goes, its channel is closed, or the task sees a context end.
Leave(v) == vw[v].pc = "watching" /\ RemoveSubscriber(v)
Dropped(v) ==
    \/ v \notin wk[vw[v].w].subs
    \/ vw[v].watcher /\ ~Alive(vw[v].w)

\* stopWhenIdle of one window: the time passes, then the lock is taken.
Elapses(w) ==
    \E t \in wk[w].timers :
        /\ t.window = "this" /\ ~t.due
        /\ wk' = [wk EXCEPT ![w].timers = (@ \ {t}) \cup {[t EXCEPT !.due = TRUE]}]
        /\ UNCHANGED <<tab, kept, sources, cutting, closing, vw, world>>

IdleTimer_AnyWindow(w) ==
    \E t \in wk[w].timers :
        LET fires == wk[w].subs = {}
            r == [wk[w] EXCEPT !.timers = @ \ {t}]
        IN /\ t.window = "past" \/ t.due
           /\ UNCHANGED <<tab, kept, sources, cutting, closing, vw, world>>
           /\ Put(w, IF fires THEN Cancel(r) ELSE r)

IdleTimer(w) ==
    \E t \in wk[w].timers :
        LET fires == t.window = "this" /\ wk[w].subs = {}
            r == [wk[w] EXCEPT !.timers = @ \ {t}]
        IN /\ t.window = "past" \/ t.due
           /\ UNCHANGED <<tab, kept, sources, cutting, closing, vw, world>>
           /\ Put(w, IF fires THEN Cancel(r) ELSE r)

-----------------------------------------------------------------------------
(* HLS and DASH files: readFileWhenReady and stopWhenIdle. *)

\* The file is there, be it what a failed removal has left: served, and touched again.
Served(v) ==
    LET w == vw[v].w
    IN /\ vw[v].pc = "reading" /\ wk[w].dir # "none" /\ wk[w].produced /\ ~wk[w].failed
       /\ vw' = [vw EXCEPT ![v] = NoView]
       /\ UNCHANGED <<tab, kept, sources, cutting, closing, world>>
       /\ Put(w, [wk[w] EXCEPT !.aged = FALSE])

\* An error of the worker, its end, StartTimeout, or the client goes.
NotServed(v) ==
    /\ vw[v].pc = "reading"
    /\ vw' = [vw EXCEPT ![v] = NoView]
    /\ UNCHANGED <<tab, kept, sources, cutting, closing, world>>
    /\ Put(vw[v].w, wk[vw[v].w])

\* IdleTimeout passes without an access.
Ages(w) ==
    /\ wk[w].ticking /\ ~wk[w].aged
    /\ wk' = [wk EXCEPT ![w].aged = TRUE]
    /\ UNCHANGED <<tab, kept, sources, cutting, closing, vw, world>>

Tick(w) ==
    /\ wk[w].ticking /\ wk[w].aged
    /\ UNCHANGED <<tab, kept, sources, cutting, closing, vw, world>>
    /\ Put(w, Cancel(wk[w]))

-----------------------------------------------------------------------------
(* run *)

\* hlsWorker.run and dashWorker.run make the directory and start the ticker.
Prepare(w) ==
    /\ wk[w].pc = "spawned"
    /\ \/ wk' = [wk EXCEPT ![w].pc = "live", ![w].dir = "made", ![w].ticking = TRUE]
       \/ wk' = [wk EXCEPT ![w].pc = "unlisting", ![w].failed = TRUE]
    /\ UNCHANGED <<tab, kept, sources, cutting, closing, vw, world>>

\* The first frame (publishFrame) or the first playlist and segment.
Produces(w) ==
    /\ wk[w].pc = "live" /\ wk[w].kind \in Files \cup {"mjpeg"} /\ ~wk[w].produced
    /\ wk' = [wk EXCEPT ![w].produced = TRUE]
    /\ UNCHANGED <<tab, kept, sources, cutting, closing, vw, world>>

\* Where the deferred calls begin.
Ending(kind) ==
    CASE kind = "mjpeg" -> "closing"
      [] kind = "webrtc" -> "cancelling"
      [] OTHER -> "unlisting"

\* A cancelled FFmpeg is killed; a clip's is asked to quit.
Killed(w) ==
    /\ wk[w].pc = "live" /\ ~Alive(w)
    /\ wk' = [wk EXCEPT ![w].pc = Ending(wk[w].kind)]
    /\ UNCHANGED <<tab, kept, sources, cutting, closing, vw, world>>

Retries_OneMore(w) ==
    /\ wk[w].pc = "live" /\ Alive(w) /\ wk[w].kind \in Files \cup {"mjpeg"}
    /\ wk' = [wk EXCEPT ![w].left = @ - 1]
    /\ UNCHANGED <<tab, kept, sources, cutting, closing, vw, world>>

Retries(w) ==
    /\ wk[w].pc = "live" /\ Alive(w) /\ wk[w].kind \in Files \cup {"mjpeg"}
    /\ wk[w].left > 0
    /\ wk' = [wk EXCEPT ![w].left = @ - 1]
    /\ UNCHANGED <<tab, kept, sources, cutting, closing, vw, world>>

Fails(w) ==
    /\ wk[w].pc = "live" /\ Alive(w)
    /\ wk[w].kind \in Files \cup {"mjpeg"} => wk[w].left = 0
    /\ wk' = [wk EXCEPT ![w].pc = Ending(wk[w].kind), ![w].failed = wk[w].kind \in Files]
    /\ UNCHANGED <<tab, kept, sources, cutting, closing, vw, world>>

\* The input ended: a playback stream's output is worth keeping.
Completes(w) ==
    /\ wk[w].pc = "live" /\ Alive(w)
    /\ wk' = [wk EXCEPT ![w].pc = IF wk[w].kind \in Files /\ wk[w].stream \in world.playback
                                  THEN "retaining" ELSE Ending(wk[w].kind)]
    /\ UNCHANGED <<tab, kept, sources, cutting, closing, vw, world>>

\* The deferred calls, each under its own lock; the last cancel, which nobody can
\* tell from the step before it, is one with that step.  waitForFFmpeg (and the error
\* path of WebRTCAnswer) cancels before it removes.
CloseSubscribers(w) ==
    /\ wk[w].pc = "closing"
    /\ wk' = [wk EXCEPT ![w].pc = "unlisting", ![w].subs = {}, ![w].shut = TRUE]
    /\ UNCHANGED <<tab, kept, sources, cutting, closing, vw, world>>

CancelSession(w) ==
    /\ wk[w].pc = "cancelling"
    /\ wk' = [wk EXCEPT ![w] = [Cancel(@) EXCEPT !.pc = "unlisting"]]
    /\ UNCHANGED <<tab, kept, sources, cutting, closing, vw, world>>

\* Slip: a worker that failed leaves its directory behind.
RemoveWorker_Unswept(w) ==
    /\ wk[w].pc = "unlisting"
    /\ tab' = tab \ {w}
    /\ UNCHANGED <<kept, sources, cutting, closing, vw, world>>
    /\ Put(w, IF wk[w].kind \in Files /\ ~wk[w].failed THEN [wk[w] EXCEPT !.pc = "sweeping"]
              ELSE [Cancel(wk[w]) EXCEPT !.pc = "done"])

RemoveWorker(w) ==
    /\ wk[w].pc = "unlisting"
    /\ tab' = tab \ {w}
    /\ UNCHANGED <<kept, sources, cutting, closing, vw, world>>
    /\ Put(w, IF wk[w].kind \in Files THEN [wk[w] EXCEPT !.pc = "sweeping"]
              ELSE [Cancel(wk[w]) EXCEPT !.pc = "done"])

\* os.RemoveAll of a directory, if there is one; its error is only logged.
Removals(r) == IF r.dir = "none" THEN {"none"} ELSE {"none", "stuck"}

Sweep(w) ==
    /\ wk[w].pc = "sweeping"
    /\ UNCHANGED <<tab, kept, sources, cutting, closing, vw, world>>
    /\ \E left \in Removals(wk[w]) :
         Put(w, [Cancel(wk[w]) EXCEPT !.pc = "done", !.dir = left])

-----------------------------------------------------------------------------
(* Retained outputs (retention.go and the cleanup task of run). *)

\* s without its entry in X, of which there is at most one.
Without(s, X) ==
    LET hits == {i \in DOMAIN s : s[i] \in X}
        i == CHOOSE i \in hits : TRUE
    IN IF hits = {} THEN s
       ELSE [j \in 1..(Len(s) - 1) |-> IF j < i THEN s[j] ELSE s[j + 1]]

SameKey(w, x) == wk[w].kind = wk[x].kind /\ wk[w].stream = wk[x].stream

\* The output under the same key is replaced, the oldest one evicted; both leave
\* their table and wake their cleanup task.
Retain_Forgotten(w) ==
    LET others == Without(kept, {x \in Slots : SameKey(w, x)})
        added == Append(others, w)
        over == Len(added) > world.limit
        kept1 == IF over THEN Tail(added) ELSE added
        evicted == IF over THEN {added[1]} ELSE {}
    IN /\ wk[w].pc = "retaining"
       /\ kept' = kept1
       /\ tab' = tab \ evicted
       /\ wk' = [x \in Slots |->
                    LET r == [wk[x] EXCEPT !.expired = @ \/ x \in evicted]
                    IN IF x = w THEN [Cancel(r) EXCEPT !.pc = "done", !.completed = TRUE,
                                                       !.keeper = "kept"] ELSE r]
       /\ UNCHANGED <<sources, cutting, closing, vw, world>>

Retain(w) ==
    LET others == Without(kept, {x \in Slots : SameKey(w, x)})
        added == Append(others, w)
        over == Len(added) > world.limit
        kept1 == IF over THEN Tail(added) ELSE added
        out == {kept[i] : i \in DOMAIN kept} \ {kept1[i] : i \in DOMAIN kept1}
    IN /\ wk[w].pc = "retaining"
       /\ kept' = kept1
       /\ tab' = tab \ out
       /\ wk' = [x \in Slots |->
                    LET r == [wk[x] EXCEPT !.expired = @ \/ x \in out]
                    IN IF x = w THEN [Cancel(r) EXCEPT !.pc = "done", !.completed = TRUE,
                                                       !.keeper = "kept"] ELSE r]
       /\ UNCHANGED <<sources, cutting, closing, vw, world>>

\* HLSKeepAfterExit passes, the manager closes, or the output expires.
KeeperUnlists(w) ==
    /\ wk[w].keeper = "kept"
    /\ tab' = tab \ {w}
    /\ wk' = [wk EXCEPT ![w].keeper = "sweep"]
    /\ UNCHANGED <<kept, sources, cutting, closing, vw, world>>

KeeperSweeps_First(w) ==
    /\ wk[w].keeper \in {"kept", "sweep"} /\ wk[w].dir = "made"
    /\ \E left \in Removals(wk[w]) :
         wk' = [wk EXCEPT ![w].keeper = IF wk[w].keeper = "sweep" THEN "release" ELSE @,
                          ![w].dir = left]
    /\ UNCHANGED <<tab, kept, sources, cutting, closing, vw, world>>

KeeperSweeps(w) ==
    /\ wk[w].keeper = "sweep"
    /\ \E left \in Removals(wk[w]) :
         wk' = [wk EXCEPT ![w].keeper = "release", ![w].dir = left]
    /\ UNCHANGED <<tab, kept, sources, cutting, closing, vw, world>>

\* releaseRetainedOutput.
KeeperReleases(w) ==
    /\ wk[w].keeper = "release"
    /\ kept' = Without(kept, {w})
    /\ UNCHANGED <<tab, sources, cutting, closing, vw, world>>
    /\ Put(w, [wk[w] EXCEPT !.keeper = "none"])

-----------------------------------------------------------------------------
(* WebRTC sessions: the request negotiates, then leaves the session behind. *)

\* startFFmpeg succeeded and the answer goes out; a session cancelled meanwhile may
\* still get this far.
Answer(v) ==
    LET w == vw[v].w
    IN /\ vw[v].pc = "offering"
       /\ vw' = [vw EXCEPT ![v] = NoView]
       /\ wk' = [wk EXCEPT ![w].pc = "live"]
       /\ UNCHANGED <<tab, kept, sources, cutting, closing, world>>

\* The offer is bad, FFmpeg does not start, a context ends: cancel, then remove.
OfferFails(v) ==
    LET w == vw[v].w
    IN /\ vw[v].pc = "offering"
       /\ vw' = [vw EXCEPT ![v] = NoView]
       /\ wk' = [wk EXCEPT ![w].pc = "cancelling"]
       /\ UNCHANGED <<tab, kept, sources, cutting, closing, world>>

\* OnConnectionStateChange: failed, disconnected or closed.
PeerGone(w) ==
    /\ wk[w].kind = "webrtc" /\ wk[w].pc = "live" /\ Alive(w)
    /\ wk' = [wk EXCEPT ![w] = Cancel(@)]
    /\ UNCHANGED <<tab, kept, sources, cutting, closing, vw, world>>

-----------------------------------------------------------------------------
(* Other callers. *)

\* A clip takes a place like any worker, one recording to a stream; the rest of its
\* life is module ArchiveClips.
StartClip(s) ==
    /\ "clip" \in world.kinds /\ closing = "open"
    /\ \A w \in ListedFor("clip", s) : wk[w].pc # "live"
    /\ Among(tab) < world.limit
    /\ \E w \in Free :
         /\ \A x \in Free : w <= x
         /\ tab' = tab \cup {w}
         /\ wk' = [wk EXCEPT ![w] = NewWorker("clip", s, src[s], "live")]
    /\ UNCHANGED <<kept, sources, cutting, closing, vw, world>>

\* The runtime changes the source of a live stream and then calls InvalidateStream.
Switch(s) ==
    /\ s \notin world.playback /\ src[s] < world.switches
    /\ src' = [src EXCEPT ![s] = @ + 1]
    /\ pending' = [pending EXCEPT ![s] = @ + 1]
    /\ UNCHANGED <<wk, tab, kept, gens, cutting, closing, vw, world>>

InvalidateStream_OldGeneration(s) ==
    LET victims == {w \in tab : wk[w].stream = s /\ wk[w].kind # "clip"}
    IN /\ pending[s] > 0
       /\ pending' = [pending EXCEPT ![s] = @ - 1]
       /\ UNCHANGED gens
       /\ tab' = tab \ victims
       /\ cutting' = cutting \cup victims
       /\ UNCHANGED <<wk, kept, src, closing, vw, world>>

\* Finished outputs go too: their entries leave the table, their files stay.
InvalidateStream(s) ==
    LET victims == {w \in tab : wk[w].stream = s /\ wk[w].kind # "clip"}
    IN /\ pending[s] > 0
       /\ pending' = [pending EXCEPT ![s] = @ - 1]
       /\ gens' = [gens EXCEPT ![s] = @ + 1]
       /\ tab' = tab \ victims
       /\ cutting' = cutting \cup victims
       /\ UNCHANGED <<wk, kept, src, closing, vw, world>>

StopIntercomSessions(s) ==
    LET victims == ListedFor("webrtc", s)
    IN /\ victims # {}
       /\ tab' = tab \ victims
       /\ cutting' = cutting \cup victims
       /\ UNCHANGED <<wk, kept, sources, closing, vw, world>>

\* The cancels, after the unlock.
CutNext(w) ==
    /\ w \in cutting
    /\ cutting' = cutting \ {w}
    /\ UNCHANGED <<tab, kept, sources, closing, vw, world>>
    /\ Put(w, Cancel(wk[w]))

-----------------------------------------------------------------------------
(* Close *)

Close_KeepsInputs ==
    /\ world.closes /\ closing = "open"
    /\ closing' = "cancelled"
    /\ UNCHANGED <<wk, tab, kept, sources, cutting, vw, world>>

Close ==
    /\ world.closes /\ closing = "open"
    /\ closing' = "cancelled"
    /\ wk' = [w \in Slots |-> Cancel(wk[w])]
    /\ UNCHANGED <<tab, kept, sources, cutting, vw, world>>

\* m.wg: run goroutines, tickers, timers, cleanup tasks, offers and watchers.
Working ==
    {w \in Slots : ~Quiet(wk[w])} \cup {v \in Viewers : vw[v].pc = "offering" \/ vw[v].watcher}

CloseJoins ==
    /\ closing = "cancelled" /\ Working = {}
    /\ closing' = "joined"
    /\ UNCHANGED <<wk, tab, kept, sources, cutting, vw, world>>

-----------------------------------------------------------------------------
Init ==
    /\ wk = [w \in Slots |-> Blank]
    /\ tab = {} /\ kept = <<>> /\ cutting = {} /\ closing = "open"
    /\ gens = [s \in Streams |-> 0]
    /\ src = [s \in Streams |-> 0]
    /\ pending = [s \in Streams |-> 0]
    /\ vw = [v \in Viewers |-> NoView]
    /\ world \in Worlds

Request(v) ==
    \/ Resolve(v) \/ Refuse(v) \/ OpenMJPEG(v) \/ OpenHLS(v) \/ OpenDASH(v) \/ OpenWebRTC(v)
    \/ AddSubscriber(v) \/ Ready(v) \/ GiveUp(v) \/ Served(v) \/ NotServed(v)
    \/ Answer(v) \/ OfferFails(v)

Run(w) ==
    \/ Prepare(w) \/ Killed(w) \/ CloseSubscribers(w) \/ RemoveWorker(w) \/ Sweep(w)
    \/ CancelSession(w) \/ Retain(w)

Keeper(w) == KeeperUnlists(w) \/ KeeperSweeps(w) \/ KeeperReleases(w)

Next ==
    \/ \E v \in Viewers :
        \/ \E k \in Kinds, s \in Streams : Ask(v, k, s)
        \/ Request(v) \/ Leave(v)
    \/ \E w \in Slots :
        \/ Run(w) \/ Keeper(w) \/ Elapses(w) \/ IdleTimer(w) \/ Ages(w) \/ Tick(w) \/ Produces(w)
        \/ Retries(w) \/ Fails(w) \/ Completes(w) \/ PeerGone(w) \/ CutNext(w)
    \/ \E s \in Streams :
        StartClip(s) \/ Switch(s) \/ InvalidateStream(s) \/ StopIntercomSessions(s)
    \/ Close \/ CloseJoins

Spec == Init /\ [][Next]_vars

\* Goroutines run, timers fire, a killed FFmpeg exits and a caller that switched a
\* source goes on to invalidate it.  Nobody has to ask, FFmpeg may run for ever, and
\* a viewer may watch for ever.
Fairness ==
    /\ \A v \in Viewers :
        WF_vars(Request(v)) /\ WF_vars(Leave(v) /\ Dropped(v))
    /\ \A w \in Slots :
        /\ WF_vars(Run(w)) /\ WF_vars(Keeper(w)) /\ WF_vars(CutNext(w))
        /\ WF_vars(Elapses(w)) /\ WF_vars(IdleTimer(w))
        /\ WF_vars(Ages(w) \/ Tick(w))
    /\ \A s \in Streams : WF_vars(InvalidateStream(s))
    /\ WF_vars(CloseJoins)

FairSpec == Spec /\ Fairness

-----------------------------------------------------------------------------
TypeOK ==
    /\ wk \in [Slots -> WorkerType]
    /\ tab \subseteq Slots /\ cutting \subseteq Slots
    /\ kept \in Seq(Slots)
    /\ gens \in [Streams -> Nat] /\ src \in [Streams -> Nat] /\ pending \in [Streams -> Nat]
    /\ closing \in {"open", "cancelled", "joined"}
    /\ vw \in [Viewers -> ViewType]
    /\ world \in Worlds
    /\ \A v \in Viewers :
         vw[v].pc \in {"opened", "waiting", "watching", "reading", "offering"} <=> vw[v].w # None

\* Once the runtime has told the manager about a source change, no worker that
\* viewers can find reads the old source: a resolution that is older than the
\* change cannot register one afterwards (resolveStream, getOrCreate, WebRTCAnswer
\* against InvalidateStream).
NoStaleInput ==
    \A w \in tab :
        wk[w].kind # "clip" /\ pending[wk[w].stream] = 0 => wk[w].input = src[wk[w].stream]

\* MaxWorkers bounds the running workers and, separately, the finished outputs; an
\* output whose cleanup task still waits for its time is one of those counted.
WithinLimits ==
    /\ Active <= world.limit
    /\ Len(kept) <= world.limit
    /\ \A w \in Slots :
         wk[w].keeper = "kept" /\ ~wk[w].expired => \E i \in DOMAIN kept : kept[i] = w

\* A finished output that a request can still find has its directory, and the
\* retention limit knows of it (getOrCreateHLSWorker hands it out as it is).
KeptIsReadable ==
    \A w \in tab :
        wk[w].completed => wk[w].dir = "made" /\ \E i \in DOMAIN kept : kept[i] = w

StoppedIdle(w) ==
    /\ wk[w].kind = "mjpeg" /\ wk[w].pc = "live" /\ Alive(w) /\ ~Alive(w)'
    /\ w \notin cutting /\ closing' = closing

\* An MJPEG worker that nobody cuts is stopped only by the timer of a window during
\* which nobody subscribed (worker.stopWhenIdle).
IdleStopIsEarned ==
    [][\A w \in Slots : StoppedIdle(w) => \E t \in wk[w].timers : t.due /\ t.whole]_vars

\* When Close returns there is no worker, timer, ticker or cleanup task left, none
\* starts later, and every output has been removed but those whose removal failed
\* (run and its cleanup task, which log the error of os.RemoveAll and go on).
ClosedLeavesNothing ==
    closing = "joined" =>
        /\ tab = {} /\ kept = <<>>
        /\ \A w \in Slots : Quiet(wk[w]) /\ wk[w].dir # "made"

\* A shared worker that nobody holds stops or is used again, whatever the order in
\* which its last viewers and their timers came and went.
UnusedStops ==
    \A w \in Slots :
        (wk[w].kind \in Files \cup {"mjpeg"} /\ Alive(w) /\ Holders(w) = {})
            ~> (~Alive(w) \/ Holders(w) # {})

\* Close returns.
CloseReturns == (closing = "cancelled") ~> (closing = "joined")
=============================================================================
