----------------------------- MODULE RtspRelay -----------------------------
(***************************************************************************)
(* The shared RTSP relay: bridge/internal/rtsprelay/server.go and          *)
(* preconnect.go.                                                          *)
(*                                                                         *)
(* A worker is one upstream camera connection.  RTSP clients that ask for  *)
(* the same stream and profile (a key) share one worker; a second process, *)
(* the reconciler, keeps a set of "warm" workers connected before anybody  *)
(* asks; an idle reaper, an operator and Close take workers away.  All of  *)
(* them meet under one mutex, so one critical section is one action, and   *)
(* everything that happens between two critical sections of a goroutine    *)
(* (waiting for an upstream, closing sockets, resolving the catalog) is a  *)
(* state other actions can interleave with.                                *)
(*                                                                         *)
(* Time is abstract: lastUsed is "fresh" until IdleTimeout has passed      *)
(* ("aged"), lastViewed is "never", "recent" (younger than RecentKeepAlive)*)
(* or "past", a retry deadline is "cooling" or "expired".                  *)
(***************************************************************************)
EXTENDS Integers, FiniteSets

CONSTANTS
    Keys,        \* stream:profile pairs, as numbers in the order sort.Slice gives them
    StreamOf,    \* the stream of each key
    Clients,     \* RTSP connections, each with at most one session
    Workers,     \* identities of relayStream objects, reused once unreachable
    MaxStreams,  \* Config.MaxStreams
    Worlds,      \* environments: the RTSP "methods" clients use, the preconnect "modes" the
                 \* operator switches between, which of "settings", "invalidate", "close" are
                 \* its "ops", which "deadlines" of "idle", "recent", "start", "backoff" pass,
                 \* and whether the resolver "preconnects"
    None

ASSUME KeysAssumption == Keys \subseteq Nat /\ IsFiniteSet(Keys)
ASSUME ClientsAssumption == IsFiniteSet(Clients)
ASSUME WorkersAssumption == IsFiniteSet(Workers)
ASSUME MaxStreamsAssumption == MaxStreams \in Nat \ {0}
ASSUME NoneAssumption == None \notin Keys /\ None \notin Workers

VARIABLES
    started,     \* s.started
    closePc,     \* where Close is: "open", "closed", "cancelled", "joining", "joined"
    reg,         \* s.workers
    wk,          \* the relayStream objects
    sessions,    \* s.sessions
    conns,       \* s.conns
    link,        \* each TCP connection: "open", "hung" (dying), "closed"
    op,          \* the DESCRIBE or SETUP handler a connection is in
    starts,      \* the keys of s.starts
    mode, targets, retry, starting,  \* s.preconnectMode ... s.preconnectStarting
    wake,        \* a token in s.preconnectWake
    rec,         \* where runPreconnect is
    snap,        \* the catalog snapshot it holds, and whether its revision is current
    settings,    \* the persisted preconnect mode
    admin,       \* where the operator's call is (liveSourceMu admits one)
    pulling,     \* workers the operator's InvalidateStream has still to retire
    closing,     \* workers Close has still to retire
    reaping,     \* workers the reaper saw idle in this tick
    world        \* the environment, one of Worlds

vars == <<started, closePc, reg, wk, sessions, conns, link, op, starts, mode, targets,
          retry, starting, wake, rec, snap, settings, admin, pulling, closing, reaping, world>>
pool == <<reg, wk, sessions, conns>>
net == <<link, op>>
policy == <<mode, targets, retry, starting>>
loop == <<wake, rec, snap>>
control == <<settings, admin, pulling>>
shutdown == <<started, closePc, closing>>
----------------------------------------------------------------------------
(* Workers. *)

\* N is the set pendingDemand ranges over.
WorkerType(N) ==
    [key : Keys \cup {None}, run : {"new", "dial", "live", "exit", "done"},
     timer : {"armed", "fired", "stopped"}, cancelled : BOOLEAN, retired : BOOLEAN,
     ready : {"open", "ok", "err"}, warm : BOOLEAN, warmStarting : BOOLEAN,
     used : {"fresh", "aged"}, viewed : {"never", "recent", "past"}, pending : N,
     readers : SUBSET Clients, playing : SUBSET Clients, conns : SUBSET Clients,
     cleanup : BOOLEAN, captured : SUBSET Clients]

\* No relayStream, or one whose goroutine has returned.
Gone == [key |-> None, run |-> "done", timer |-> "stopped", cancelled |-> TRUE, retired |-> TRUE,
         ready |-> "err", warm |-> FALSE, warmStarting |-> FALSE, used |-> "fresh",
         viewed |-> "never", pending |-> 0, readers |-> {}, playing |-> {}, conns |-> {},
         cleanup |-> FALSE, captured |-> {}]

NewWorker(k, warmStart, desired) ==
    [key |-> k, run |-> "new", timer |-> "armed", cancelled |-> FALSE, retired |-> FALSE,
     ready |-> "open", warm |-> k \in desired, warmStarting |-> warmStart, used |-> "fresh",
     viewed |-> "never", pending |-> 0, readers |-> {}, playing |-> {}, conns |-> {},
     cleanup |-> FALSE, captured |-> {}]

\* What the operations below do to one relayStream.
Reserved(r) == [r EXCEPT !.pending = @ + 1, !.used = "fresh"]
Unreserved(r) == [r EXCEPT !.pending = @ - 1]
Bound(r, c) == [r EXCEPT !.conns = @ \cup {c}]
Unbound(r, c) == [r EXCEPT !.conns = @ \ {c}]
Joined(r, c) == [r EXCEPT !.readers = @ \cup {c}]
\* The last moment a reader of r was seen watching, if c stops now.
LeftBy(r, c) == IF c \in r.playing THEN "recent" ELSE r.viewed
Watched(r, c) == [r EXCEPT !.readers = @ \cup {c}, !.playing = @ \cup {c},
                           !.used = "fresh", !.viewed = "recent"]
Paused(r, c) == [r EXCEPT !.readers = @ \cup {c}, !.playing = @ \ {c},
                          !.used = "fresh", !.viewed = LeftBy(r, c)]
Left(r, c) == [r EXCEPT !.readers = @ \ {c}, !.playing = @ \ {c},
                        !.used = "fresh", !.viewed = LeftBy(r, c)]
Dialing(r) == [r EXCEPT !.run = "dial"]
Published(r, t) == [r EXCEPT !.run = "live", !.timer = t, !.ready = "ok", !.warmStarting = FALSE]
\* run returns: its deferred calls end with timer.Stop and finishWorker.
Exited(r) == [r EXCEPT !.run = "exit", !.timer = IF @ = "armed" THEN "stopped" ELSE @]
Aged(r) == [r EXCEPT !.used = "aged"]
Unviewed(r) == [r EXCEPT !.viewed = "past"]
Fired(r) == [r EXCEPT !.timer = "fired", !.cancelled = TRUE]
Cancelled(r) == [r EXCEPT !.cancelled = TRUE]
Cleaned(r) == [r EXCEPT !.cleanup = FALSE, !.cancelled = TRUE, !.captured = {}]
Leased(r, desired) == [r EXCEPT !.warm = ~r.retired /\ r.key \in desired]

Registered == {k \in Keys : reg[k] # None}
TimedOut(w) == wk[w].timer = "fired"
Owns(w) == ~wk[w].retired /\ reg[wk[w].key] = w

\* An identity nothing in the program still points at.
Free == {w \in Workers : /\ wk[w] = Gone
                         /\ \A c \in Clients : op[c].worker # w
                         /\ w \notin pulling \cup closing \cup reaping}

NoDemand(r) == r.pending = 0 /\ r.readers = {} /\ r.conns = {}

KeepWarm(r) == \/ mode = "always" /\ r.warm
               \/ mode = "recent" /\ r.viewed = "recent"

\* idleWarmWorkerLocked: the least recently used warm worker without demand.
IdleWarm ==
    LET idle == {w \in {reg[k] : k \in Registered} : NoDemand(wk[w]) /\ KeepWarm(wk[w])}
        aged == {w \in idle : wk[w].used = "aged"}
    IN  IF aged # {} THEN aged ELSE idle

\* Slip: the reaper trusts lastUsed, which a playing reader does not refresh.
Reapable_ByAge(r) == r.used = "aged" /\ r.pending = 0 /\ ~KeepWarm(r)

\* What the idle reaper may take, in its scan and again when it retires.
Reapable(r) == r.used = "aged" /\ r.pending = 0 /\ ~KeepWarm(r) /\ r.playing = {}

\* retireLocked on one object.  used, viewed, warm and startTimedOut are never read again.
Retired(r) ==
    IF r.retired THEN r
    ELSE [r EXCEPT !.retired = TRUE, !.ready = IF @ = "open" THEN "err" ELSE @,
                   !.readers = {}, !.playing = {}, !.conns = {},
                   !.used = "fresh", !.viewed = "never", !.warm = FALSE, !.timer = "stopped",
                   !.cleanup = TRUE, !.captured = r.readers \cup r.conns]

\* Slip: the worker stays in s.workers.
Unregister_Keep(R) == reg

\* The goroutine of a retired worker has returned; handlers and its clean-up may remain.
Finished(r) == [Gone EXCEPT !.cancelled = r.cancelled, !.pending = r.pending,
                            !.cleanup = r.cleanup, !.captured = r.captured]

\* retireLocked on the relay's maps, for the workers in R that are not retired.
Unregister(R) == [k \in Keys |-> IF reg[k] \in R THEN None ELSE reg[k]]
DropSessions(R) ==
    [c \in Clients |-> IF \E w \in R : c \in wk[w].readers THEN None ELSE sessions[c]]
\* Slip: connections without a session are left in s.conns.
DropConns_ReadersOnly(R) ==
    [c \in Clients |-> IF \E w \in R : c \in wk[w].readers THEN None ELSE conns[c]]
DropConns(R) ==
    [c \in Clients |-> IF \E w \in R : c \in wk[w].conns THEN None ELSE conns[c]]
RetireIn(table, R) == [w \in Workers |-> IF w \in R THEN Retired(table[w]) ELSE table[w]]

RetireAll(R) == /\ reg' = Unregister(R)
                /\ wk' = RetireIn(wk, R)
                /\ sessions' = DropSessions(R)
                /\ conns' = DropConns(R)
----------------------------------------------------------------------------
(* The lookup of a DESCRIBE or SETUP: getStreamForDemand. *)

Idle == [kind |-> "none", worker |-> None, at |-> "idle"]
OpType == [kind : {"none", "describe", "setup"}, worker : Workers \cup {None},
           at : {"idle", "wait", "hold", "release"}]

\* Slip: a lookup does not see that the relay was closed.
Accepting_Closed == started

Accepting == started /\ closePc = "open"

Enter(c, kind, w) == op' = [op EXCEPT ![c] = [kind |-> kind, worker |-> w, at |-> "wait"]]

\* The key has a worker: reserve it.
JoinWorker(c, kind, k) ==
    /\ reg[k] # None
    /\ wk' = [wk EXCEPT ![reg[k]] = Reserved(@)]
    /\ Enter(c, kind, reg[k])
    /\ UNCHANGED <<reg, sessions, conns>>

\* Slip: a demand start does not look at the limit.
Victims_NoLimit == {{}}

\* The workers retired before a demand start: one idle warm worker if the limit is reached.
Victims == IF Cardinality(Registered) >= MaxStreams THEN {{v} : v \in IdleWarm} ELSE {{}}

\* The key has none: start one, retiring an idle warm worker when the limit is reached.
StartForDemand(c, kind, k) ==
    /\ reg[k] = None
    /\ \E R \in Victims, w \in Free :
          /\ reg' = [Unregister(R) EXCEPT ![k] = w]
          /\ wk' = [RetireIn(wk, R) EXCEPT ![w] = Reserved(NewWorker(k, FALSE, targets))]
          /\ sessions' = DropSessions(R)
          /\ conns' = DropConns(R)
          /\ Enter(c, kind, w)

\* A connection identity nothing refers to any more stands for a new connection.
Unused(c) == link[c] = "closed" /\ sessions[c] = None /\ \A w \in Workers : c \notin wk[w].captured

\* A connection sends one request at a time; gortsplib refuses SETUP on a playing session.
MayRequest(c, kind) ==
    /\ link[c] = "open" \/ Unused(c)
    /\ op[c] = Idle
    /\ kind = "setup" /\ sessions[c] # None => c \notin wk[sessions[c]].playing

\* A request without a key to serve (closed, limit reached) answers 503 and changes nothing.
Request(c, kind, k) ==
    /\ Accepting /\ MayRequest(c, kind) /\ kind \in world.methods
    /\ link' = [link EXCEPT ![c] = "open"]
    /\ JoinWorker(c, kind, k) \/ StartForDemand(c, kind, k)
    /\ UNCHANGED <<starts, reaping, world>> /\ UNCHANGED policy /\ UNCHANGED loop
    /\ UNCHANGED control /\ UNCHANGED shutdown

\* The select saw worker.ready closed: recheck under the lock.
WaitReady(c) ==
    LET w == op[c].worker IN
    /\ op[c].at = "wait" /\ wk[w].ready # "open"
    /\ IF wk[w].ready = "ok" /\ Owns(w)
       THEN op' = [op EXCEPT ![c].at = "hold"] /\ UNCHANGED wk
       ELSE op' = [op EXCEPT ![c] = Idle] /\ wk' = [wk EXCEPT ![w] = Unreserved(@)]
    /\ UNCHANGED <<reg, sessions, conns, link, starts, reaping, world>> /\ UNCHANGED policy
    /\ UNCHANGED loop /\ UNCHANGED control /\ UNCHANGED shutdown

\* Slip: a cancelled wait returns without releaseDemand.
WaitCancelled_Leaks(c) ==
    /\ op[c].at = "wait" /\ wk[op[c].worker].cancelled
    /\ op' = [op EXCEPT ![c] = Idle]
    /\ UNCHANGED <<link, starts, reaping, world>> /\ UNCHANGED pool /\ UNCHANGED policy
    /\ UNCHANGED loop /\ UNCHANGED control /\ UNCHANGED shutdown

\* The select saw worker.ctx done (random when both are ready).
WaitCancelled(c) ==
    /\ op[c].at = "wait" /\ wk[op[c].worker].cancelled
    /\ op' = [op EXCEPT ![c].at = "release"]
    /\ UNCHANGED <<link, starts, reaping, world>> /\ UNCHANGED pool /\ UNCHANGED policy
    /\ UNCHANGED loop /\ UNCHANGED control /\ UNCHANGED shutdown

\* bindConn: the connection leaves its previous worker.  r is what the new one becomes.
BindConn(c, w, r) ==
    [v \in Workers |-> IF v = w THEN Bound(r, c)
                       ELSE IF conns[c] = v THEN Unbound(wk[v], c) ELSE wk[v]]

\* Another worker already serves this session or this connection.
SetupConflict(c, w) == \/ sessions[c] \notin {None, w}
                       \/ conns[c] \notin {None, w}

\* The end of OnDescribe and of OnSetup, one critical section.
Bind(c) ==
    LET w == op[c].worker IN
    /\ op[c].at = "hold"
    /\ op' = [op EXCEPT ![c].at = "release"]
    /\ \/ /\ ~Owns(w) \/ (op[c].kind = "setup" /\ SetupConflict(c, w))
          /\ UNCHANGED pool
       \/ /\ Owns(w) /\ op[c].kind = "describe"
          /\ wk' = BindConn(c, w, wk[w])
          /\ conns' = [conns EXCEPT ![c] = w]
          /\ UNCHANGED <<reg, sessions>>
       \/ /\ Owns(w) /\ op[c].kind = "setup" /\ ~SetupConflict(c, w)
          /\ wk' = BindConn(c, w, Joined(wk[w], c))
          /\ conns' = [conns EXCEPT ![c] = w]
          /\ sessions' = [sessions EXCEPT ![c] = w]
          /\ UNCHANGED reg
    /\ UNCHANGED <<link, starts, reaping, world>> /\ UNCHANGED policy /\ UNCHANGED loop
    /\ UNCHANGED control /\ UNCHANGED shutdown

\* Slip: the deferred releaseDemand is missing.
Release_Leaks(c) ==
    /\ op[c].at = "release"
    /\ op' = [op EXCEPT ![c] = Idle]
    /\ UNCHANGED <<link, starts, reaping, world>> /\ UNCHANGED pool /\ UNCHANGED policy
    /\ UNCHANGED loop /\ UNCHANGED control /\ UNCHANGED shutdown

\* releaseDemand: the deferred end of a handler that holds a reservation.
Release(c) ==
    /\ op[c].at = "release"
    /\ wk' = [wk EXCEPT ![op[c].worker] = Unreserved(@)]
    /\ op' = [op EXCEPT ![c] = Idle]
    /\ UNCHANGED <<reg, sessions, conns, link, starts, reaping, world>> /\ UNCHANGED policy
    /\ UNCHANGED loop /\ UNCHANGED control /\ UNCHANGED shutdown
----------------------------------------------------------------------------
(* Playing, leaving, and the connection's end. *)

Play(c) ==
    LET w == sessions[c] IN
    /\ link[c] = "open" /\ op[c] = Idle /\ w # None
    /\ wk' = [wk EXCEPT ![w] = Watched(@, c)]
    /\ UNCHANGED <<reg, sessions, conns, link, op, starts, reaping, world>> /\ UNCHANGED policy
    /\ UNCHANGED loop /\ UNCHANGED control /\ UNCHANGED shutdown

Pause(c) ==
    LET w == sessions[c] IN
    /\ link[c] = "open" /\ op[c] = Idle /\ w # None
    /\ wk' = [wk EXCEPT ![w] = Paused(@, c)]
    /\ UNCHANGED <<reg, sessions, conns, link, op, starts, reaping, world>> /\ UNCHANGED policy
    /\ UNCHANGED loop /\ UNCHANGED control /\ UNCHANGED shutdown

\* TEARDOWN, a session timeout, or the end of the session's connection.  The session's
\* own goroutine runs OnSetup, so only a SETUP excludes it.
SessionClose(c) ==
    LET w == sessions[c] IN
    /\ op[c].kind # "setup" /\ w # None
    /\ wk' = [wk EXCEPT ![w] = Left(@, c)]
    /\ sessions' = [sessions EXCEPT ![c] = None]
    /\ UNCHANGED <<reg, conns, link, op, starts, reaping, world>> /\ UNCHANGED policy
    /\ UNCHANGED loop /\ UNCHANGED control /\ UNCHANGED shutdown

\* OnConnClose: the connection's goroutine has ended, so no handler of it runs.
ConnClose(c) ==
    /\ link[c] = "hung" /\ op[c] = Idle
    /\ link' = [link EXCEPT ![c] = "closed"]
    /\ IF conns[c] = None THEN UNCHANGED wk
       ELSE wk' = [wk EXCEPT ![conns[c]] = Unbound(@, c)]
    /\ conns' = [conns EXCEPT ![c] = None]
    /\ UNCHANGED <<reg, sessions, op, starts, reaping, world>> /\ UNCHANGED policy
    /\ UNCHANGED loop /\ UNCHANGED control /\ UNCHANGED shutdown

\* The client drops the connection.  One without a handler or a worker is never missed.
Hangup(c) ==
    /\ link[c] = "open" /\ (op[c] # Idle \/ sessions[c] # None \/ conns[c] # None)
    /\ link' = [link EXCEPT ![c] = "hung"]
    /\ UNCHANGED <<op, starts, reaping, world>> /\ UNCHANGED pool /\ UNCHANGED policy
    /\ UNCHANGED loop /\ UNCHANGED control /\ UNCHANGED shutdown
----------------------------------------------------------------------------
(* The clock. *)

Age(w) ==
    /\ "idle" \in world.deadlines /\ w \notin reaping /\ ~wk[w].retired /\ wk[w].used = "fresh"
    /\ wk' = [wk EXCEPT ![w] = Aged(@)]
    /\ UNCHANGED <<reg, sessions, conns, op, link, starts, reaping, world>> /\ UNCHANGED policy
    /\ UNCHANGED loop /\ UNCHANGED control /\ UNCHANGED shutdown

\* Only "recent" mode reads the age of a view, so it need not pass before.
AgeView(w) ==
    /\ "recent" \in world.deadlines /\ mode = "recent" /\ ~wk[w].retired /\ wk[w].viewed = "recent"
    /\ wk' = [wk EXCEPT ![w] = Unviewed(@)]
    /\ UNCHANGED <<reg, sessions, conns, op, link, starts, reaping, world>> /\ UNCHANGED policy
    /\ UNCHANGED loop /\ UNCHANGED control /\ UNCHANGED shutdown

RetryExpires(k) ==
    /\ "backoff" \in world.deadlines /\ retry[k] = "cooling"
    /\ retry' = [retry EXCEPT ![k] = "expired"]
    /\ UNCHANGED <<mode, targets, starting, starts, reaping, world>> /\ UNCHANGED pool
    /\ UNCHANGED net /\ UNCHANGED loop /\ UNCHANGED control /\ UNCHANGED shutdown

\* Slip: the timeout is noted but the worker is not cancelled.
TimerFires_NoCancel(w) ==
    /\ "start" \in world.deadlines /\ wk[w].timer = "armed" /\ wk[w].run \in {"new", "dial", "live"}
    /\ wk' = [wk EXCEPT ![w] = [@ EXCEPT !.timer = "fired"]]
    /\ UNCHANGED <<reg, sessions, conns, op, link, starts, reaping, world>> /\ UNCHANGED policy
    /\ UNCHANGED loop /\ UNCHANGED control /\ UNCHANGED shutdown

\* The start timer's callback: startTimedOut.Store and worker.cancel.
TimerFires(w) ==
    /\ "start" \in world.deadlines /\ wk[w].timer = "armed" /\ wk[w].run \in {"new", "dial", "live"}
    /\ wk' = [wk EXCEPT ![w] = Fired(@)]
    /\ UNCHANGED <<reg, sessions, conns, op, link, starts, reaping, world>> /\ UNCHANGED policy
    /\ UNCHANGED loop /\ UNCHANGED control /\ UNCHANGED shutdown
----------------------------------------------------------------------------
(* The worker's goroutine: run and finishWorker. *)

\* Slip: the slot is freed for every warm worker, not for a warm start.
StartingAfter_ByWarm(w) == IF wk[w].warm THEN starting - 1 ELSE starting

\* finishWarmStartLocked: a warm handshake that ends frees its slot, once.
StartingAfter(w) == IF wk[w].warmStarting THEN starting - 1 ELSE starting

Exits(w) == wk' = [wk EXCEPT ![w] = Exited(@)]

\* The route does not resolve to a live RTSP address, or the worker is cancelled already.
RunRejects(w) ==
    /\ wk[w].run = "new"
    /\ Exits(w)
    /\ UNCHANGED <<reg, sessions, conns, link, op, starts, reaping, world>> /\ UNCHANGED policy
    /\ UNCHANGED loop /\ UNCHANGED control /\ UNCHANGED shutdown

\* Forget the count of one key without a worker when s.starts is at its limit.
StartsAfter(k) ==
    IF k \notin starts /\ Cardinality(starts) >= 2 * MaxStreams
    THEN LET stale == starts \ Registered
         IN  IF stale = {} THEN {starts \cup {k}} ELSE {(starts \ {s}) \cup {k} : s \in stale}
    ELSE {starts \cup {k}}

RunResolves(w) ==
    /\ wk[w].run = "new" /\ ~wk[w].cancelled
    /\ wk' = [wk EXCEPT ![w] = Dialing(@)]
    /\ starts' \in StartsAfter(wk[w].key)
    /\ UNCHANGED <<reg, sessions, conns, link, op, reaping, world>> /\ UNCHANGED policy
    /\ UNCHANGED loop /\ UNCHANGED control /\ UNCHANGED shutdown

\* The upstream handshake fails; cancelling the worker closes the client, so it fails then too.
RunFails(w) ==
    /\ wk[w].run = "dial"
    /\ Exits(w)
    /\ UNCHANGED <<reg, sessions, conns, link, op, starts, reaping, world>> /\ UNCHANGED policy
    /\ UNCHANGED loop /\ UNCHANGED control /\ UNCHANGED shutdown

\* PLAY succeeded upstream and the worker is still wanted: publish it.  timer.Stop comes
\* before the lock, but does not stop a callback that has begun: it may cancel a live worker.
RunReady(w) ==
    /\ wk[w].run = "dial"
    /\ IF wk[w].retired \/ wk[w].cancelled \/ reg[wk[w].key] # w
       THEN /\ Exits(w)
            /\ UNCHANGED <<starting, wake>>
       ELSE /\ \E t \in {"stopped", "armed"} : wk' = [wk EXCEPT ![w] = Published(@, t)]
            /\ starting' = StartingAfter(w)
            /\ wake' = TRUE
    /\ UNCHANGED <<reg, sessions, conns, link, op, starts, mode, targets, retry, rec, snap, reaping,
                   world>>
    /\ UNCHANGED control /\ UNCHANGED shutdown

\* client.Wait returns: the upstream ended, or the worker was cancelled.
RunEnds(w) ==
    /\ wk[w].run = "live"
    /\ Exits(w)
    /\ UNCHANGED <<reg, sessions, conns, link, op, starts, reaping, world>> /\ UNCHANGED policy
    /\ UNCHANGED loop /\ UNCHANGED control /\ UNCHANGED shutdown

\* A warm worker failed by itself: its key must wait before it is warmed again.
BacksOff(w) == ~wk[w].retired /\ wk[w].warm /\ (~wk[w].cancelled \/ TimedOut(w))

InRetry == {k \in Keys : retry[k] # "none"}

\* Slip: the retry table only grows.
RetryAfter_Grow(k) == {[retry EXCEPT ![k] = "cooling"]}

\* The retry table with k cooling; at the limit the oldest undesired entry makes room.
RetryAfter(k) ==
    LET loose == InRetry \ targets
        aged  == {j \in loose : retry[j] = "expired"}
        drop  == IF aged # {} THEN aged ELSE loose
        full  == k \notin InRetry /\ Cardinality(InRetry) >= 2 * MaxStreams
    IN  IF full /\ loose # {}
        THEN {[retry EXCEPT ![j] = "none", ![k] = "cooling"] : j \in drop}
        ELSE {[retry EXCEPT ![k] = "cooling"]}

\* finishWorker: one critical section, then a token for the reconciler.
RunFinishes(w) ==
    /\ wk[w].run = "exit"
    /\ starting' = StartingAfter(w)
    /\ IF BacksOff(w) THEN retry' \in RetryAfter(wk[w].key) ELSE UNCHANGED retry
    /\ wk' = [wk EXCEPT ![w] = Finished(Retired(@))]
    /\ reg' = Unregister({w})
    /\ sessions' = DropSessions({w})
    /\ conns' = DropConns({w})
    /\ wake' = TRUE
    /\ UNCHANGED <<link, op, starts, mode, targets, rec, snap, reaping, world>>
    /\ UNCHANGED control /\ UNCHANGED shutdown

\* The function retireLocked returned, run by whoever retired the worker: cancel it, and
\* close its readers' sessions and every connection it had.
Cleanup(w) ==
    /\ wk[w].cleanup
    /\ wk' = [wk EXCEPT ![w] = Cleaned(@)]
    /\ link' = [c \in Clients |-> IF c \in wk[w].captured /\ link[c] = "open"
                                  THEN "hung" ELSE link[c]]
    /\ UNCHANGED <<reg, sessions, conns, op, starts, reaping, world>> /\ UNCHANGED policy
    /\ UNCHANGED loop /\ UNCHANGED control /\ UNCHANGED shutdown
----------------------------------------------------------------------------
(* The idle reaper. *)

ReapScan ==
    /\ started /\ closePc \in {"open", "closed"} /\ reaping = {}
    /\ reaping' = {w \in {reg[k] : k \in Registered} : Reapable(wk[w])}
    /\ reaping' # {}
    /\ UNCHANGED <<starts, world>> /\ UNCHANGED pool /\ UNCHANGED net /\ UNCHANGED policy
    /\ UNCHANGED loop /\ UNCHANGED control /\ UNCHANGED shutdown

\* retireBefore: the checks again, under the lock that removes the worker.
ReapNext(w) ==
    /\ w \in reaping
    /\ reaping' = reaping \ {w}
    /\ IF ~wk[w].retired /\ Reapable(wk[w]) THEN RetireAll({w}) ELSE UNCHANGED pool
    /\ UNCHANGED <<starts, world>> /\ UNCHANGED net /\ UNCHANGED policy
    /\ UNCHANGED loop /\ UNCHANGED control /\ UNCHANGED shutdown
----------------------------------------------------------------------------
(* The preconnect reconciler: runPreconnect and reconcilePreconnect. *)

Budget == IF MaxStreams > 1 THEN MaxStreams - 1 ELSE 1

\* Slip: one target too many.
FirstOf_Inclusive(S, n) == {k \in S : Cardinality({j \in S : j < k}) <= n}

\* The first n of S in sorted order.
FirstOf(S, n) == {k \in S : Cardinality({j \in S : j < k}) < n}

\* No snapshot of the catalog is held.
NoSnap == [mode |-> "off", current |-> FALSE]

\* A pass begins at once after Start, then on a token or a tick, by noting the revision.
RecBegins(token) ==
    /\ rec' = IF closePc = "open" THEN "read" ELSE "wait"
    /\ snap' = [NoSnap EXCEPT !.current = closePc = "open"]
    /\ wake' = (wake /\ ~token)
    /\ UNCHANGED <<starts, reaping, world>> /\ UNCHANGED pool /\ UNCHANGED net
    /\ UNCHANGED policy /\ UNCHANGED control /\ UNCHANGED shutdown

RecFirst == rec = "begin" /\ RecBegins(FALSE)
RecWakes == rec = "wait" /\ wake /\ RecBegins(TRUE)
RecTicks == rec = "wait" /\ RecBegins(FALSE)

\* Settings and catalog are read outside the relay's lock.
RecRead ==
    /\ rec = "read"
    /\ rec' = "apply" /\ snap' = [snap EXCEPT !.mode = settings]
    /\ UNCHANGED <<wake, starts, reaping, world>> /\ UNCHANGED pool /\ UNCHANGED net
    /\ UNCHANGED policy /\ UNCHANGED control /\ UNCHANGED shutdown

\* The slip: a snapshot is applied although the policy changed meanwhile.
Stale_IgnoresRevision == closePc # "open"

\* The relay closed, or a setting or a route changed while the catalog was read.
Stale == closePc # "open" \/ ~snap.current

\* The targets the catalog may have listed: one profile per stream, and none unless the
\* mode is always.  Which ones is chosen here, where they are used.
Catalog == IF snap.mode # "always" THEN {{}}
           ELSE {T \in SUBSET Keys : \A j, k \in T : StreamOf[j] = StreamOf[k] => j = k}

\* A worker whose warm lease ends here and that nobody ever watched.
Unwanted(desired) ==
    {w \in {reg[k] : k \in Registered} :
        wk[w].warm /\ wk[w].key \notin desired /\ wk[w].viewed = "never" /\ NoDemand(wk[w])}

\* Warm starts: at most two handshakes at a time, and one slot left for demand.
ToStart(desired, R) ==
    LET left == Registered \ {wk[w].key : w \in R}
        room == IF 2 - starting < Budget - Cardinality(left)
                THEN 2 - starting ELSE Budget - Cardinality(left)
    IN  FirstOf({k \in desired \ left : retry[k] # "cooling"}, room)

RecRejects ==
    /\ rec = "apply" /\ Stale
    /\ rec' = "wait" /\ snap' = NoSnap
    /\ UNCHANGED <<wake, starts, reaping, world>> /\ UNCHANGED pool /\ UNCHANGED net
    /\ UNCHANGED policy /\ UNCHANGED control /\ UNCHANGED shutdown

Injective(f) == \A j, k \in DOMAIN f : f[j] = f[k] => j = k

RecApplies ==
    /\ rec = "apply" /\ ~Stale
    /\ rec' = "wait" /\ snap' = NoSnap
    /\ mode' = snap.mode
    /\ \E T \in Catalog : targets' = FirstOf(T, Budget)
    /\ retry' = [k \in Keys |-> IF retry[k] = "expired" THEN "none" ELSE retry[k]]
    /\ LET R == Unwanted(targets')
           S == ToStart(targets', R)
           leased == [w \in Workers |-> Leased(wk[w], targets')]
       IN \E f \in [S -> Free] :
            /\ Injective(f)
            /\ reg' = [k \in Keys |-> IF k \in S THEN f[k] ELSE Unregister(R)[k]]
            /\ wk' = [w \in Workers |->
                        IF \E k \in S : f[k] = w
                        THEN NewWorker(CHOOSE k \in S : f[k] = w, TRUE, targets')
                        ELSE RetireIn(leased, R)[w]]
            /\ sessions' = DropSessions(R)
            /\ conns' = DropConns(R)
            /\ starting' = starting + Cardinality(S)
    /\ UNCHANGED <<wake, starts, reaping, world>> /\ UNCHANGED net
    /\ UNCHANGED control /\ UNCHANGED shutdown

RecStops ==
    /\ rec = "wait" /\ closePc \in {"cancelled", "joining"}
    /\ rec' = "stopped"
    /\ UNCHANGED <<wake, snap, starts, reaping, world>> /\ UNCHANGED pool /\ UNCHANGED net
    /\ UNCHANGED policy /\ UNCHANGED control /\ UNCHANGED shutdown
----------------------------------------------------------------------------
(* The operator.  Every caller holds the runtime's liveSourceMu. *)

\* SetLivePreconnect: the file and the store first.  The same mode again is a new profile.
PersistSettings(m) ==
    /\ "settings" \in world.ops /\ m \in world.modes /\ admin = "idle" /\ closePc # "joined"
    /\ settings' = m /\ admin' = "wake"
    /\ UNCHANGED <<pulling, starts, reaping, world>> /\ UNCHANGED pool /\ UNCHANGED net
    /\ UNCHANGED policy /\ UNCHANGED loop /\ UNCHANGED shutdown

\* InvalidateStream's first critical section: forget the backoff, list the workers.
InvalidateStream(id) ==
    /\ "invalidate" \in world.ops /\ admin = "idle" /\ closePc # "joined"
    /\ admin' = "pull"
    /\ snap' = [snap EXCEPT !.current = FALSE]
    /\ retry' = [k \in Keys |-> IF StreamOf[k] = id THEN "none" ELSE retry[k]]
    /\ pulling' = {reg[k] : k \in {j \in Registered : StreamOf[j] = id}}
    /\ UNCHANGED <<mode, targets, starting, wake, rec, settings, starts, reaping, world>>
    /\ UNCHANGED pool /\ UNCHANGED net /\ UNCHANGED shutdown

PullNext(w) ==
    /\ w \in pulling
    /\ pulling' = pulling \ {w}
    /\ RetireAll({w})
    /\ UNCHANGED <<settings, admin, starts, reaping, world>> /\ UNCHANGED net /\ UNCHANGED policy
    /\ UNCHANGED loop /\ UNCHANGED shutdown

\* WakePreconnect: a snapshot in flight is void ...
Bump ==
    /\ admin = "wake" \/ (admin = "pull" /\ pulling = {})
    /\ admin' = "signal"
    /\ snap' = [snap EXCEPT !.current = FALSE]
    /\ UNCHANGED <<wake, rec, settings, pulling, starts, reaping, world>> /\ UNCHANGED pool
    /\ UNCHANGED net /\ UNCHANGED policy /\ UNCHANGED shutdown

\* Slip: the token is lost unless the reconciler is receiving.
Signal_Unbuffered ==
    /\ admin = "signal"
    /\ admin' = "idle" /\ wake' = (wake \/ rec = "wait")
    /\ UNCHANGED <<rec, snap, settings, pulling, starts, reaping, world>> /\ UNCHANGED pool
    /\ UNCHANGED net /\ UNCHANGED policy /\ UNCHANGED shutdown

\* ... and a token, if the channel has none, asks for a new one.
Signal ==
    /\ admin = "signal"
    /\ admin' = "idle" /\ wake' = TRUE
    /\ UNCHANGED <<rec, snap, settings, pulling, starts, reaping, world>> /\ UNCHANGED pool
    /\ UNCHANGED net /\ UNCHANGED policy /\ UNCHANGED shutdown
----------------------------------------------------------------------------
(* Start and Close. *)

Start ==
    /\ ~started /\ closePc = "open"
    /\ started' = TRUE /\ rec' = IF world.preconnects THEN "begin" ELSE "off"
    /\ UNCHANGED <<closePc, closing, wake, snap, starts, reaping, world>> /\ UNCHANGED pool
    /\ UNCHANGED net /\ UNCHANGED policy /\ UNCHANGED control

CloseBegins ==
    /\ "close" \in world.ops /\ closePc = "open"
    /\ closePc' = "closed"
    /\ closing' = {reg[k] : k \in Registered}
    /\ UNCHANGED <<started, starts, reaping, world>> /\ UNCHANGED pool /\ UNCHANGED net
    /\ UNCHANGED policy /\ UNCHANGED loop /\ UNCHANGED control

\* s.cancel: every worker's context is a child of the server's.
CloseCancels ==
    /\ closePc = "closed"
    /\ closePc' = "cancelled"
    /\ wk' = [w \in Workers |-> Cancelled(wk[w])]
    /\ UNCHANGED <<started, closing, reg, sessions, conns, starts, reaping, world>> /\ UNCHANGED net
    /\ UNCHANGED policy /\ UNCHANGED loop /\ UNCHANGED control

CloseRetires(w) ==
    /\ closePc = "cancelled" /\ w \in closing
    /\ closing' = closing \ {w}
    /\ RetireAll({w})
    /\ UNCHANGED <<started, closePc, starts, reaping, world>> /\ UNCHANGED net
    /\ UNCHANGED policy /\ UNCHANGED loop /\ UNCHANGED control

\* Slip: the listener's connections are left open.
CloseServer_KeepsLinks ==
    /\ closePc = "cancelled" /\ closing = {}
    /\ closePc' = "joining"
    /\ UNCHANGED <<started, closing, starts, reaping, world>> /\ UNCHANGED pool /\ UNCHANGED net
    /\ UNCHANGED policy /\ UNCHANGED loop /\ UNCHANGED control

\* server.Close hangs up on everyone and waits for the handlers.
CloseServer ==
    /\ closePc = "cancelled" /\ closing = {}
    /\ closePc' = "joining"
    /\ link' = [c \in Clients |-> IF started /\ link[c] = "open" THEN "hung" ELSE link[c]]
    /\ UNCHANGED <<started, closing, op, starts, reaping, world>> /\ UNCHANGED pool
    /\ UNCHANGED policy /\ UNCHANGED loop /\ UNCHANGED control

\* s.wg.Wait: workers, reaper and reconciler have returned.
CloseJoins ==
    /\ closePc = "joining"
    /\ \A c \in Clients : link[c] # "open" /\ op[c] = Idle
    /\ started => \A c \in Clients : link[c] = "closed" /\ sessions[c] = None
    /\ \A w \in Workers : wk[w].run = "done" /\ ~wk[w].cleanup
    /\ rec \in {"off", "stopped"} /\ reaping = {}
    /\ closePc' = "joined"
    /\ UNCHANGED <<started, closing, starts, reaping, world>> /\ UNCHANGED pool /\ UNCHANGED net
    /\ UNCHANGED policy /\ UNCHANGED loop /\ UNCHANGED control

\* Nothing is left to do after Close.
Finish == closePc = "joined" /\ admin = "idle" /\ UNCHANGED vars
----------------------------------------------------------------------------
Init ==
    /\ started = FALSE /\ closePc = "open" /\ closing = {}
    /\ reg = [k \in Keys |-> None]
    /\ wk = [w \in Workers |-> Gone]
    /\ sessions = [c \in Clients |-> None] /\ conns = [c \in Clients |-> None]
    /\ link = [c \in Clients |-> "closed"] /\ op = [c \in Clients |-> Idle]
    /\ starts = {} /\ mode = "off" /\ targets = {}
    /\ retry = [k \in Keys |-> "none"] /\ starting = 0
    /\ wake = FALSE /\ rec = "off" /\ snap = NoSnap
    /\ world \in Worlds
    /\ settings \in {"off", "recent", "always"} \cap world.modes /\ admin = "idle" /\ pulling = {}
    /\ reaping = {}

ClientStep == \E c \in Clients :
    \/ \E kind \in {"describe", "setup"}, k \in Keys : Request(c, kind, k)
    \/ Play(c) \/ Pause(c) \/ SessionClose(c) \/ Hangup(c)

HandlerStep == \E c \in Clients :
    WaitReady(c) \/ WaitCancelled(c) \/ Bind(c) \/ Release(c) \/ ConnClose(c)

RunStep == \E w \in Workers :
    \/ RunRejects(w) \/ RunResolves(w) \/ RunFails(w) \/ RunReady(w)
    \/ RunEnds(w) \/ RunFinishes(w) \/ Cleanup(w)

ClockStep == \/ \E w \in Workers : Age(w) \/ AgeView(w) \/ TimerFires(w)
             \/ \E k \in Keys : RetryExpires(k)

ReapStep == ReapScan \/ \E w \in Workers : ReapNext(w)

RecStep == \/ RecFirst \/ RecRead \/ RecRejects \/ RecApplies
           \/ RecWakes \/ RecTicks \/ RecStops

AdminStep == \/ \E m \in {"off", "recent", "always"} : PersistSettings(m)
             \/ \E id \in {StreamOf[k] : k \in Keys} : InvalidateStream(id)
             \/ \E w \in Workers : PullNext(w)
             \/ Bump \/ Signal

CloseStep == \/ Start \/ CloseBegins \/ CloseCancels \/ \E w \in Workers : CloseRetires(w)
             \/ CloseServer \/ CloseJoins \/ Finish

Next == \/ ClientStep \/ HandlerStep \/ RunStep \/ ClockStep
        \/ ReapStep \/ RecStep \/ AdminStep \/ CloseStep

Spec == Init /\ [][Next]_vars

\* What the program itself must get done: its goroutines, timers and deferred steps are
\* scheduled.  Clients, the operator and the upstream cameras owe nothing, except that
\* the handshake of a cancelled worker ends because its client is closed, and that
\* gortsplib ends the session of a dead connection.
FairSpec ==
    /\ Spec
    /\ WF_vars(Start)
    /\ \A c \in Clients :
         /\ WF_vars(WaitReady(c) \/ WaitCancelled(c))
         /\ WF_vars(Bind(c)) /\ WF_vars(Release(c)) /\ WF_vars(ConnClose(c))
         /\ WF_vars(link[c] # "open" /\ SessionClose(c))
    /\ \A w \in Workers :
         /\ WF_vars(RunRejects(w) \/ RunResolves(w))
         /\ WF_vars(wk[w].cancelled /\ (RunFails(w) \/ RunEnds(w)))
         /\ WF_vars(RunFinishes(w)) /\ WF_vars(Cleanup(w))
         /\ WF_vars(TimerFires(w))
         /\ WF_vars(Age(w)) /\ WF_vars(AgeView(w)) /\ WF_vars(ReapNext(w))
         /\ WF_vars(PullNext(w)) /\ WF_vars(CloseRetires(w))
    /\ WF_vars(ReapScan)
    /\ WF_vars(RecFirst) /\ WF_vars(RecRead) /\ WF_vars(RecRejects \/ RecApplies)
    /\ WF_vars(RecWakes) /\ WF_vars(RecTicks) /\ SF_vars(RecStops)
    /\ WF_vars(Bump) /\ WF_vars(Signal)
    /\ WF_vars(CloseCancels) /\ WF_vars(CloseServer) /\ WF_vars(CloseJoins)
----------------------------------------------------------------------------
(* What must hold. *)

Typed(N) ==
    /\ started \in BOOLEAN
    /\ closePc \in {"open", "closed", "cancelled", "joining", "joined"}
    /\ reg \in [Keys -> Workers \cup {None}]
    /\ wk \in [Workers -> WorkerType(N)]
    /\ sessions \in [Clients -> Workers \cup {None}]
    /\ conns \in [Clients -> Workers \cup {None}]
    /\ link \in [Clients -> {"open", "hung", "closed"}]
    /\ op \in [Clients -> OpType]
    /\ starts \in SUBSET Keys
    /\ mode \in {"off", "recent", "always"}
    /\ targets \in SUBSET Keys
    /\ retry \in [Keys -> {"none", "cooling", "expired"}]
    /\ starting \in N
    /\ wake \in BOOLEAN
    /\ rec \in {"off", "begin", "read", "apply", "wait", "stopped"}
    /\ snap \in [mode : {"off", "recent", "always"}, current : BOOLEAN]
    /\ settings \in {"off", "recent", "always"}
    /\ admin \in {"idle", "wake", "pull", "signal"}
    /\ pulling \in SUBSET Workers
    /\ closing \in SUBSET Workers
    /\ reaping \in SUBSET Workers

\* Every variable has its type; in particular pendingDemand and preconnectStarting, which
\* several goroutines increment and decrement, are never negative.
TypeOK == Typed(Nat)

\* s.sessions and s.conns agree with the readers and conns of the workers they point at:
\* OnPlay, OnPause and bindConn never write into the nil maps of a retired worker, and no
\* worker keeps a reader nobody will remove.
IndexAgrees ==
    \A c \in Clients, w \in Workers :
        /\ c \in wk[w].readers <=> sessions[c] = w
        /\ c \in wk[w].conns <=> conns[c] = w
        /\ wk[w].retired => sessions[c] # w /\ conns[c] # w

\* s.workers holds exactly the workers that are not retired, each under its own key and
\* with a goroutine that will still run finishWorker: no key is served by a dead worker,
\* and no camera connection runs outside the table that limits and reaps them.
RegistryHonest ==
    /\ \A k \in Registered : LET r == wk[reg[k]] IN r.key = k /\ ~r.retired
    /\ \A w \in Workers : ~wk[w].retired => /\ wk[w].key \in Keys /\ reg[wk[w].key] = w
                                            /\ wk[w].run # "done"

\* Demand, warming, eviction and failure together never exceed MaxStreams inputs.
StreamsBounded == Cardinality(Registered) <= MaxStreams

Handlers(w) == {c \in Clients : op[c].worker = w}

\* pendingDemand is the number of handlers that still hold the worker: it returns to zero
\* on every path (ready, failed, cancelled, refused), else the input is pinned for ever.
DemandCounted == \A w \in Workers : wk[w].pending = Cardinality(Handlers(w))

WarmStarting == {w \in Workers : wk[w].warmStarting}

\* preconnectStarting counts the warm handshakes, at most two, whichever way each of them
\* ends (published, failed, timed out, evicted): a lost decrement would stop warming.
WarmStartCounted == starting = Cardinality(WarmStarting) /\ starting <= 2

\* The warm leases match the reconciler's last targets and leave demand a slot, except
\* that a relay limited to one stream lends it.
WarmWithinBudget ==
    /\ Cardinality(targets) <= Budget
    /\ \A k \in Registered : wk[reg[k]].warm <=> k \in targets
    /\ mode # "always" => targets = {}

\* The failure and start tables are keyed by paths clients choose, and stay bounded.
TablesBounded ==
    /\ Cardinality(InRetry) <= 2 * MaxStreams
    /\ Cardinality(starts) <= 2 * MaxStreams

\* The operator's last saved mode is never lost: when the reconciler sleeps with no token
\* to wake it and no call is in progress, the relay follows the saved mode.
NoLostPolicy ==
    rec = "wait" /\ ~wake /\ admin = "idle" /\ closePc = "open" => mode = settings

\* A reconcile pass that read the catalog before the operator's last call never takes back
\* what the relay has adopted since.
PolicyNotUndone ==
    [][mode = settings /\ admin = "idle" /\ admin' = "idle" => mode' = mode]_vars

\* Once Close waits, every worker is retired and none is started behind it.
ClosedStaysEmpty ==
    closePc \in {"joining", "joined"} => Registered = {} /\ \A w \in Workers : wk[w].retired

\* A worker somebody watches or waits for is taken away only by the operator, by Close or
\* because its own upstream ended; never by the reaper, the reconciler or other demand.
DemandProtected ==
    [][\A w \in Workers :
         ~wk[w].retired /\ wk'[w].retired /\ (wk[w].pending > 0 \/ wk[w].playing # {})
            => w \in pulling \cup closing \/ wk[w].run = "exit"]_vars

\* A worker that the operator has invalidated does not send its route into backoff, so the
\* new source is warmed at once.
InvalidationForgetsBackoff ==
    [][\A w \in pulling : \A k \in Keys :
         wk[w].key = k /\ reg[k] = w /\ retry[k] = "none" => retry'[k] = "none"]_vars

\* Every DESCRIBE and SETUP is answered, whatever its upstream does.
DemandAnswered == \A c \in Clients : op[c] # Idle ~> op[c] = Idle

\* A connection the relay hangs up on goes away.
HungCloses == \A c \in Clients : link[c] = "hung" ~> link[c] = "closed"

\* Close returns.
CloseTerminates == closePc = "closed" ~> closePc = "joined"

NobodyThere == \A c \in Clients : op[c] = Idle /\ sessions[c] = None /\ conns[c] = None

\* Unless inputs are warmed always, every camera connection is released once nobody has asked
\* or watched for long enough.
UnusedDrains ==
    <>[](settings # "always" /\ admin = "idle" /\ NobodyThere) => <>[](Registered = {})
============================================================================
