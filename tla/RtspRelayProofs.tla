-------------------------- MODULE RtspRelayProofs --------------------------
(***************************************************************************)
(* Theorems about RtspRelay for every set of keys, clients and workers and *)
(* every stream limit.                                                     *)
(***************************************************************************)
EXTENDS RtspRelay, FiniteSetTheorems, TLAPS

USE NoneAssumption

----------------------------------------------------------------------------
(* Types.  Counters range over Int here; that they are natural follows from *)
(* what they count.                                                         *)

Objects == WorkerType(Int)

\* A worker is born a relayStream.
LEMMA BirthTypes ==
    /\ Gone \in Objects
    /\ \A k \in Keys, b \in BOOLEAN, T \in SUBSET Keys : NewWorker(k, b, T) \in Objects
<1>1. Gone \in Objects
  BY SMT DEF Gone, Objects, WorkerType
<1>2. ASSUME NEW k \in Keys, NEW b \in BOOLEAN, NEW T \in SUBSET Keys
      PROVE  NewWorker(k, b, T) \in Objects
  BY SMT DEF NewWorker, Objects, WorkerType
<1> QED BY <1>1, <1>2

\* Every operation on a relayStream yields a relayStream.
LEMMA RecordTypes ==
    ASSUME NEW r \in Objects
    PROVE  /\ Retired(r) \in Objects /\ Finished(r) \in Objects
           /\ Reserved(r) \in Objects /\ Unreserved(r) \in Objects
           /\ Dialing(r) \in Objects /\ Exited(r) \in Objects
           /\ \A T \in SUBSET Keys : Leased(r, T) \in Objects
           /\ \A t \in {"stopped", "armed"} : Published(r, t) \in Objects
           /\ Aged(r) \in Objects /\ Unviewed(r) \in Objects /\ Fired(r) \in Objects
           /\ Cancelled(r) \in Objects /\ Cleaned(r) \in Objects
<1> USE DEF Objects, WorkerType
<1>1. Retired(r) \in Objects
  <2>1. CASE r.retired
    <3>1. Retired(r) = r
      BY <2>1, Zenon DEF Retired
    <3> HIDE DEF Objects, WorkerType
    <3> QED BY <3>1
  <2>2. CASE ~r.retired
    <3>1. r.readers \cup r.conns \in SUBSET Clients
      BY Zenon
    <3>2. (IF r.ready = "open" THEN "err" ELSE r.ready) \in {"open", "ok", "err"}
      BY Zenon
    <3>3. Retired(r) = [r EXCEPT !.retired = TRUE, !.ready = IF @ = "open" THEN "err" ELSE @,
                                 !.readers = {}, !.playing = {}, !.conns = {},
                                 !.used = "fresh", !.viewed = "never", !.warm = FALSE,
                                 !.timer = "stopped",
                                 !.cleanup = TRUE, !.captured = r.readers \cup r.conns]
      BY <2>2, Zenon DEF Retired
    <3> QED BY <3>1, <3>2, <3>3, ZenonT(60)
  <2> QED BY <2>1, <2>2
<1>2. Finished(r) \in Objects
  BY BirthTypes, ZenonT(40) DEF Finished
<1>3. Reserved(r) \in Objects /\ Unreserved(r) \in Objects
  <2>1. r.pending + 1 \in Int /\ r.pending - 1 \in Int
    BY SMT
  <2> QED BY <2>1, Zenon DEF Reserved, Unreserved
<1>4. Dialing(r) \in Objects /\ Exited(r) \in Objects
  <2>1. Dialing(r) \in Objects
    BY ZenonT(60) DEF Dialing
  <2>2. Exited(r) \in Objects
    BY ZenonT(60) DEF Exited
  <2> QED BY <2>1, <2>2
<1>5. ASSUME NEW T \in SUBSET Keys PROVE Leased(r, T) \in Objects
  BY Zenon DEF Leased
<1>6. ASSUME NEW t \in {"stopped", "armed"} PROVE Published(r, t) \in Objects
  BY Zenon DEF Published
<1>7. Aged(r) \in Objects /\ Unviewed(r) \in Objects
  BY ZenonT(60) DEF Aged, Unviewed
<1>8. Fired(r) \in Objects /\ Cancelled(r) \in Objects
  BY ZenonT(60) DEF Fired, Cancelled
<1>9. Cleaned(r) \in Objects
  BY ZenonT(60) DEF Cleaned
<1> QED
  <2> HIDE DEF Objects, WorkerType
  <2> QED BY <1>1, <1>2, <1>3, <1>4, <1>5, <1>6, <1>7, <1>8, <1>9, Zenon

\* So does everything a client does to one.
LEMMA ClientTypes ==
    ASSUME NEW r \in Objects, NEW c \in Clients
    PROVE  /\ Bound(r, c) \in Objects /\ Unbound(r, c) \in Objects /\ Joined(r, c) \in Objects
           /\ Watched(r, c) \in Objects /\ Paused(r, c) \in Objects /\ Left(r, c) \in Objects
<1> USE DEF Objects, WorkerType
<1>1. Bound(r, c) \in Objects /\ Unbound(r, c) \in Objects /\ Joined(r, c) \in Objects
  BY ZenonT(60) DEF Bound, Unbound, Joined
<1>2. LeftBy(r, c) \in {"never", "recent", "past"}
  BY Zenon DEF LeftBy
<1>3. Watched(r, c) \in Objects /\ Paused(r, c) \in Objects /\ Left(r, c) \in Objects
  <2>1. Watched(r, c) \in Objects
    BY ZenonT(60) DEF Watched
  <2>2. Paused(r, c) \in Objects
    BY <1>2, ZenonT(60) DEF Paused
  <2>3. Left(r, c) \in Objects
    BY <1>2, ZenonT(60) DEF Left
  <2> QED BY <2>1, <2>2, <2>3, Zenon
<1> QED
  <2> HIDE DEF Objects, WorkerType
  <2> QED BY <1>1, <1>3, Zenon

\* Retiring workers keeps the relay's maps well typed.
LEMMA RetireTypes ==
    ASSUME Typed(Int), NEW R \in SUBSET Workers
    PROVE  /\ Unregister(R) \in [Keys -> Workers \cup {None}]
           /\ RetireIn(wk, R) \in [Workers -> Objects]
           /\ DropSessions(R) \in [Clients -> Workers \cup {None}]
           /\ DropConns(R) \in [Clients -> Workers \cup {None}]
<1>1. wk \in [Workers -> Objects]
  BY DEF Typed, Objects
<1>2. ASSUME NEW w \in Workers PROVE Retired(wk[w]) \in Objects
  BY <1>1, RecordTypes
<1>3. RetireIn(wk, R) \in [Workers -> Objects]
  BY <1>1, <1>2 DEF RetireIn
<1> QED BY <1>3 DEF Typed, Unregister, DropSessions, DropConns

\* A lookup joins a worker or starts one.
LEMMA RequestTypes ==
    ASSUME Typed(Int), NEW c \in Clients, NEW kind \in {"describe", "setup"}, NEW k \in Keys,
           Request(c, kind, k)
    PROVE  Typed(Int)'
<1> USE DEF pool, net, policy, loop, control, shutdown
<1> wk \in [Workers -> Objects]
  BY DEF Typed, Objects
<1>1. ASSUME NEW w \in Workers, Enter(c, kind, w)
      PROVE  op' \in [Clients -> OpType]
  BY <1>1 DEF Enter, OpType, Typed
<1>2. CASE JoinWorker(c, kind, k)
  <2>1. reg[k] \in Workers
    BY <1>2 DEF JoinWorker, Typed
  <2>2. wk' \in [Workers -> Objects]
    BY <1>2, <2>1, RecordTypes DEF JoinWorker
  <2> QED BY <1>1, <1>2, <2>1, <2>2 DEF Typed, Objects, JoinWorker, Request
<1>3. CASE StartForDemand(c, kind, k)
  <2>1. PICK R \in Victims, w \in Free : StartForDemand(c, kind, k)!2!(R, w)
    BY <1>3 DEF StartForDemand
  <2>2. R \in SUBSET Workers /\ w \in Workers
    BY DEF Victims, IdleWarm, Registered, Free, Typed
  <2>3. Reserved(NewWorker(k, FALSE, targets)) \in Objects
    <3>1. NewWorker(k, FALSE, targets) \in Objects
      BY BirthTypes DEF Typed
    <3> QED BY <3>1, RecordTypes
  <2>5. reg' \in [Keys -> Workers \cup {None}] /\ wk' \in [Workers -> Objects]
    BY <2>1, <2>2, <2>3, RetireTypes
  <2>6. sessions' \in [Clients -> Workers \cup {None}] /\ conns' \in [Clients -> Workers \cup {None}]
    BY <2>1, <2>2, RetireTypes
  <2>7. op' \in [Clients -> OpType]
    BY <1>1, <2>1, <2>2
  <2>8. link' \in [Clients -> {"open", "hung", "closed"}]
    BY DEF Request, Typed
  <2>9. UNCHANGED <<starts, reaping, policy, loop, control, shutdown>>
    BY DEF Request
  <2> QED BY <2>5, <2>6, <2>7, <2>8, <2>9 DEF Typed, Objects
<1> QED BY <1>2, <1>3 DEF Request

\* A goroutine that has not returned serves a key.
Keyed == \A w \in Workers : wk[w].run # "done" => wk[w].key \in Keys

\* Changing one relayStream keeps the table of them.
LEMMA OneObject ==
    ASSUME wk \in [Workers -> Objects], NEW w, NEW r, w \in Workers => r \in Objects
    PROVE  [wk EXCEPT ![w] = r] \in [Workers -> Objects]
  OBVIOUS

\* The handlers of a connection keep the types.
LEMMA HandlerTypes ==
    ASSUME Typed(Int), NEW c \in Clients,
           WaitReady(c) \/ WaitCancelled(c) \/ Bind(c) \/ Release(c) \/ ConnClose(c)
    PROVE  Typed(Int)'
<1> USE DEF pool, net, policy, loop, control, shutdown
<1>0. wk \in [Workers -> Objects]
  BY DEF Typed, Objects
<1>1. Idle \in OpType /\ op[c] \in OpType
  BY DEF Typed, Idle, OpType
<1>2. ASSUME NEW at \in {"idle", "wait", "hold", "release"}
      PROVE  [op EXCEPT ![c].at = at] \in [Clients -> OpType]
  BY DEF Typed, OpType
<1>3. [op EXCEPT ![c] = Idle] \in [Clients -> OpType]
  BY <1>1 DEF Typed
<1>4. ASSUME NEW w PROVE [wk EXCEPT ![w] = Unreserved(@)] \in [Workers -> Objects]
  BY <1>0, RecordTypes, OneObject
<1>5. CASE WaitReady(c)
  <2>1. wk' \in [Workers -> Objects] /\ op' \in [Clients -> OpType]
    BY <1>0, <1>2, <1>3, <1>4, <1>5 DEF WaitReady
  <2> QED BY <2>1, <1>5 DEF Typed, Objects, WaitReady
<1>6. CASE WaitCancelled(c)
  BY <1>2, <1>6 DEF Typed, WaitCancelled
<1>7. CASE Release(c)
  <2>1. wk' \in [Workers -> Objects] /\ op' \in [Clients -> OpType]
    BY <1>3, <1>4, <1>7 DEF Release
  <2> QED BY <2>1, <1>7 DEF Typed, Objects, Release
<1>8. CASE ConnClose(c)
  <2>1. wk' \in [Workers -> Objects]
    <3>1. \A v \in Workers : Unbound(wk[v], c) \in Objects
      BY <1>0, ClientTypes
    <3> QED BY <1>0, <1>8, <3>1, OneObject DEF ConnClose
  <2> QED BY <2>1, <1>8 DEF Typed, Objects, ConnClose
<1>9. CASE Bind(c)
  <2> DEFINE w == op[c].worker
  <2>1. w \in Workers \cup {None}
    BY <1>1 DEF OpType
  <2>2. \A v \in Workers : /\ Unbound(wk[v], c) \in Objects /\ Bound(wk[v], c) \in Objects
                           /\ Bound(Joined(wk[v], c), c) \in Objects
    <3>1. \A v \in Workers : wk[v] \in Objects
      BY <1>0
    <3> QED BY <3>1, ClientTypes
  <2>3. wk' \in [Workers -> Objects]
    BY <1>0, <1>9, <2>2 DEF Bind, BindConn
  <2>4. /\ op' \in [Clients -> OpType] /\ reg' = reg
        /\ conns' \in [Clients -> Workers \cup {None}]
        /\ sessions' \in [Clients -> Workers \cup {None}]
        /\ UNCHANGED <<link, starts, reaping, policy, loop, control, shutdown>>
    BY <1>2, <1>9, <2>1 DEF Bind, Typed
  <2> QED BY <2>3, <2>4 DEF Typed, Objects
<1> QED BY <1>5, <1>6, <1>7, <1>8, <1>9

\* So do playing, leaving and hanging up.
LEMMA ClientStepTypes ==
    ASSUME Typed(Int), NEW c \in Clients,
           Play(c) \/ Pause(c) \/ SessionClose(c) \/ Hangup(c)
    PROVE  Typed(Int)'
<1> USE DEF pool, net, policy, loop, control, shutdown
<1>0. wk \in [Workers -> Objects]
  BY DEF Typed, Objects
<1>1. CASE Hangup(c)
  BY <1>1 DEF Typed, Hangup
<1>2. CASE Play(c) \/ Pause(c) \/ SessionClose(c)
  <2>1. \A v \in Workers : /\ Watched(wk[v], c) \in Objects /\ Paused(wk[v], c) \in Objects
                           /\ Left(wk[v], c) \in Objects
    BY <1>0, ClientTypes
  <2>2. wk' \in [Workers -> Objects]
    BY <1>0, <1>2, <2>1, OneObject DEF Play, Pause, SessionClose
  <2>3. sessions' \in [Clients -> Workers \cup {None}]
    BY <1>2 DEF Play, Pause, SessionClose, Typed
  <2>4. UNCHANGED <<reg, conns, link, op, starts, reaping, policy, loop, control, shutdown>>
    BY <1>2 DEF Play, Pause, SessionClose
  <2> QED BY <2>2, <2>3, <2>4 DEF Typed, Objects
<1> QED BY <1>1, <1>2

\* The clock, a worker's goroutine and its clean-up keep the types.
LEMMA RunStepTypes ==
    ASSUME Typed(Int), Keyed, ClockStep \/ RunStep
    PROVE  Typed(Int)'
<1> USE DEF pool, net, policy, loop, control, shutdown
<1>0. wk \in [Workers -> Objects]
  BY DEF Typed, Objects
<1>1. ASSUME NEW w \in Workers, Age(w) \/ AgeView(w) \/ TimerFires(w)
      PROVE  Typed(Int)'
  <2>1. wk' \in [Workers -> Objects]
    BY <1>0, <1>1, RecordTypes, OneObject DEF Age, AgeView, TimerFires
  <2>2. /\ UNCHANGED <<reg, sessions, conns, op, link, starts, reaping>>
        /\ UNCHANGED <<policy, loop, control, shutdown>>
    BY <1>1 DEF Age, AgeView, TimerFires
  <2> QED BY <2>1, <2>2 DEF Typed, Objects
<1>2. ASSUME NEW k \in Keys, RetryExpires(k)
      PROVE  Typed(Int)'
  BY <1>2 DEF Typed, RetryExpires
<1>3. ASSUME NEW w \in Workers, RunRejects(w) \/ RunFails(w) \/ RunEnds(w)
      PROVE  Typed(Int)'
  <2>1. wk' \in [Workers -> Objects]
    BY <1>0, <1>3, RecordTypes, OneObject DEF RunRejects, RunFails, RunEnds, Exits
  <2>2. /\ UNCHANGED <<reg, sessions, conns, op, link, starts, reaping>>
        /\ UNCHANGED <<policy, loop, control, shutdown>>
    BY <1>3 DEF RunRejects, RunFails, RunEnds
  <2> QED BY <2>1, <2>2 DEF Typed, Objects
<1>4. ASSUME NEW w \in Workers, RunResolves(w)
      PROVE  Typed(Int)'
  <2>1. wk' \in [Workers -> Objects]
    BY <1>0, <1>4, RecordTypes, OneObject DEF RunResolves
  <2>2. wk[w].key \in Keys
    BY <1>4 DEF RunResolves, Keyed
  <2>3. starts' \in SUBSET Keys
    BY <2>2, <1>4 DEF RunResolves, StartsAfter, Typed
  <2>4. UNCHANGED <<reg, sessions, conns, link, op, reaping, policy, loop, control, shutdown>>
    BY <1>4 DEF RunResolves
  <2> QED BY <2>1, <2>3, <2>4 DEF Typed, Objects
<1>5. ASSUME NEW w \in Workers
      PROVE  StartingAfter(w) \in Int
  BY DEF StartingAfter, Typed
<1>6. ASSUME NEW w \in Workers, RunReady(w)
      PROVE  Typed(Int)'
  <2>1. wk' \in [Workers -> Objects] /\ starting' \in Int /\ wake' \in BOOLEAN
    BY <1>0, <1>5, <1>6, RecordTypes, OneObject DEF RunReady, Exits, Typed
  <2>2. /\ UNCHANGED <<reg, sessions, conns, link, op, starts, mode, targets, retry, rec, snap>>
        /\ UNCHANGED <<reaping, control, shutdown>>
    BY <1>6 DEF RunReady
  <2> QED BY <2>1, <2>2 DEF Typed, Objects
<1>7. ASSUME NEW w \in Workers, RunFinishes(w)
      PROVE  Typed(Int)'
  <2>1. wk' \in [Workers -> Objects]
    BY <1>0, <1>7, RecordTypes, OneObject DEF RunFinishes
  <2>2. /\ reg' \in [Keys -> Workers \cup {None}]
        /\ sessions' \in [Clients -> Workers \cup {None}]
        /\ conns' \in [Clients -> Workers \cup {None}]
    BY <1>7, RetireTypes DEF RunFinishes
  <2>3. retry' \in [Keys -> {"none", "cooling", "expired"}]
    BY <1>7 DEF RunFinishes, RetryAfter, Typed
  <2>4. /\ starting' \in Int /\ wake' \in BOOLEAN
        /\ UNCHANGED <<link, op, starts, mode, targets, rec, snap, reaping, control, shutdown>>
    BY <1>5, <1>7 DEF RunFinishes
  <2> QED BY <2>1, <2>2, <2>3, <2>4 DEF Typed, Objects
<1>8. ASSUME NEW w \in Workers, Cleanup(w)
      PROVE  Typed(Int)'
  <2>1. wk' \in [Workers -> Objects]
    BY <1>0, <1>8, RecordTypes, OneObject DEF Cleanup
  <2>2. link' \in [Clients -> {"open", "hung", "closed"}]
    BY <1>8 DEF Cleanup, Typed
  <2>3. UNCHANGED <<reg, sessions, conns, op, starts, reaping, policy, loop, control, shutdown>>
    BY <1>8 DEF Cleanup
  <2> QED BY <2>1, <2>2, <2>3 DEF Typed, Objects
<1> QED BY <1>1, <1>2, <1>3, <1>4, <1>6, <1>7, <1>8 DEF ClockStep, RunStep

\* Retiring workers, whoever does it, keeps the types.
LEMMA RetireAllTypes ==
    ASSUME Typed(Int), NEW R \in SUBSET Workers, RetireAll(R)
    PROVE  /\ reg' \in [Keys -> Workers \cup {None}]
           /\ wk' \in [Workers -> Objects]
           /\ sessions' \in [Clients -> Workers \cup {None}]
           /\ conns' \in [Clients -> Workers \cup {None}]
  BY RetireTypes DEF RetireAll

Snapshots == [mode : {"off", "recent", "always"}, current : BOOLEAN]

\* A snapshot stays one when it is voided or filled.
LEMMA SnapshotTypes ==
    ASSUME Typed(Int)
    PROVE  /\ [snap EXCEPT !.current = FALSE] \in Snapshots
           /\ [snap EXCEPT !.mode = settings] \in Snapshots
<1> snap \in Snapshots /\ settings \in {"off", "recent", "always"}
  BY DEF Typed, Snapshots
<1> QED BY Zenon DEF Snapshots

\* The reaper, the operator and Close keep the types.
LEMMA TakerTypes ==
    ASSUME Typed(Int), ReapStep \/ AdminStep \/ CloseStep
    PROVE  Typed(Int)'
<1> USE DEF pool, net, policy, loop, control, shutdown
<1>0. wk \in [Workers -> Objects]
  BY DEF Typed, Objects
<1>1. CASE ReapScan
  BY <1>1 DEF Typed, ReapScan, Registered
<1>2. ASSUME NEW w \in Workers, ReapNext(w)
      PROVE  Typed(Int)'
  <2>1. CASE ~wk[w].retired /\ Reapable(wk[w])
    <3>1. RetireAll({w})
      BY <1>2, <2>1 DEF ReapNext
    <3>2. reaping' \in SUBSET Workers
          /\ UNCHANGED <<starts, net, policy, loop, control, shutdown>>
      BY <1>2 DEF ReapNext, Typed
    <3> QED BY <3>1, <3>2, RetireAllTypes DEF Typed, Objects
  <2>2. CASE ~(~wk[w].retired /\ Reapable(wk[w]))
    <3>1. UNCHANGED pool
      BY <1>2, <2>2 DEF ReapNext
    <3>2. reaping' \in SUBSET Workers
          /\ UNCHANGED <<starts, net, policy, loop, control, shutdown>>
      BY <1>2 DEF ReapNext, Typed
    <3> QED BY <3>1, <3>2 DEF Typed
  <2> QED BY <2>1, <2>2
<1>3. ASSUME NEW m \in {"off", "recent", "always"}, PersistSettings(m)
      PROVE  Typed(Int)'
  BY <1>3 DEF Typed, PersistSettings
<1>4. ASSUME NEW id, InvalidateStream(id)
      PROVE  Typed(Int)'
  <2>1. snap' \in Snapshots
    BY <1>4, SnapshotTypes DEF InvalidateStream
  <2>2. /\ retry' \in [Keys -> {"none", "cooling", "expired"}]
        /\ pulling' \in SUBSET Workers /\ admin' = "pull"
        /\ UNCHANGED <<mode, targets, starting, wake, rec, settings, starts, reaping>>
        /\ UNCHANGED <<pool, net, shutdown>>
    BY <1>4 DEF InvalidateStream, Registered, Typed
  <2> QED BY <2>1, <2>2 DEF Typed, Snapshots
<1>5. ASSUME NEW w \in Workers, PullNext(w)
      PROVE  Typed(Int)'
  <2>1. /\ RetireAll({w}) /\ pulling' \in SUBSET Workers
        /\ UNCHANGED <<settings, admin, starts, reaping, net, policy, loop, shutdown>>
    BY <1>5 DEF PullNext, Typed
  <2> QED BY <2>1, RetireAllTypes DEF Typed, Objects
<1>6. CASE Signal
  BY <1>6 DEF Typed, Signal
<1>11. CASE Start
  <2>1. /\ started' = TRUE /\ rec' \in {"begin", "off"}
        /\ UNCHANGED <<closePc, closing, wake, snap, starts, reaping>>
        /\ UNCHANGED <<pool, net, policy, control>>
    BY <1>11 DEF Start
  <2> QED BY <2>1 DEF Typed
<1>12. CASE Finish
  BY <1>12 DEF Typed, Finish, vars
<1>10. CASE Bump
  <2>1. snap' \in Snapshots
    BY <1>10, SnapshotTypes DEF Bump
  <2> QED BY <2>1, <1>10 DEF Bump, Typed, Snapshots
<1>7. CASE CloseBegins \/ CloseServer \/ CloseJoins
  BY <1>7 DEF Typed, CloseBegins, CloseServer, CloseJoins, Registered
<1>8. CASE CloseCancels
  <2>1. wk' \in [Workers -> Objects]
    BY <1>0, <1>8, RecordTypes DEF CloseCancels
  <2>2. /\ closePc' \in {"open", "closed", "cancelled", "joining", "joined"}
        /\ UNCHANGED <<started, closing, reg, sessions, conns, starts, reaping>>
        /\ UNCHANGED <<net, policy, loop, control>>
    BY <1>8 DEF CloseCancels
  <2> QED BY <2>1, <2>2 DEF Typed, Objects
<1>9. ASSUME NEW w \in Workers, CloseRetires(w)
      PROVE  Typed(Int)'
  <2>1. /\ RetireAll({w}) /\ closing' \in SUBSET Workers
        /\ UNCHANGED <<started, closePc, starts, reaping, net, policy, loop, control>>
    BY <1>9 DEF CloseRetires, Typed
  <2> QED BY <2>1, RetireAllTypes DEF Typed, Objects
<1> QED
  BY <1>1, <1>2, <1>3, <1>4, <1>5, <1>6, <1>7, <1>8, <1>9, <1>10, <1>11,
     <1>12
  DEF ReapStep, AdminStep, CloseStep

\* So does the reconciler; the warm workers it starts are new relayStreams.
LEMMA RecStepTypes ==
    ASSUME Typed(Int), RecStep
    PROVE  Typed(Int)'
<1> USE DEF pool, net, policy, loop, control, shutdown
<1>0. wk \in [Workers -> Objects]
  BY DEF Typed, Objects
<1>1. CASE RecFirst \/ RecWakes \/ RecTicks
  <2>1. PICK token \in BOOLEAN : RecBegins(token)
    BY <1>1 DEF RecFirst, RecWakes, RecTicks
  <2> QED BY <2>1 DEF RecBegins, NoSnap, Typed
<1>2. CASE RecRejects \/ RecStops
  <2>3. NoSnap \in Snapshots
    BY SMT DEF NoSnap, Snapshots
  <2>1. snap' \in Snapshots /\ rec' \in {"wait", "stopped"}
    BY <2>3, <1>2 DEF RecRejects, RecStops, Typed, Snapshots
  <2>2. UNCHANGED <<wake, starts, reaping, pool, net, policy, control, shutdown>>
    BY <1>2 DEF RecRejects, RecStops
  <2> QED BY <2>1, <2>2 DEF Typed, Snapshots
<1>4. CASE RecRead
  <2>1. snap' \in Snapshots
    BY <1>4, SnapshotTypes DEF RecRead
  <2> QED BY <2>1, <1>4 DEF RecRead, Typed, Snapshots
<1>3. CASE RecApplies
  <2> DEFINE R == Unwanted(targets')
             S == ToStart(targets', R)
             leased == [w \in Workers |-> Leased(wk[w], targets')]
  <2>2. targets' \in SUBSET Keys
    BY <1>3 DEF RecApplies, FirstOf, Catalog
  <2>1. R \in SUBSET Workers /\ S \in SUBSET Keys
    BY <2>2 DEF Unwanted, ToStart, FirstOf, Registered, Typed
  <2> HIDE DEF R, S
  <2>3. PICK f \in [S -> Free] :
           /\ reg' = [k \in Keys |-> IF k \in S THEN f[k] ELSE Unregister(R)[k]]
           /\ wk' = [w \in Workers |->
                       IF \E k \in S : f[k] = w
                       THEN NewWorker(CHOOSE k \in S : f[k] = w, TRUE, targets')
                       ELSE RetireIn(leased, R)[w]]
           /\ sessions' = DropSessions(R)
           /\ conns' = DropConns(R)
           /\ starting' = starting + Cardinality(S)
    BY <1>3, Zenon DEF RecApplies, R, S
  <2>4. \A w \in Workers : RetireIn(leased, R)[w] \in Objects
    <3>1. \A w \in Workers : leased[w] \in Objects
      BY <1>0, <2>2, RecordTypes
    <3> QED BY <3>1, RecordTypes DEF RetireIn
  <2>5. wk' \in [Workers -> Objects]
    <3>1. \A k \in S : NewWorker(k, TRUE, targets') \in Objects
      BY <2>1, <2>2, BirthTypes
    <3> QED BY <2>3, <2>4, <3>1
  <2>6. /\ reg' \in [Keys -> Workers \cup {None}]
        /\ sessions' \in [Clients -> Workers \cup {None}]
        /\ conns' \in [Clients -> Workers \cup {None}]
    BY <2>1, <2>3, RetireTypes DEF Free
  <2>7. starting' \in Int
    <3>1. Cardinality(S) \in Nat
      BY <2>1, KeysAssumption, FS_Subset, FS_CardinalityType
    <3> QED BY <2>3, <3>1 DEF Typed
  <2>8. /\ rec' \in {"off", "begin", "read", "apply", "wait", "stopped"}
        /\ snap' \in [mode : {"off", "recent", "always"}, current : BOOLEAN]
        /\ mode' \in {"off", "recent", "always"}
        /\ retry' \in [Keys -> {"none", "cooling", "expired"}]
        /\ UNCHANGED <<wake, starts, reaping, net, control, shutdown>>
    BY <1>3 DEF RecApplies, NoSnap, Typed
  <2> QED BY <2>2, <2>5, <2>6, <2>7, <2>8 DEF Typed, Objects
<1> QED BY <1>1, <1>2, <1>3, <1>4 DEF RecStep

\* Every step keeps the types.
LEMMA NextTypes ==
    ASSUME Typed(Int), Keyed, [Next]_vars
    PROVE  Typed(Int)'
<1>1. CASE UNCHANGED vars
  BY <1>1 DEF Typed, vars
<1>2. CASE ClientStep
  BY <1>2, RequestTypes, ClientStepTypes DEF ClientStep
<1>3. CASE HandlerStep
  BY <1>3, HandlerTypes DEF HandlerStep
<1> QED
  BY <1>1, <1>2, <1>3, RunStepTypes, TakerTypes, RecStepTypes DEF Next
----------------------------------------------------------------------------
(* The registry and the two index maps. *)

\* What the registry and the index maps depend on of a relayStream.
SameFace(q, r) == /\ q.key = r.key /\ q.retired = r.retired
                  /\ q.readers = r.readers /\ q.conns = r.conns
                  /\ q.run = "done" <=> r.run = "done"

\* The operations that leave it alone.
LEMMA Faces ==
    ASSUME NEW r \in Objects
    PROVE  /\ SameFace(Reserved(r), r) /\ SameFace(Unreserved(r), r)
           /\ SameFace(Aged(r), r) /\ SameFace(Unviewed(r), r) /\ SameFace(Fired(r), r)
           /\ SameFace(Cancelled(r), r) /\ SameFace(Cleaned(r), r)
           /\ \A T : SameFace(Leased(r, T), r)
           /\ r.run # "done" => /\ SameFace(Dialing(r), r) /\ SameFace(Exited(r), r)
                                /\ \A t : SameFace(Published(r, t), r)
  BY SMT DEF SameFace, Objects, WorkerType, Reserved, Unreserved, Aged, Unviewed, Fired,
             Cancelled, Cleaned, Leased, Dialing, Exited, Published

\* What retireLocked makes of a relayStream, and finishWorker of a retired one.
LEMMA Fates ==
    ASSUME NEW r \in Objects
    PROVE  /\ Retired(r).retired /\ Retired(r).key = r.key /\ Retired(r).run = r.run
           /\ r.retired => Retired(r) = r
           /\ ~r.retired => Retired(r).readers = {} /\ Retired(r).conns = {}
           /\ Finished(r).retired /\ Finished(r).run = "done"
           /\ Finished(r).readers = {} /\ Finished(r).conns = {}
<1>1. /\ Finished(r).retired /\ Finished(r).run = "done"
      /\ Finished(r).readers = {} /\ Finished(r).conns = {}
  BY SMT DEF Finished, Gone
<1>2. CASE r.retired
  BY <1>1, <1>2 DEF Retired
<1>3. CASE ~r.retired
  <2>1. /\ Retired(r).retired /\ Retired(r).key = r.key /\ Retired(r).run = r.run
        /\ Retired(r).readers = {} /\ Retired(r).conns = {}
    BY <1>3, Zenon DEF Retired, Objects, WorkerType
  <2> QED BY <1>1, <1>3, <2>1
<1> QED BY <1>2, <1>3

\* The shape of every step but a client's: the workers in R are retired, each key in S
\* gets a worker that was free, and the others keep their identity and their clients.
Reshapes(R, S, f) ==
    /\ reg' = [k \in Keys |-> IF k \in S THEN f[k] ELSE Unregister(R)[k]]
    /\ sessions' = DropSessions(R)
    /\ conns' = DropConns(R)
    /\ \A k \in S : /\ wk'[f[k]].key = k /\ ~wk'[f[k]].retired /\ wk'[f[k]].run = "new"
                    /\ wk'[f[k]].readers = {} /\ wk'[f[k]].conns = {}
    /\ \A w \in Workers : (\A k \in S : f[k] # w) =>
          IF w \in R
          THEN /\ wk'[w].retired /\ wk'[w].readers = {} /\ wk'[w].conns = {}
               /\ wk'[w].run = "done" \/ (wk'[w].key = wk[w].key /\ wk'[w].run = wk[w].run)
          ELSE SameFace(wk'[w], wk[w])

\* Such a step keeps the registry honest and the index maps in agreement with the workers.
LEMMA ReshapeKeeps ==
    ASSUME Typed(Int), Keyed, RegistryHonest, IndexAgrees,
           NEW R \in SUBSET Workers, NEW S \in SUBSET Keys, NEW f \in [S -> Free],
           Injective(f), \A k \in S : reg[k] \in R \cup {None},
           Reshapes(R, S, f)
    PROVE  Keyed' /\ RegistryHonest' /\ IndexAgrees'
<1> USE DEF SameFace
<1>1. /\ \A w \in Workers : w \in Free => wk[w] = Gone
      /\ Free \subseteq Workers
  BY DEF Free
<1>2. Gone.retired /\ Gone.readers = {} /\ Gone.conns = {}
  BY DEF Gone
<1>3. \A k \in Keys : reg'[k] = IF k \in S THEN f[k] ELSE IF reg[k] \in R THEN None ELSE reg[k]
  BY DEF Reshapes, Unregister
<1>4. \A j, k \in S : f[j] = f[k] => j = k
  BY DEF Injective
<1>5. RegistryHonest'
  <2>1. ASSUME NEW k \in Keys, reg'[k] # None
        PROVE  wk'[reg'[k]].key = k /\ ~wk'[reg'[k]].retired
    <3>1. CASE k \in S
      BY <1>3, <3>1 DEF Reshapes
    <3>2. CASE k \notin S
      <4>1. reg[k] \notin R /\ reg'[k] = reg[k] /\ reg[k] # None /\ reg[k] \in Workers
        BY <1>3, <2>1, <3>2 DEF Typed
      <4>2. wk[reg[k]].key = k /\ ~wk[reg[k]].retired
        BY <4>1 DEF RegistryHonest, Registered
      <4>3. \A j \in S : f[j] # reg[k]
        BY <1>1, <1>2, <4>1, <4>2
      <4> QED BY <4>1, <4>2, <4>3 DEF Reshapes
    <3> QED BY <3>1, <3>2
  <2>2. ASSUME NEW w \in Workers, ~wk'[w].retired
        PROVE  wk'[w].key \in Keys /\ reg'[wk'[w].key] = w /\ wk'[w].run # "done"
    <3>1. CASE \E k \in S : f[k] = w
      BY <1>3, <3>1 DEF Reshapes
    <3>2. CASE \A k \in S : f[k] # w
      <4>1. w \notin R /\ ~wk[w].retired /\ wk'[w].key = wk[w].key
            /\ (wk'[w].run = "done" => wk[w].run = "done")
        BY <2>2, <3>2 DEF Reshapes
      <4>2. wk[w].key \in Keys /\ reg[wk[w].key] = w /\ wk[w].run # "done"
        BY <4>1 DEF RegistryHonest
      <4>3. wk[w].key \notin S
        BY <4>1, <4>2, NoneAssumption
      <4> QED BY <1>3, <4>1, <4>2, <4>3
    <3> QED BY <3>1, <3>2
  <2> QED BY <2>1, <2>2 DEF RegistryHonest, Registered
<1>6. ASSUME NEW c \in Clients, NEW w \in Workers
      PROVE  /\ c \in wk'[w].readers <=> sessions'[c] = w
             /\ c \in wk'[w].conns <=> conns'[c] = w
             /\ wk'[w].retired => sessions'[c] # w /\ conns'[c] # w
  <2>1. /\ \A v \in Workers : c \in wk[v].readers <=> sessions[c] = v
        /\ \A v \in Workers : c \in wk[v].conns <=> conns[c] = v
        /\ \A v \in Workers : wk[v].retired => sessions[c] # v /\ conns[c] # v
    BY DEF IndexAgrees
  <2>2. /\ sessions'[c] = IF sessions[c] \in R THEN None ELSE sessions[c]
        /\ conns'[c] = IF conns[c] \in R THEN None ELSE conns[c]
    BY <2>1 DEF Reshapes, DropSessions, DropConns
  <2>3. CASE \E k \in S : f[k] = w
    <3>1. wk[w] = Gone
      BY <1>1, <2>3
    <3>2. sessions'[c] # w /\ conns'[c] # w
      BY <1>2, <2>1, <2>2, <3>1
    <3>3. wk'[w].readers = {} /\ wk'[w].conns = {} /\ ~wk'[w].retired
      BY <2>3 DEF Reshapes
    <3> QED BY <3>2, <3>3
  <2>4. CASE (\A k \in S : f[k] # w) /\ w \in R
    <3>1. wk'[w].readers = {} /\ wk'[w].conns = {}
      BY <2>4 DEF Reshapes
    <3> QED BY <2>2, <2>4, <3>1
  <2>5. CASE (\A k \in S : f[k] # w) /\ w \notin R
    <3>1. /\ wk'[w].retired = wk[w].retired
          /\ wk'[w].readers = wk[w].readers /\ wk'[w].conns = wk[w].conns
      BY <2>5 DEF Reshapes
    <3> QED BY <2>1, <2>2, <2>5, <3>1
  <2> QED BY <2>3, <2>4, <2>5
<1>7. Keyed'
  <2>1. ASSUME NEW w \in Workers, wk'[w].run # "done"
        PROVE  wk'[w].key \in Keys
    BY <2>1 DEF Reshapes, Keyed
  <2> QED BY <2>1 DEF Keyed
<1> QED BY <1>5, <1>6, <1>7 DEF IndexAgrees

\* A step that only changes other parts of the relayStreams keeps both.
LEMMA QuietKeeps ==
    ASSUME Keyed, RegistryHonest, IndexAgrees, UNCHANGED <<reg, sessions, conns>>,
           \A w \in Workers : SameFace(wk'[w], wk[w]), reg \in [Keys -> Workers \cup {None}]
    PROVE  Keyed' /\ RegistryHonest' /\ IndexAgrees'
  BY DEF Keyed, RegistryHonest, Registered, IndexAgrees, SameFace

\* A retired worker has no clients left.
LEMMA RetiredAlone ==
    ASSUME Typed(Int), IndexAgrees, NEW w \in Workers, wk[w].retired
    PROVE  wk[w].readers = {} /\ wk[w].conns = {}
<1>1. wk[w].readers \subseteq Clients /\ wk[w].conns \subseteq Clients
  BY DEF Typed, WorkerType
<1>2. \A c \in Clients : c \notin wk[w].readers /\ c \notin wk[w].conns
  BY DEF IndexAgrees
<1> QED BY <1>1, <1>2

Nobody == [k \in {} |-> None]

\* retireLocked, called for R by the reaper, the operator or Close, has that shape.
LEMMA RetireReshapes ==
    ASSUME Typed(Int), IndexAgrees, NEW R \in SUBSET Workers, RetireAll(R)
    PROVE  Reshapes(R, {}, Nobody)
<1>1. \A w \in Workers : wk[w] \in Objects
  BY DEF Typed, Objects
<1>2. ASSUME NEW w \in Workers, w \in R
      PROVE  /\ wk'[w].retired /\ wk'[w].readers = {} /\ wk'[w].conns = {}
             /\ wk'[w].key = wk[w].key /\ wk'[w].run = wk[w].run
  <2>1. wk'[w] = Retired(wk[w])
    BY <1>2 DEF RetireAll, RetireIn
  <2>2. wk[w].retired => wk[w].readers = {} /\ wk[w].conns = {}
    BY RetiredAlone
  <2> QED BY <1>1, <2>1, <2>2, Fates
<1>3. ASSUME NEW w \in Workers, w \notin R
      PROVE  SameFace(wk'[w], wk[w])
  BY <1>3 DEF RetireAll, RetireIn, SameFace
<1>4. reg' = [k \in Keys |-> IF k \in {} THEN Nobody[k] ELSE Unregister(R)[k]]
  BY DEF RetireAll, Unregister
<1> QED BY <1>2, <1>3, <1>4 DEF Reshapes, RetireAll

\* And so it keeps them.
LEMMA RetireAllKeeps ==
    ASSUME Typed(Int), Keyed, RegistryHonest, IndexAgrees, NEW R \in SUBSET Workers, RetireAll(R)
    PROVE  Keyed' /\ RegistryHonest' /\ IndexAgrees'
<1>1. Nobody \in [{} -> Free] /\ Injective(Nobody)
  BY DEF Nobody, Injective
<1> QED BY <1>1, RetireReshapes, ReshapeKeeps

\* The parts of the invariant that the shape of a step decides.
Bonds == Keyed /\ RegistryHonest /\ IndexAgrees

\* Changing one relayStream without its clients keeps the bonds.
LEMMA OneFace ==
    ASSUME Typed(Int), Bonds, NEW w, NEW r, w \in Workers => SameFace(r, wk[w]),
           wk' = [wk EXCEPT ![w] = r], UNCHANGED <<reg, sessions, conns>>
    PROVE  Bonds'
<1>1. wk \in [Workers -> Objects] /\ reg \in [Keys -> Workers \cup {None}]
  BY DEF Typed, Objects
<1>2. \A v \in Workers : SameFace(wk'[v], wk[v])
  BY <1>1 DEF SameFace
<1> QED BY <1>1, <1>2, QuietKeeps DEF Bonds

\* What the registry depends on of a relayStream.
SameIdentity(q, r) == /\ q.key = r.key /\ q.retired = r.retired
                      /\ q.run = "done" <=> r.run = "done"

\* The registry does not depend on clients.
LEMMA IdentityKeeps ==
    ASSUME Keyed, RegistryHonest, reg' = reg, reg \in [Keys -> Workers \cup {None}],
           \A w \in Workers : SameIdentity(wk'[w], wk[w])
    PROVE  Keyed' /\ RegistryHonest'
  BY DEF Keyed, RegistryHonest, Registered, SameIdentity

\* What binding, leaving and watching change of a relayStream.
LEMMA Binds ==
    ASSUME NEW r \in Objects, NEW c \in Clients
    PROVE  /\ \A q \in {Bound(r, c), Unbound(r, c), Joined(r, c), Watched(r, c), Paused(r, c),
                        Left(r, c)} : SameIdentity(q, r)
           /\ Bound(r, c).readers = r.readers /\ Bound(r, c).conns = r.conns \cup {c}
           /\ Unbound(r, c).readers = r.readers /\ Unbound(r, c).conns = r.conns \ {c}
           /\ Joined(r, c).readers = r.readers \cup {c} /\ Joined(r, c).conns = r.conns
           /\ Watched(r, c).readers = r.readers \cup {c} /\ Watched(r, c).conns = r.conns
           /\ Paused(r, c).readers = r.readers \cup {c} /\ Paused(r, c).conns = r.conns
           /\ Left(r, c).readers = r.readers \ {c} /\ Left(r, c).conns = r.conns
  BY SMT DEF SameIdentity, Objects, WorkerType, Bound, Unbound, Joined, Watched, Paused, Left

\* A demand start evicts at most one worker and gives the key a free one.
LEMMA RequestKeeps ==
    ASSUME Typed(Int), Bonds, NEW c \in Clients, NEW kind, NEW k \in Keys, Request(c, kind, k)
    PROVE  Bonds'
<1>0. \A w \in Workers : wk[w] \in Objects
  BY DEF Typed, Objects
<1>1. CASE JoinWorker(c, kind, k)
  <2>1. reg[k] \in Workers
    BY <1>1 DEF JoinWorker, Typed
  <2>2. SameFace(Reserved(wk[reg[k]]), wk[reg[k]])
    BY <1>0, <2>1, Faces
  <2> QED BY <1>1, <2>2, OneFace DEF JoinWorker
<1>2. CASE StartForDemand(c, kind, k)
  <2>1. PICK R \in Victims, w \in Free : StartForDemand(c, kind, k)!2!(R, w)
    BY <1>2 DEF StartForDemand
  <2>2. R \in SUBSET Workers /\ w \in Workers /\ wk[w] = Gone
    BY DEF Victims, IdleWarm, Registered, Free, Typed
  <2> DEFINE r == Reserved(NewWorker(k, FALSE, targets))
             f == [j \in {k} |-> w]
  <2>3. r.key = k /\ ~r.retired /\ r.run = "new" /\ r.readers = {} /\ r.conns = {}
    BY SMT DEF Reserved, NewWorker
  <2>4. \A v \in Workers : v # w => wk'[v] = IF v \in R THEN Retired(wk[v]) ELSE wk[v]
    BY <2>1 DEF RetireIn
  <2>5. wk'[w] = r
    BY <2>1, <2>2 DEF RetireIn
  <2>6. reg' = [j \in Keys |-> IF j \in {k} THEN f[j] ELSE Unregister(R)[j]]
    BY <2>1 DEF Unregister
  <2>7. ASSUME NEW v \in Workers, v # w, v \in R
        PROVE  /\ wk'[v].retired /\ wk'[v].readers = {} /\ wk'[v].conns = {}
               /\ wk'[v].key = wk[v].key /\ wk'[v].run = wk[v].run
    <3>1. wk[v].retired => wk[v].readers = {} /\ wk[v].conns = {}
      BY RetiredAlone DEF Bonds
    <3> QED BY <1>0, <2>4, <2>7, <3>1, Fates
  <2>8. ASSUME NEW v \in Workers, v # w, v \notin R
        PROVE  SameFace(wk'[v], wk[v])
    BY <2>4, <2>8 DEF SameFace
  <2>9. Reshapes(R, {k}, f)
    <3> HIDE DEF r
    <3> QED BY <2>1, <2>2, <2>3, <2>5, <2>6, <2>7, <2>8 DEF Reshapes
  <2>10. f \in [{k} -> Free] /\ Injective(f) /\ \A j \in {k} : reg[j] \in R \cup {None}
    BY <1>2 DEF Injective, StartForDemand
  <2> HIDE DEF f
  <2> QED BY <2>2, <2>9, <2>10, ReshapeKeeps DEF Bonds
<1> QED BY <1>1, <1>2 DEF Request

\* The handlers, and the callbacks that move a client between workers.
LEMMA HandlerKeeps ==
    ASSUME Typed(Int), Bonds, NEW c \in Clients,
           WaitReady(c) \/ WaitCancelled(c) \/ Bind(c) \/ Release(c) \/ ConnClose(c)
    PROVE  Bonds'
<1>0. wk \in [Workers -> Objects] /\ reg \in [Keys -> Workers \cup {None}]
  BY DEF Typed, Objects
<1>1. \A w \in Workers : SameFace(Unreserved(wk[w]), wk[w])
  BY <1>0, Faces
<1>2. CASE UNCHANGED pool
  BY <1>2 DEF Bonds, Keyed, RegistryHonest, Registered, IndexAgrees, pool
<1>3. CASE WaitReady(c) \/ WaitCancelled(c) \/ Release(c)
  <2>1. UNCHANGED pool \/ /\ wk' = [wk EXCEPT ![op[c].worker] = Unreserved(@)]
                          /\ UNCHANGED <<reg, sessions, conns>>
    BY <1>3 DEF WaitReady, WaitCancelled, Release, pool
  <2> QED BY <1>1, <1>2, <2>1, OneFace
<1>4. CASE Bind(c)
  <2> DEFINE w == op[c].worker
  <2>1. CASE UNCHANGED pool
    BY <1>2, <2>1
  <2>2. ASSUME NEW r, w \in Workers => /\ r \in Objects /\ SameIdentity(r, wk[w])
                                       /\ r.conns = wk[w].conns,
               Owns(w), wk' = BindConn(c, w, r), conns' = [conns EXCEPT ![c] = w], reg' = reg,
               \/ r = wk[w] /\ sessions' = sessions
               \/ /\ w \in Workers => r.readers = wk[w].readers \cup {c}
                  /\ sessions[c] \in {None, w} /\ sessions' = [sessions EXCEPT ![c] = w]
        PROVE  Bonds'
    <3>1. w \in Workers \cup {None} /\ sessions \in [Clients -> Workers \cup {None}]
          /\ conns \in [Clients -> Workers \cup {None}]
      BY DEF Typed, OpType
    <3>2. \A v \in Workers : wk'[v] = IF v = w THEN Bound(r, c)
                                      ELSE IF conns[c] = v THEN Unbound(wk[v], c) ELSE wk[v]
      BY <2>2 DEF BindConn
    <3>3. \A v \in Workers : /\ SameIdentity(Unbound(wk[v], c), wk[v])
                             /\ Unbound(wk[v], c).readers = wk[v].readers
                             /\ Unbound(wk[v], c).conns = wk[v].conns \ {c}
      BY <1>0, Binds
    <3>4. w \in Workers => /\ SameIdentity(Bound(r, c), wk[w])
                           /\ Bound(r, c).readers = r.readers
                           /\ Bound(r, c).conns = wk[w].conns \cup {c}
      BY <2>2, Binds DEF SameIdentity
    <3>5. \A v \in Workers : SameIdentity(wk'[v], wk[v])
      BY <3>2, <3>3, <3>4 DEF SameIdentity
    <3>6. w \in Workers => ~wk[w].retired
      BY <2>2 DEF Owns
    <3>7. ASSUME NEW d \in Clients, NEW v \in Workers
          PROVE  /\ d \in wk'[v].readers <=> sessions'[d] = v
                 /\ d \in wk'[v].conns <=> conns'[d] = v
                 /\ wk'[v].retired => sessions'[d] # v /\ conns'[d] # v
      <4>1. /\ d \in wk[v].readers <=> sessions[d] = v
            /\ d \in wk[v].conns <=> conns[d] = v
            /\ wk[v].retired => sessions[d] # v /\ conns[d] # v
        BY DEF Bonds, IndexAgrees
      <4>2. d \in wk'[v].conns <=> conns'[d] = v
        BY <2>2, <3>1, <3>2, <3>3, <3>4, <4>1
      <4>3. d \in wk'[v].readers <=> sessions'[d] = v
        BY <2>2, <3>1, <3>2, <3>3, <3>4, <4>1
      <4>4. wk'[v].retired = wk[v].retired
        BY <3>5 DEF SameIdentity
      <4>5. CASE wk[v].retired
        <5>1. v # w
          BY <3>6, <4>5
        <5> QED BY <2>2, <3>1, <4>1, <4>2, <4>3, <4>5, <5>1
      <4> QED BY <4>2, <4>3, <4>4, <4>5
    <3> QED BY <1>0, <2>2, <3>5, <3>7, IdentityKeeps DEF Bonds, IndexAgrees
  <2>3. CASE /\ Owns(w) /\ wk' = BindConn(c, w, wk[w]) /\ conns' = [conns EXCEPT ![c] = w]
             /\ UNCHANGED <<reg, sessions>>
    BY <1>0, <2>2, <2>3 DEF SameIdentity
  <2>4. CASE /\ Owns(w) /\ ~SetupConflict(c, w) /\ wk' = BindConn(c, w, Joined(wk[w], c))
             /\ conns' = [conns EXCEPT ![c] = w] /\ sessions' = [sessions EXCEPT ![c] = w]
             /\ UNCHANGED reg
    <3>1. w \in Workers => /\ Joined(wk[w], c) \in Objects
                           /\ SameIdentity(Joined(wk[w], c), wk[w])
                           /\ Joined(wk[w], c).conns = wk[w].conns
                           /\ Joined(wk[w], c).readers = wk[w].readers \cup {c}
      <4>1. CASE w \in Workers
        <5>1. wk[w] \in Objects
          BY <1>0, <4>1
        <5> HIDE DEF w
        <5>2. Joined(wk[w], c) \in Objects
          BY <5>1, ClientTypes
        <5> QED BY <5>1, <5>2, Binds
      <4> QED BY <4>1
    <3>2. sessions[c] \in {None, w}
      BY <2>4 DEF SetupConflict
    <3> DEFINE r == Joined(wk[w], c)
    <3>3. /\ w \in Workers => /\ r \in Objects /\ SameIdentity(r, wk[w])
                              /\ r.conns = wk[w].conns /\ r.readers = wk[w].readers \cup {c}
          /\ Owns(w) /\ wk' = BindConn(c, w, r) /\ conns' = [conns EXCEPT ![c] = w]
          /\ reg' = reg /\ sessions' = [sessions EXCEPT ![c] = w]
      BY <2>4, <3>1
    <3> HIDE DEF w, r
    <3> QED BY <2>2, <3>2, <3>3
  <2> QED BY <1>4, <2>1, <2>3, <2>4 DEF Bind
<1>5. CASE ConnClose(c)
  <2>1. conns \in [Clients -> Workers \cup {None}]
    BY DEF Typed
  <2>2. \A v \in Workers : wk'[v] = IF v = conns[c] THEN Unbound(wk[v], c) ELSE wk[v]
    BY <1>0, <1>5, <2>1 DEF ConnClose
  <2>3. \A v \in Workers : /\ SameIdentity(Unbound(wk[v], c), wk[v])
                           /\ Unbound(wk[v], c).readers = wk[v].readers
                           /\ Unbound(wk[v], c).conns = wk[v].conns \ {c}
    BY <1>0, Binds
  <2>4. \A v \in Workers : SameIdentity(wk'[v], wk[v]) /\ wk'[v].readers = wk[v].readers
    BY <2>2, <2>3 DEF SameIdentity
  <2>5. ASSUME NEW d \in Clients, NEW v \in Workers
        PROVE  d \in wk'[v].conns <=> conns'[d] = v
    <3>1. d \in wk[v].conns <=> conns[d] = v
      BY DEF Bonds, IndexAgrees
    <3> QED BY <1>5, <2>1, <2>2, <2>3, <3>1 DEF ConnClose
  <2>6. IndexAgrees'
    BY <1>5, <2>1, <2>4, <2>5 DEF Bonds, IndexAgrees, ConnClose, SameIdentity
  <2> QED BY <1>0, <1>5, <2>4, <2>6, IdentityKeeps DEF Bonds, ConnClose
<1> QED BY <1>3, <1>4, <1>5

\* Playing, pausing and leaving only touch the session's own worker.
LEMMA ClientStepKeeps ==
    ASSUME Typed(Int), Bonds, NEW c \in Clients,
           Play(c) \/ Pause(c) \/ SessionClose(c) \/ Hangup(c)
    PROVE  Bonds'
<1> DEFINE w == sessions[c]
<1>0. /\ wk \in [Workers -> Objects] /\ reg \in [Keys -> Workers \cup {None}]
      /\ sessions \in [Clients -> Workers \cup {None}]
  BY DEF Typed, Objects
<1>1. CASE Hangup(c)
  BY <1>1 DEF Hangup, Bonds, Keyed, RegistryHonest, Registered, IndexAgrees, pool
<1>2. w \in Workers => c \in wk[w].readers
  BY DEF Bonds, IndexAgrees
<1>3. CASE Play(c) \/ Pause(c)
  <2>1. w \in Workers
    BY <1>0, <1>3 DEF Play, Pause
  <2>2. PICK r \in {Watched(wk[w], c), Paused(wk[w], c)} : wk' = [wk EXCEPT ![w] = r]
    BY <1>3 DEF Play, Pause
  <2>3. SameFace(r, wk[w])
    <3>1. wk[w].readers \cup {c} = wk[w].readers /\ wk[w] \in Objects
      BY <1>0, <1>2, <2>1
    <3>2. /\ SameIdentity(r, wk[w]) /\ r.conns = wk[w].conns
          /\ r.readers = wk[w].readers \cup {c}
      BY <2>2, <3>1, Binds
    <3> QED BY <3>1, <3>2 DEF SameFace, SameIdentity
  <2>4. UNCHANGED <<reg, sessions, conns>>
    BY <1>3 DEF Play, Pause
  <2> QED BY <2>1, <2>2, <2>3, <2>4, OneFace
<1>4. CASE SessionClose(c)
  <2>1. w \in Workers
    BY <1>0, <1>4 DEF SessionClose
  <2>2. \A v \in Workers : wk'[v] = IF v = w THEN Left(wk[v], c) ELSE wk[v]
    BY <1>0, <1>4, <2>1 DEF SessionClose
  <2>3. /\ SameIdentity(Left(wk[w], c), wk[w])
        /\ Left(wk[w], c).readers = wk[w].readers \ {c}
        /\ Left(wk[w], c).conns = wk[w].conns
    BY <1>0, <2>1, Binds
  <2>4. \A v \in Workers : SameIdentity(wk'[v], wk[v]) /\ wk'[v].conns = wk[v].conns
    BY <2>2, <2>3 DEF SameIdentity
  <2>5. ASSUME NEW d \in Clients, NEW v \in Workers
        PROVE  d \in wk'[v].readers <=> sessions'[d] = v
    <3>1. d \in wk[v].readers <=> sessions[d] = v
      BY DEF Bonds, IndexAgrees
    <3> QED BY <1>0, <1>4, <2>1, <2>2, <2>3, <3>1 DEF SessionClose
  <2>6. IndexAgrees'
    BY <1>0, <1>4, <2>4, <2>5 DEF Bonds, IndexAgrees, SessionClose, SameIdentity
  <2> QED BY <1>0, <1>4, <2>4, <2>6, IdentityKeeps DEF Bonds, SessionClose
<1> QED BY <1>1, <1>3, <1>4

\* The clock and a worker's goroutine; its end retires it.
LEMMA RunStepKeeps ==
    ASSUME Typed(Int), Bonds, ClockStep \/ RunStep
    PROVE  Bonds'
<1>0. wk \in [Workers -> Objects]
  BY DEF Typed, Objects
<1>1. ASSUME NEW w \in Workers, \/ Age(w) \/ AgeView(w) \/ TimerFires(w) \/ Cleanup(w)
      PROVE  Bonds'
  <2>1. PICK r \in {Aged(wk[w]), Unviewed(wk[w]), Fired(wk[w]), Cleaned(wk[w])} :
           wk' = [wk EXCEPT ![w] = r]
    BY <1>1 DEF Age, AgeView, TimerFires, Cleanup
  <2>2. SameFace(r, wk[w])
    BY <1>0, <2>1, Faces
  <2>3. UNCHANGED <<reg, sessions, conns>>
    BY <1>1 DEF Age, AgeView, TimerFires, Cleanup
  <2> QED BY <2>1, <2>2, <2>3, OneFace
<1>2. ASSUME NEW k \in Keys, RetryExpires(k)
      PROVE  Bonds'
  BY <1>2 DEF RetryExpires, pool, Bonds, Keyed, RegistryHonest, Registered, IndexAgrees
<1>3. ASSUME NEW w \in Workers,
             RunRejects(w) \/ RunResolves(w) \/ RunFails(w) \/ RunReady(w) \/ RunEnds(w)
      PROVE  Bonds'
  <2>1. wk[w].run # "done"
    BY <1>3 DEF RunRejects, RunResolves, RunFails, RunReady, RunEnds
  <2>2. PICK r \in {Exited(wk[w]), Dialing(wk[w]), Published(wk[w], "stopped"),
                    Published(wk[w], "armed")} : wk' = [wk EXCEPT ![w] = r]
    BY <1>3 DEF RunRejects, RunResolves, RunFails, RunReady, RunEnds, Exits
  <2>3. SameFace(r, wk[w])
    BY <1>0, <2>1, <2>2, Faces
  <2>4. UNCHANGED <<reg, sessions, conns>>
    BY <1>3 DEF RunRejects, RunResolves, RunFails, RunReady, RunEnds
  <2> QED BY <2>2, <2>3, <2>4, OneFace
<1>4. ASSUME NEW w \in Workers, RunFinishes(w)
      PROVE  Bonds'
  <2>1. wk'[w] = Finished(Retired(wk[w])) /\ \A v \in Workers : v # w => wk'[v] = wk[v]
    BY <1>0, <1>4 DEF RunFinishes
  <2>2. wk'[w].retired /\ wk'[w].readers = {} /\ wk'[w].conns = {} /\ wk'[w].run = "done"
    <3>1. Retired(wk[w]) \in Objects
      BY <1>0, RecordTypes
    <3> QED BY <2>1, <3>1, Fates
  <2>3. \A v \in Workers : v # w => SameFace(wk'[v], wk[v])
    BY <2>1 DEF SameFace
  <2>4. reg' = [k \in Keys |-> IF k \in {} THEN Nobody[k] ELSE Unregister({w})[k]]
    BY <1>4 DEF RunFinishes, Unregister
  <2>5. Reshapes({w}, {}, Nobody)
    BY <1>4, <2>2, <2>3, <2>4 DEF Reshapes, RunFinishes
  <2>6. Nobody \in [{} -> Free] /\ Injective(Nobody)
    BY DEF Nobody, Injective
  <2> QED BY <2>5, <2>6, ReshapeKeeps DEF Bonds
<1> QED BY <1>1, <1>2, <1>3, <1>4 DEF ClockStep, RunStep

\* The reaper, the operator and Close retire workers; the rest of their steps do not touch any.
LEMMA TakerKeeps ==
    ASSUME Typed(Int), Bonds, ReapStep \/ AdminStep \/ CloseStep
    PROVE  Bonds'
<1>0. wk \in [Workers -> Objects] /\ reg \in [Keys -> Workers \cup {None}]
  BY DEF Typed, Objects
<1>1. CASE UNCHANGED pool
  BY <1>1 DEF Bonds, Keyed, RegistryHonest, Registered, IndexAgrees, pool
<1>2. ASSUME NEW R \in SUBSET Workers, RetireAll(R)
      PROVE  Bonds'
  BY <1>2, RetireAllKeeps DEF Bonds
<1>3. CASE CloseCancels
  <2>1. \A w \in Workers : wk'[w] = Cancelled(wk[w])
    BY <1>3 DEF CloseCancels
  <2>2. \A w \in Workers : SameFace(wk'[w], wk[w])
    BY <1>0, <2>1, Faces
  <2>3. UNCHANGED <<reg, sessions, conns>>
    BY <1>3 DEF CloseCancels
  <2> QED BY <1>0, <2>2, <2>3, QuietKeeps DEF Bonds
<1>4. CASE ReapStep
  BY <1>1, <1>2, <1>4 DEF ReapStep, ReapScan, ReapNext
<1>5. CASE AdminStep
  BY <1>1, <1>2, <1>5 DEF AdminStep, PersistSettings, InvalidateStream, PullNext, Bump, Signal
<1>6. CASE CloseStep
  <2>1. \/ UNCHANGED pool \/ CloseCancels \/ \E w \in Workers : RetireAll({w})
    BY <1>6 DEF CloseStep, Start, CloseBegins, CloseRetires, CloseServer, CloseJoins, Finish,
                vars, pool
  <2> QED BY <1>1, <1>2, <1>3, <2>1
<1> QED BY <1>4, <1>5, <1>6

\* The reconciler retires unwanted workers and starts warm ones on free keys.
LEMMA RecStepKeeps ==
    ASSUME Typed(Int), Bonds, RecStep
    PROVE  Bonds'
<1>0. wk \in [Workers -> Objects]
  BY DEF Typed, Objects
<1>1. CASE UNCHANGED pool
  BY <1>1 DEF Bonds, Keyed, RegistryHonest, Registered, IndexAgrees, pool
<1>2. CASE RecApplies
  <2> DEFINE R == Unwanted(targets')
             S == ToStart(targets', R)
             leased == [w \in Workers |-> Leased(wk[w], targets')]
  <2>1. targets' \in SUBSET Keys
    BY <1>2 DEF RecApplies, FirstOf, Catalog
  <2>2. R \in SUBSET Workers /\ S \in SUBSET Keys
    BY <2>1 DEF Unwanted, ToStart, FirstOf, Registered, Typed
  <2>3. \A k \in S : reg[k] \in R \cup {None}
    <3>1. ASSUME NEW k \in S, reg[k] # None
          PROVE  reg[k] \in R
      <4>1. k \in Keys /\ k \notin Registered \ {wk[w].key : w \in R}
        BY <2>1 DEF ToStart, FirstOf
      <4>2. PICK w \in R : wk[w].key = k
        BY <3>1, <4>1 DEF Registered
      <4>3. PICK j \in Registered : reg[j] = w
        BY <4>2 DEF Unwanted
      <4>4. j = k
        BY <4>2, <4>3 DEF Bonds, RegistryHonest
      <4> QED BY <4>2, <4>3, <4>4
    <3> QED BY <3>1
  <2> HIDE DEF R, S
  <2>4. PICK f \in [S -> Free] :
           /\ Injective(f)
           /\ reg' = [k \in Keys |-> IF k \in S THEN f[k] ELSE Unregister(R)[k]]
           /\ wk' = [w \in Workers |->
                       IF \E k \in S : f[k] = w
                       THEN NewWorker(CHOOSE k \in S : f[k] = w, TRUE, targets')
                       ELSE RetireIn(leased, R)[w]]
           /\ sessions' = DropSessions(R)
           /\ conns' = DropConns(R)
    BY <1>2, Zenon DEF RecApplies, R, S
  <2>5. ASSUME NEW k \in S
        PROVE  wk'[f[k]] = NewWorker(k, TRUE, targets')
    <3>1. f[k] \in Workers
      BY <2>4 DEF Free
    <3>2. \A j \in S : f[j] = f[k] => j = k
      BY <2>4 DEF Injective
    <3>3. (CHOOSE j \in S : f[j] = f[k]) = k
      BY <3>2
    <3> QED BY <2>4, <3>1, <3>3
  <2>6. ASSUME NEW k \in S
        PROVE  /\ wk'[f[k]].key = k /\ ~wk'[f[k]].retired /\ wk'[f[k]].run = "new"
               /\ wk'[f[k]].readers = {} /\ wk'[f[k]].conns = {}
    <3> DEFINE T == targets'
               r == NewWorker(k, TRUE, T)
    <3> HIDE DEF T
    <3>1. r.key = k /\ ~r.retired /\ r.run = "new" /\ r.readers = {} /\ r.conns = {}
      BY SMT DEF NewWorker
    <3>2. wk'[f[k]] = r
      BY <2>5 DEF T
    <3> QED BY <3>1, <3>2
  <2>7. ASSUME NEW w \in Workers
        PROVE  leased[w] \in Objects /\ SameFace(leased[w], wk[w]) /\ leased[w].run = wk[w].run
    <3>1. Leased(wk[w], targets') \in Objects /\ SameFace(Leased(wk[w], targets'), wk[w])
      BY <1>0, <2>1, RecordTypes, Faces
    <3>2. Leased(wk[w], targets').run = wk[w].run
      BY <1>0 DEF Leased, Objects, WorkerType
    <3> QED BY <3>1, <3>2
  <2>8. ASSUME NEW w \in Workers, \A k \in S : f[k] # w
        PROVE  wk'[w] = IF w \in R THEN Retired(leased[w]) ELSE leased[w]
    BY <2>4, <2>8 DEF RetireIn
  <2> HIDE DEF leased
  <2>9. ASSUME NEW w \in Workers, \A k \in S : f[k] # w, w \in R
        PROVE  /\ wk'[w].retired /\ wk'[w].readers = {} /\ wk'[w].conns = {}
               /\ wk'[w].key = wk[w].key /\ wk'[w].run = wk[w].run
    <3>1. wk[w].retired => wk[w].readers = {} /\ wk[w].conns = {}
      BY RetiredAlone DEF Bonds
    <3> QED BY <2>7, <2>8, <2>9, <3>1, Fates DEF SameFace
  <2>11. ASSUME NEW w \in Workers, \A k \in S : f[k] # w, w \notin R
         PROVE  SameFace(wk'[w], wk[w])
    BY <2>7, <2>8, <2>11
  <2>12. /\ reg' = [k \in Keys |-> IF k \in S THEN f[k] ELSE Unregister(R)[k]]
         /\ sessions' = DropSessions(R) /\ conns' = DropConns(R)
    BY <2>4
  <2>10. Reshapes(R, S, f)
    BY <2>6, <2>9, <2>11, <2>12 DEF Reshapes
  <2> QED BY <2>2, <2>3, <2>4, <2>10, ReshapeKeeps DEF Bonds
<1> QED BY <1>1, <1>2 DEF RecStep, RecFirst, RecWakes, RecTicks, RecBegins, RecRead, RecRejects,
                          RecStops

\* Every step keeps them.
LEMMA NextKeeps ==
    ASSUME Typed(Int), Bonds, [Next]_vars
    PROVE  Bonds'
<1>1. CASE UNCHANGED vars
  BY <1>1 DEF vars, Bonds, Keyed, RegistryHonest, Registered, IndexAgrees
<1>2. CASE ClientStep
  BY <1>2, RequestKeeps, ClientStepKeeps DEF ClientStep
<1>3. CASE HandlerStep
  BY <1>3, HandlerKeeps DEF HandlerStep
<1> QED BY <1>1, <1>2, <1>3, RunStepKeeps, TakerKeeps, RecStepKeeps DEF Next

\* A relay that has not started has no workers, no sessions and no connections.
LEMMA InitKeeps == Init => Typed(Int) /\ Bonds
<1> SUFFICES ASSUME Init PROVE Typed(Int) /\ Bonds
  OBVIOUS
<1>1. wk = [w \in Workers |-> Gone] /\ Gone \in Objects
  BY BirthTypes DEF Init
<1>2. /\ Gone.run = "done" /\ Gone.retired /\ Gone.readers = {} /\ Gone.conns = {}
  BY DEF Gone
<1>3. NoSnap \in Snapshots
  BY SMT DEF NoSnap, Snapshots
<1>4. Idle \in OpType
  BY SMT DEF Idle, OpType
<1>5. Typed(Int)
  <2>1. /\ wk \in [Workers -> WorkerType(Int)] /\ op \in [Clients -> OpType]
        /\ snap \in [mode : {"off", "recent", "always"}, current : BOOLEAN]
    BY <1>1, <1>3, <1>4 DEF Init, Objects, Snapshots
  <2>2. settings \in {"off", "recent", "always"}
    BY DEF Init
  <2>3. /\ reg \in [Keys -> Workers \cup {None}] /\ retry \in [Keys -> {"none", "cooling", "expired"}]
        /\ sessions \in [Clients -> Workers \cup {None}]
        /\ conns \in [Clients -> Workers \cup {None}]
        /\ link \in [Clients -> {"open", "hung", "closed"}]
    BY DEF Init
  <2>5. started \in BOOLEAN /\ wake \in BOOLEAN
    BY Zenon DEF Init
  <2>4. /\ starting \in Int
        /\ closePc \in {"open", "closed", "cancelled", "joining", "joined"}
        /\ mode \in {"off", "recent", "always"} /\ targets \in SUBSET Keys
        /\ rec \in {"off", "begin", "read", "apply", "wait", "stopped"}
        /\ admin \in {"idle", "wake", "pull", "signal"} /\ starts \in SUBSET Keys
        /\ pulling \in SUBSET Workers /\ closing \in SUBSET Workers /\ reaping \in SUBSET Workers
    BY SMT DEF Init
  <2> QED BY <2>1, <2>2, <2>3, <2>4, <2>5 DEF Typed
<1>6. Bonds
  BY <1>1, <1>2 DEF Init, Bonds, Keyed, RegistryHonest, Registered, IndexAgrees
<1> QED BY <1>5, <1>6

\* In every behaviour of the relay, s.workers holds exactly the workers that are not retired,
\* each under its own key and with a goroutine that will still run finishWorker, whatever
\* requests, warm starts, evictions, failures, invalidations and Close interleave.
THEOREM RegistryStaysHonest == Spec => []RegistryHonest
<1>1. Init => Typed(Int) /\ Bonds
  BY InitKeeps
<1>2. Typed(Int) /\ Bonds /\ [Next]_vars => (Typed(Int) /\ Bonds)'
  BY NextTypes, NextKeeps DEF Bonds
<1>3. Bonds => RegistryHonest
  BY DEF Bonds
<1> QED BY <1>1, <1>2, <1>3, PTL DEF Spec

\* In every behaviour s.sessions and s.conns agree with the readers and conns of the workers
\* they point at, so no callback writes into the nil maps of a retired worker.
THEOREM IndexAlwaysAgrees == Spec => []IndexAgrees
<1>1. Init => Typed(Int) /\ Bonds
  BY InitKeeps
<1>2. Typed(Int) /\ Bonds /\ [Next]_vars => (Typed(Int) /\ Bonds)'
  BY NextTypes, NextKeeps DEF Bonds
<1>3. Bonds => IndexAgrees
  BY DEF Bonds
<1> QED BY <1>1, <1>2, <1>3, PTL DEF Spec
============================================================================
