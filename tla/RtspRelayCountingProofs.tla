---------------------- MODULE RtspRelayCountingProofs ----------------------
(***************************************************************************)
(* Theorems about the counters of RtspRelay: pendingDemand is the number   *)
(* of handlers that hold a worker, preconnectStarting the number of warm   *)
(* handshakes, and the table of workers respects its limit.                *)
(***************************************************************************)
EXTENDS RtspRelayProofs

----------------------------------------------------------------------------
(* Operators. *)

\* The first n of a set of naturals are at most n.
LEMMA FirstOfBounds ==
    ASSUME NEW S \in SUBSET Nat, IsFiniteSet(S), NEW n \in Int
    PROVE  /\ FirstOf(S, n) \subseteq S /\ IsFiniteSet(FirstOf(S, n))
           /\ Cardinality(FirstOf(S, n)) \in Nat
           /\ Cardinality(FirstOf(S, n)) <= IF n > 0 THEN n ELSE 0
<1> DEFINE below(k) == {j \in S : j < k}
           F == FirstOf(S, n)
<1>0. \A k \in S : k \in Int
  OBVIOUS
<1>1. \A k \in S : IsFiniteSet(below(k)) /\ Cardinality(below(k)) \in Nat
  BY FS_Subset, FS_CardinalityType
<1>2. F \subseteq S /\ IsFiniteSet(F)
  BY FS_Subset DEF FirstOf
<1>3. \A k \in F : Cardinality(below(k)) < n
  BY DEF FirstOf
<1>6. \A j, k \in S : j < k => below(j) \in SUBSET below(k) /\ j \in below(k) /\ j \notin below(j)
  <2>1. ASSUME NEW j \in S, NEW k \in S, j < k
        PROVE  below(j) \subseteq below(k)
    <3>1. \A i \in S : i < j => i < k
      BY <1>0, <2>1
    <3> QED BY <3>1
  <2>2. ASSUME NEW j \in S, NEW k \in S, j < k
        PROVE  j \in below(k) /\ j \notin below(j)
    BY <1>0, <2>2
  <2> QED BY <2>1, <2>2
<1>7. \A k \in F : k \in S /\ k \in Int
  BY <1>0, <1>2
<1> HIDE DEF below, F
<1>4. CASE n <= 0
  <2>1. F = {}
    BY <1>1, <1>2, <1>3, <1>4
  <2>2. Cardinality(F) = 0
    BY <2>1, FS_EmptySet
  <2> QED BY <1>2, <1>4, <2>2 DEF F
<1>5. CASE n > 0
  <2> DEFINE g == [k \in F |-> Cardinality(below(k))]
  <2>1. ASSUME NEW j \in F, NEW k \in F, j < k
        PROVE  g[j] # g[k]
    <3>1. below(j) \in SUBSET below(k) /\ j \in below(k) /\ j \notin below(j)
      BY <1>6, <1>7, <2>1
    <3>2. Cardinality(below(j)) # Cardinality(below(k))
      BY <1>1, <1>2, <3>1, FS_Subset
    <3> QED BY <3>2
  <2>2. \A j, k \in F : g[j] = g[k] => j = k
    BY <1>7, <2>1
  <2>3. g \in [F -> 0 .. n-1]
    BY <1>1, <1>2, <1>3
  <2> HIDE DEF g
  <2>4. g \in Injection(F, 0 .. n-1)
    BY <2>2, <2>3 DEF Injection, IsInjective
  <2>5. Cardinality(F) <= Cardinality(0 .. n-1) /\ IsFiniteSet(0 .. n-1)
    BY <2>4, FS_Interval, FS_Injection
  <2>6. Cardinality(0 .. n-1) = n
    BY <1>5, FS_Interval
  <2>7. Cardinality(F) \in Nat
    BY <1>2, FS_CardinalityType
  <2> QED BY <1>2, <1>5, <2>5, <2>6, <2>7 DEF F
<1> QED BY <1>4, <1>5 DEF F

\* What the operations on a relayStream do to its two counted fields.
Counted(q, r) == q.pending = r.pending /\ q.warmStarting = r.warmStarting

\* Only Reserved, Unreserved and Published touch a counted field.
LEMMA Counts ==
    ASSUME NEW r \in Objects
    PROVE  /\ Counted(Retired(r), r) /\ Counted(Dialing(r), r) /\ Counted(Exited(r), r)
           /\ Counted(Aged(r), r) /\ Counted(Unviewed(r), r) /\ Counted(Fired(r), r)
           /\ Counted(Cancelled(r), r) /\ Counted(Cleaned(r), r)
           /\ \A T : Counted(Leased(r, T), r)
           /\ \A t : Published(r, t).pending = r.pending /\ ~Published(r, t).warmStarting
           /\ Finished(r).pending = r.pending /\ ~Finished(r).warmStarting
           /\ Reserved(r).pending = r.pending + 1
           /\ Reserved(r).warmStarting = r.warmStarting
           /\ Unreserved(r).pending = r.pending - 1
           /\ Unreserved(r).warmStarting = r.warmStarting
<1>1. Counted(Retired(r), r)
  BY Zenon DEF Counted, Retired, Objects, WorkerType
<1>2. Finished(r).pending = r.pending /\ ~Finished(r).warmStarting
  BY SMT DEF Finished, Gone
<1>3. /\ Counted(Dialing(r), r) /\ Counted(Exited(r), r)
      /\ Counted(Aged(r), r) /\ Counted(Unviewed(r), r) /\ Counted(Fired(r), r)
      /\ Counted(Cancelled(r), r) /\ Counted(Cleaned(r), r)
      /\ \A T : Counted(Leased(r, T), r)
  BY SMT DEF Counted, Objects, WorkerType, Dialing, Exited, Aged, Unviewed, Fired, Cancelled,
             Cleaned, Leased
<1>4. \A t : Published(r, t).pending = r.pending /\ ~Published(r, t).warmStarting
  BY SMT DEF Published, Objects, WorkerType
<1>5. /\ Reserved(r).pending = r.pending + 1 /\ Reserved(r).warmStarting = r.warmStarting
      /\ Unreserved(r).pending = r.pending - 1 /\ Unreserved(r).warmStarting = r.warmStarting
  BY SMT DEF Reserved, Unreserved, Objects, WorkerType
<1> QED BY <1>1, <1>2, <1>3, <1>4, <1>5

\* The same for what a client does.
LEMMA ClientCounts ==
    ASSUME NEW r \in Objects, NEW c
    PROVE  /\ Counted(Bound(r, c), r) /\ Counted(Unbound(r, c), r) /\ Counted(Joined(r, c), r)
           /\ Counted(Watched(r, c), r) /\ Counted(Paused(r, c), r) /\ Counted(Left(r, c), r)
  BY SMT DEF Counted, Objects, WorkerType, Bound, Unbound, Joined, Watched, Paused, Left
----------------------------------------------------------------------------
(* Demand and warm starts. *)

\* A handler past its lookup holds a worker.
OpsNamed == \A c \in Clients : op[c].at # "idle" => op[c].worker \in Workers

Tallies == OpsNamed /\ DemandCounted /\ WarmStartCounted

\* A step that leaves the counted fields and the handlers' workers alone keeps the tallies.
LEMMA SameTallies ==
    ASSUME Typed(Int), Tallies, starting' = starting,
           \A w \in Workers : Counted(wk'[w], wk[w]),
           \A c \in Clients : op'[c].worker = op[c].worker
                              /\ (op'[c].at # "idle" => op[c].at # "idle")
    PROVE  Tallies'
<1>1. \A w : Handlers(w)' = Handlers(w)
  BY DEF Handlers
<1>2. WarmStarting' = WarmStarting
  BY DEF WarmStarting, Counted
<1> QED
  BY <1>1, <1>2 DEF Tallies, OpsNamed, DemandCounted, WarmStartCounted, Counted

\* Changing one worker outside the counted fields.
LEMMA OneCounted ==
    ASSUME Typed(Int), Tallies, UNCHANGED <<starting, op>>,
           NEW w, NEW r, wk' = [wk EXCEPT ![w] = r], w \in Workers => Counted(r, wk[w])
    PROVE  Tallies'
<1>1. \A v \in Workers : Counted(wk'[v], wk[v])
  BY DEF Counted, Typed
<1> QED BY <1>1, SameTallies

\* A handler takes one reservation of w.
LEMMA OneMoreHandler ==
    ASSUME Typed(Int), Tallies, starting' = starting,
           NEW c \in Clients, NEW w \in Workers, NEW kind, op[c] = Idle,
           op' = [op EXCEPT ![c] = [kind |-> kind, worker |-> w, at |-> "wait"]],
           wk'[w].pending = wk[w].pending + 1, wk'[w].warmStarting = wk[w].warmStarting,
           \A v \in Workers : v # w => Counted(wk'[v], wk[v])
    PROVE  Tallies'
<1> DEFINE o == [kind |-> kind, worker |-> w, at |-> "wait"]
<1>1. op[c].worker # w
  BY NoneAssumption DEF Idle
<1>2. o.worker = w
  OBVIOUS
<1> HIDE DEF o
<1>3. \A d \in Clients : op'[d] = IF d = c THEN o ELSE op[d]
  BY DEF Typed, o
<1>4. Handlers(w)' = Handlers(w) \cup {c} /\ c \notin Handlers(w)
  BY <1>1, <1>2, <1>3 DEF Handlers
<1>5. \A v \in Workers : v # w => Handlers(v)' = Handlers(v)
  BY <1>2, <1>3, NoneAssumption DEF Handlers, Idle
<1>6. IsFiniteSet(Handlers(w))
  BY ClientsAssumption, FS_Subset DEF Handlers
<1>7. Cardinality(Handlers(w)') = Cardinality(Handlers(w)) + 1
  BY <1>4, <1>6, FS_AddElement
<1>8. DemandCounted'
  BY <1>5, <1>7 DEF Tallies, DemandCounted, Counted
<1>9. WarmStarting' = WarmStarting
  BY DEF WarmStarting, Counted
<1> QED BY <1>2, <1>3, <1>8, <1>9 DEF Tallies, OpsNamed, WarmStartCounted

\* A handler gives its reservation back.
LEMMA OneHandlerLess ==
    ASSUME Typed(Int), Tallies, starting' = starting, NEW c \in Clients, op[c].at # "idle",
           op' = [op EXCEPT ![c] = Idle],
           NEW w, w = op[c].worker, wk' = [wk EXCEPT ![w] = Unreserved(@)]
    PROVE  Tallies'
<1>0. \A v \in Workers : wk[v] \in Objects
  BY DEF Typed, Objects
<1>1. w \in Workers /\ \A v \in Workers : wk'[v] = IF v = w THEN Unreserved(wk[v]) ELSE wk[v]
  BY DEF Tallies, OpsNamed, Typed
<1>2. wk'[w].pending = wk[w].pending - 1 /\ wk'[w].warmStarting = wk[w].warmStarting
  BY <1>0, <1>1, Counts
<1>3. \A d \in Clients : op'[d] = IF d = c THEN Idle ELSE op[d]
  BY DEF Typed
<1>4. Idle.worker = None /\ Idle.at = "idle"
  BY DEF Idle
<1>5. Handlers(w)' = Handlers(w) \ {c} /\ c \in Handlers(w)
  BY <1>1, <1>3, <1>4, NoneAssumption DEF Handlers
<1>6. ASSUME NEW v \in Workers, v # w
      PROVE  Handlers(v)' = Handlers(v)
  <2>1. \A d \in Clients : op'[d].worker = v <=> op[d].worker = v
    BY <1>3, <1>4, <1>6, NoneAssumption
  <2> QED BY <2>1 DEF Handlers
<1>7. IsFiniteSet(Handlers(w))
  BY ClientsAssumption, FS_Subset DEF Handlers
<1>8. Cardinality(Handlers(w)') = Cardinality(Handlers(w)) - 1
  BY <1>5, <1>7, FS_RemoveElement
<1>9. DemandCounted'
  <2>1. ASSUME NEW v \in Workers PROVE wk'[v].pending = Cardinality(Handlers(v)')
    <3>1. wk[v].pending = Cardinality(Handlers(v))
      BY DEF Tallies, DemandCounted
    <3>2. CASE v = w
      BY <1>2, <1>8, <3>1, <3>2
    <3>3. CASE v # w
      BY <1>1, <1>6, <3>1, <3>3
    <3> QED BY <3>2, <3>3
  <2> QED BY <2>1 DEF DemandCounted
<1>10. WarmStarting' = WarmStarting
  BY <1>1, <1>2 DEF WarmStarting
<1> QED BY <1>3, <1>4, <1>9, <1>10 DEF Tallies, OpsNamed, WarmStartCounted

\* A lookup reserves the worker it finds or starts.
LEMMA RequestTallies ==
    ASSUME Typed(Int), Tallies, NEW c \in Clients, NEW kind, NEW k \in Keys, Request(c, kind, k)
    PROVE  Tallies'
<1>0. \A w \in Workers : wk[w] \in Objects
  BY DEF Typed, Objects
<1>1. op[c] = Idle /\ starting' = starting
  BY DEF Request, MayRequest, policy
<1>2. CASE JoinWorker(c, kind, k)
  <2>1. PICK w \in Workers : w = reg[k]
    BY <1>2 DEF JoinWorker, Typed
  <2>2. \A v \in Workers : wk'[v] = IF v = w THEN Reserved(wk[w]) ELSE wk[v]
    BY <1>2, <2>1 DEF JoinWorker, Typed
  <2>3. wk'[w].pending = wk[w].pending + 1 /\ wk'[w].warmStarting = wk[w].warmStarting
    BY <1>0, <2>2, Counts
  <2>4. \A v \in Workers : v # w => Counted(wk'[v], wk[v])
    BY <2>2 DEF Counted
  <2>5. Enter(c, kind, w)
    BY <1>2, <2>1 DEF JoinWorker
  <2> QED BY <1>1, <2>3, <2>4, <2>5, OneMoreHandler DEF Enter
<1>3. CASE StartForDemand(c, kind, k)
  <2>1. PICK R \in Victims, w \in Free : StartForDemand(c, kind, k)!2!(R, w)
    BY <1>3 DEF StartForDemand
  <2>2. w \in Workers /\ wk[w] = Gone
    BY DEF Free
  <2> DEFINE new == NewWorker(k, FALSE, targets)
  <2>3. new \in Objects
    BY BirthTypes DEF Typed
  <2>4. new.pending = 0 /\ ~new.warmStarting
    BY SMT DEF NewWorker
  <2>5. wk'[w] = Reserved(new) /\ \A v \in Workers : v # w => wk'[v] = RetireIn(wk, R)[v]
    BY <2>1, <2>2 DEF RetireIn
  <2> HIDE DEF new
  <2>6. wk'[w].pending = 1 /\ wk'[w].warmStarting = new.warmStarting
    BY <2>3, <2>4, <2>5, Counts
  <2>7. wk[w].pending = 0 /\ ~wk[w].warmStarting
    BY <2>2 DEF Gone
  <2>8. wk'[w].pending = wk[w].pending + 1 /\ wk'[w].warmStarting = wk[w].warmStarting
    <3>1. wk'[w].warmStarting \in BOOLEAN /\ wk[w].warmStarting \in BOOLEAN
      BY <1>0, <2>2, <2>3, <2>6 DEF Objects, WorkerType
    <3> QED BY <2>4, <2>6, <2>7, <3>1
  <2>9. \A v \in Workers : v # w => Counted(wk'[v], wk[v])
    <3>1. \A v \in Workers : Counted(RetireIn(wk, R)[v], wk[v])
      BY <1>0, Counts DEF RetireIn, Counted
    <3> QED BY <2>5, <3>1
  <2> QED BY <1>1, <2>1, <2>2, <2>8, <2>9, OneMoreHandler DEF Enter
<1> QED BY <1>2, <1>3 DEF Request

\* The handlers' other steps, and the callbacks.
LEMMA HandlerTallies ==
    ASSUME Typed(Int), Tallies, NEW c \in Clients,
           \/ WaitReady(c) \/ WaitCancelled(c) \/ Bind(c) \/ Release(c) \/ ConnClose(c)
           \/ Play(c) \/ Pause(c) \/ SessionClose(c) \/ Hangup(c)
    PROVE  Tallies'
<1>0. \A w \in Workers : wk[w] \in Objects
  BY DEF Typed, Objects
<1>1. starting' = starting
  BY DEF WaitReady, WaitCancelled, Bind, Release, ConnClose, Play, Pause, SessionClose, Hangup,
         policy
<1>2. ASSUME NEW at, op[c].at # "idle", op' = [op EXCEPT ![c].at = at], UNCHANGED wk
      PROVE  Tallies'
  <2>1. \A d \in Clients : op'[d].worker = op[d].worker
                           /\ (op'[d].at # "idle" => op[d].at # "idle")
    BY <1>2 DEF Typed, OpType
  <2> QED BY <1>1, <1>2, <2>1, SameTallies DEF Counted
<1>3. CASE WaitReady(c) \/ Release(c) \/ WaitCancelled(c)
  <2>1. op[c].at # "idle"
    BY <1>3 DEF WaitReady, Release, WaitCancelled
  <2>2. \/ \E at : op' = [op EXCEPT ![c].at = at] /\ UNCHANGED wk
        \/ op' = [op EXCEPT ![c] = Idle] /\ wk' = [wk EXCEPT ![op[c].worker] = Unreserved(@)]
    BY <1>3 DEF WaitReady, Release, WaitCancelled, pool
  <2> QED BY <1>1, <1>2, <2>1, <2>2, OneHandlerLess
<1>4. CASE Bind(c)
  <2> DEFINE w == op[c].worker
  <2>1. \A v \in Workers : /\ Counted(Bound(wk[v], c), wk[v])
                           /\ Counted(Unbound(wk[v], c), wk[v])
                           /\ Counted(Bound(Joined(wk[v], c), c), wk[v])
    <3>1. ASSUME NEW v \in Workers
          PROVE  Counted(Bound(Joined(wk[v], c), c), wk[v])
      <4>1. Joined(wk[v], c) \in Objects
        BY <1>0, ClientTypes
      <4>2. Counted(Joined(wk[v], c), wk[v])
        BY <1>0, ClientCounts
      <4>3. Counted(Bound(Joined(wk[v], c), c), Joined(wk[v], c))
        BY <4>1, ClientCounts
      <4> QED BY <4>2, <4>3 DEF Counted
    <3> QED BY <1>0, <3>1, ClientCounts
  <2>2. \A v \in Workers : Counted(wk'[v], wk[v])
    BY <1>4, <2>1 DEF Bind, BindConn, Counted, pool
  <2>3. \A d \in Clients : op'[d].worker = op[d].worker
                           /\ (op'[d].at # "idle" => op[d].at # "idle")
    BY <1>4 DEF Bind, Typed, OpType
  <2> QED BY <1>1, <2>2, <2>3, SameTallies
<1>5. CASE ConnClose(c) \/ Play(c) \/ Pause(c) \/ SessionClose(c) \/ Hangup(c)
  <2>1. op' = op
    BY <1>5 DEF ConnClose, Play, Pause, SessionClose, Hangup
  <2>2. \/ UNCHANGED wk
        \/ wk' = [wk EXCEPT ![conns[c]] = Unbound(@, c)]
        \/ wk' = [wk EXCEPT ![sessions[c]] = Watched(@, c)]
        \/ wk' = [wk EXCEPT ![sessions[c]] = Paused(@, c)]
        \/ wk' = [wk EXCEPT ![sessions[c]] = Left(@, c)]
    BY <1>5 DEF ConnClose, Play, Pause, SessionClose, Hangup, pool
  <2>3. CASE UNCHANGED wk
    BY <1>1, <2>1, <2>3, SameTallies DEF Counted
  <2>4. CASE ~UNCHANGED wk
    BY <1>0, <1>1, <2>1, <2>2, <2>4, ClientCounts, OneCounted
  <2> QED BY <2>3, <2>4
<1> QED BY <1>3, <1>4, <1>5

\* A warm handshake that ends, published or not, gives its slot back once.
LEMMA OneWarmStartLess ==
    ASSUME Typed(Int), Tallies, op' = op, NEW w \in Workers, starting' = StartingAfter(w),
           wk'[w].pending = wk[w].pending, ~wk'[w].warmStarting,
           \A v \in Workers : v # w => Counted(wk'[v], wk[v])
    PROVE  Tallies'
<1>1. \A v : Handlers(v)' = Handlers(v)
  BY DEF Handlers
<1>2. DemandCounted' /\ OpsNamed'
  BY <1>1 DEF Tallies, DemandCounted, OpsNamed, Counted
<1>3. WarmStarting' = WarmStarting \ {w}
  BY DEF WarmStarting, Counted
<1>4. IsFiniteSet(WarmStarting)
  BY WorkersAssumption, FS_Subset DEF WarmStarting
<1>5. Cardinality(WarmStarting) \in Nat /\ starting = Cardinality(WarmStarting) /\ starting <= 2
  BY <1>4, FS_CardinalityType DEF Tallies, WarmStartCounted
<1>6. Cardinality(WarmStarting') = StartingAfter(w)
  <2>1. Cardinality(WarmStarting \ {w}) = IF w \in WarmStarting THEN Cardinality(WarmStarting) - 1
                                          ELSE Cardinality(WarmStarting)
    BY <1>4, FS_RemoveElement
  <2> QED BY <1>3, <1>5, <2>1 DEF StartingAfter, WarmStarting
<1>7. StartingAfter(w) <= 2
  BY <1>5 DEF StartingAfter
<1> QED BY <1>2, <1>6, <1>7 DEF Tallies, WarmStartCounted

\* The clock and the worker's goroutine.
LEMMA RunStepTallies ==
    ASSUME Typed(Int), Tallies, ClockStep \/ RunStep
    PROVE  Tallies'
<1>0. wk \in [Workers -> Objects]
  BY DEF Typed, Objects
<1>1. ASSUME NEW w \in Workers, UNCHANGED <<starting, op>>,
             NEW r \in {Aged(wk[w]), Unviewed(wk[w]), Fired(wk[w]), Cleaned(wk[w]),
                        Exited(wk[w]), Dialing(wk[w])},
             wk' = [wk EXCEPT ![w] = r]
      PROVE  Tallies'
  <2>1. Counted(r, wk[w])
    BY <1>0, <1>1, Counts
  <2> QED BY <1>1, <2>1, OneCounted
<1>2. ASSUME NEW w \in Workers,
             \/ Age(w) \/ AgeView(w) \/ TimerFires(w) \/ Cleanup(w)
             \/ RunRejects(w) \/ RunResolves(w) \/ RunFails(w) \/ RunEnds(w)
      PROVE  Tallies'
  <2>1. UNCHANGED <<starting, op>>
    BY <1>2 DEF Age, AgeView, TimerFires, Cleanup, RunRejects, RunResolves, RunFails, RunEnds, policy
  <2>2. PICK r \in {Aged(wk[w]), Unviewed(wk[w]), Fired(wk[w]), Cleaned(wk[w]),
                    Exited(wk[w]), Dialing(wk[w])} : wk' = [wk EXCEPT ![w] = r]
    BY <1>2 DEF Age, AgeView, TimerFires, Cleanup, RunRejects, RunResolves, RunFails, RunEnds, Exits
  <2> QED BY <1>1, <2>1, <2>2
<1>3. ASSUME NEW k \in Keys, RetryExpires(k)
      PROVE  Tallies'
  <2>1. UNCHANGED <<starting, op, wk>>
    BY <1>3 DEF RetryExpires, pool, net
  <2> QED BY <2>1, SameTallies DEF Counted
<1>4. ASSUME NEW w \in Workers, RunReady(w)
      PROVE  Tallies'
  <2>1. op' = op
    BY <1>4 DEF RunReady
  <2>2. CASE Exits(w) /\ starting' = starting
    BY <1>1, <2>1, <2>2 DEF Exits
  <2>3. CASE starting' = StartingAfter(w)
             /\ \E t \in {"stopped", "armed"} : wk' = [wk EXCEPT ![w] = Published(@, t)]
    <3>1. PICK t : wk' = [wk EXCEPT ![w] = Published(@, t)]
      BY <2>3
    <3>2. wk'[w] = Published(wk[w], t) /\ \A v \in Workers : v # w => wk'[v] = wk[v]
      BY <1>0, <3>1
    <3>3. wk'[w].pending = wk[w].pending /\ ~wk'[w].warmStarting
      BY <1>0, <3>2, Counts
    <3>4. \A v \in Workers : v # w => Counted(wk'[v], wk[v])
      BY <3>2 DEF Counted
    <3> QED BY <2>1, <2>3, <3>3, <3>4, OneWarmStartLess
  <2> QED BY <1>4, <2>2, <2>3 DEF RunReady
<1>5. ASSUME NEW w \in Workers, RunFinishes(w)
      PROVE  Tallies'
  <2>1. wk'[w] = Finished(Retired(wk[w])) /\ \A v \in Workers : v # w => wk'[v] = wk[v]
    BY <1>0, <1>5 DEF RunFinishes
  <2>2. wk'[w].pending = wk[w].pending /\ ~wk'[w].warmStarting
    <3>1. Retired(wk[w]) \in Objects /\ Counted(Retired(wk[w]), wk[w])
      BY <1>0, RecordTypes, Counts
    <3>2. /\ Finished(Retired(wk[w])).pending = Retired(wk[w]).pending
          /\ ~Finished(Retired(wk[w])).warmStarting
      BY <3>1, Counts
    <3> QED BY <2>1, <3>1, <3>2 DEF Counted
  <2>3. \A v \in Workers : v # w => Counted(wk'[v], wk[v])
    BY <2>1 DEF Counted
  <2>4. op' = op /\ starting' = StartingAfter(w)
    BY <1>5 DEF RunFinishes
  <2> QED BY <2>2, <2>3, <2>4, OneWarmStartLess
<1> QED BY <1>2, <1>3, <1>4, <1>5 DEF ClockStep, RunStep

\* The reaper, the operator and Close leave both counters to the workers' own ends.
LEMMA TakerTallies ==
    ASSUME Typed(Int), Tallies, ReapStep \/ AdminStep \/ CloseStep
    PROVE  Tallies'
<1>0. \A w \in Workers : wk[w] \in Objects
  BY DEF Typed, Objects
<1>1. UNCHANGED <<starting, op>>
  BY DEF ReapStep, ReapScan, ReapNext, AdminStep, PersistSettings, InvalidateStream, PullNext, Bump,
         Signal, CloseStep, Start, CloseBegins, CloseCancels, CloseRetires, CloseServer, CloseJoins,
         Finish, vars, policy, net
<1>2. UNCHANGED wk \/ CloseCancels \/ \E w \in Workers : RetireAll({w})
  BY DEF ReapStep, ReapScan, ReapNext, AdminStep, PersistSettings, InvalidateStream, PullNext, Bump,
         Signal, CloseStep, Start, CloseBegins, CloseRetires, CloseServer, CloseJoins,
         Finish, vars, pool
<1>4. \A w \in Workers : Counted(wk'[w], wk[w])
  <2>1. CASE UNCHANGED wk
    BY <2>1 DEF Counted
  <2>2. CASE CloseCancels
    <3>1. \A w \in Workers : wk'[w] = Cancelled(wk[w])
      BY <2>2 DEF CloseCancels
    <3> QED BY <1>0, <3>1, Counts
  <2>3. ASSUME NEW v \in Workers, RetireAll({v})
        PROVE  \A w \in Workers : Counted(wk'[w], wk[w])
    <3>1. \A w \in Workers : wk'[w] \in {Retired(wk[w]), wk[w]}
      BY <2>3 DEF RetireAll, RetireIn
    <3>2. \A w \in Workers : Counted(Retired(wk[w]), wk[w]) /\ Counted(wk[w], wk[w])
      BY <1>0, Counts DEF Counted
    <3> QED BY <3>1, <3>2
  <2> QED BY <1>2, <2>1, <2>2, <2>3
<1> QED BY <1>1, <1>4, SameTallies

\* The room the reconciler leaves: two handshakes, and one slot for demand.
LEMMA ToStartBounds ==
    ASSUME Typed(Int), NEW desired \in SUBSET Keys, NEW R \in SUBSET Workers
    PROVE  LET S    == ToStart(desired, R)
               left == Registered \ {wk[w].key : w \in R}
           IN  /\ S \subseteq desired \ left /\ IsFiniteSet(S) /\ Cardinality(S) \in Nat
               /\ Cardinality(S) <= IF 2 - starting > 0 THEN 2 - starting ELSE 0
               /\ Cardinality(S) <= IF Budget - Cardinality(left) > 0
                                    THEN Budget - Cardinality(left) ELSE 0
<1> DEFINE left == Registered \ {wk[w].key : w \in R}
           room == IF 2 - starting < Budget - Cardinality(left)
                   THEN 2 - starting ELSE Budget - Cardinality(left)
           cool == {k \in desired \ left : retry[k] # "cooling"}
<1>1. IsFiniteSet(left) /\ Cardinality(left) \in Nat
  BY KeysAssumption, FS_Subset, FS_CardinalityType DEF Registered
<1>2. Budget \in Int /\ starting \in Int
  BY MaxStreamsAssumption DEF Budget, Typed
<1>3. cool \in SUBSET Nat /\ IsFiniteSet(cool) /\ cool \subseteq desired \ left
  BY KeysAssumption, FS_Subset
<1> HIDE DEF left, cool
<1>4. room \in Int /\ room <= 2 - starting /\ room <= Budget - Cardinality(left)
  BY <1>1, <1>2
<1>5. ToStart(desired, R) = FirstOf(cool, room)
  BY DEF ToStart, cool, left
<1> HIDE DEF room
<1>6. /\ FirstOf(cool, room) \subseteq cool /\ IsFiniteSet(FirstOf(cool, room))
      /\ Cardinality(FirstOf(cool, room)) \in Nat
      /\ Cardinality(FirstOf(cool, room)) <= IF room > 0 THEN room ELSE 0
  BY <1>3, <1>4, FirstOfBounds
<1> DEFINE n == Cardinality(ToStart(desired, R))
           l == Cardinality(left)
<1>7. /\ ToStart(desired, R) \subseteq desired \ left /\ IsFiniteSet(ToStart(desired, R))
      /\ n \in Nat /\ n <= IF room > 0 THEN room ELSE 0
  BY <1>3, <1>5, <1>6
<1>8. l \in Int /\ room <= Budget - l
  BY <1>1, <1>4
<1> HIDE DEF n, l
<1>9. /\ n <= IF 2 - starting > 0 THEN 2 - starting ELSE 0
      /\ n <= IF Budget - l > 0 THEN Budget - l ELSE 0
  BY <1>2, <1>4, <1>7, <1>8
<1> QED BY <1>7, <1>9 DEF left, n, l

\* The reconciler's warm starts are counted, each once.
LEMMA RecStepTallies ==
    ASSUME Typed(Int), Tallies, RecStep
    PROVE  Tallies'
<1>0. \A w \in Workers : wk[w] \in Objects
  BY DEF Typed, Objects
<1>1. op' = op
  BY DEF RecStep, RecFirst, RecWakes, RecTicks, RecBegins, RecRead, RecRejects, RecApplies,
         RecStops, net
<1>2. CASE UNCHANGED wk /\ UNCHANGED starting
  BY <1>1, <1>2, SameTallies DEF Counted
<1>3. CASE RecApplies
  <2> DEFINE R == Unwanted(targets')
             S == ToStart(targets', R)
             leased == [w \in Workers |-> Leased(wk[w], targets')]
  <2>1. targets' \in SUBSET Keys
    BY <1>3 DEF RecApplies, FirstOf, Catalog
  <2>2. R \in SUBSET Workers
    BY DEF Unwanted, Registered, Typed
  <2>3. /\ IsFiniteSet(S) /\ Cardinality(S) \in Nat
        /\ Cardinality(S) <= IF 2 - starting > 0 THEN 2 - starting ELSE 0
    <3> DEFINE T == targets'
    <3>1. T \in SUBSET Keys
      BY <2>1
    <3> HIDE DEF T, R
    <3>2. /\ IsFiniteSet(ToStart(T, R)) /\ Cardinality(ToStart(T, R)) \in Nat
          /\ Cardinality(ToStart(T, R)) <= IF 2 - starting > 0 THEN 2 - starting ELSE 0
      BY <2>2, <3>1, ToStartBounds
    <3> QED BY <3>2 DEF T
  <2> HIDE DEF R, S
  <2>4. PICK f \in [S -> Free] :
           /\ Injective(f)
           /\ wk' = [w \in Workers |->
                       IF \E k \in S : f[k] = w
                       THEN NewWorker(CHOOSE k \in S : f[k] = w, TRUE, targets')
                       ELSE RetireIn(leased, R)[w]]
           /\ starting' = starting + Cardinality(S)
    BY <1>3, Zenon DEF RecApplies, R, S
  <2>5. ASSUME NEW w \in Workers, \A k \in S : f[k] # w
        PROVE  Counted(wk'[w], wk[w])
    <3>1. Leased(wk[w], targets') \in Objects /\ Counted(Leased(wk[w], targets'), wk[w])
      BY <1>0, <2>1, RecordTypes, Counts
    <3>2. wk'[w] \in {Retired(Leased(wk[w], targets')), Leased(wk[w], targets')}
      BY <2>4, <2>5 DEF RetireIn
    <3>3. Counted(Retired(Leased(wk[w], targets')), Leased(wk[w], targets'))
      BY <3>1, Counts
    <3> QED BY <3>1, <3>2, <3>3 DEF Counted
  <2> DEFINE N == {f[k] : k \in S}
  <2>6. ASSUME NEW w \in N
        PROVE  /\ w \in Workers /\ wk[w].pending = 0 /\ ~wk[w].warmStarting
               /\ wk'[w].pending = 0 /\ wk'[w].warmStarting
    <3>1. w \in Workers /\ wk[w] = Gone
      BY <2>4 DEF Free
    <3>2. \E k \in S : f[k] = w
      OBVIOUS
    <3>3. PICK k : wk'[w] = NewWorker(k, TRUE, targets')
      BY <2>4, <3>1, <3>2
    <3> DEFINE T == targets'
    <3> HIDE DEF T
    <3>4. NewWorker(k, TRUE, T).pending = 0 /\ NewWorker(k, TRUE, T).warmStarting
      BY SMT DEF NewWorker
    <3>5. Gone.pending = 0 /\ ~Gone.warmStarting
      BY SMT DEF Gone
    <3> QED BY <3>1, <3>3, <3>4, <3>5 DEF T
  <2>7. f \in Bijection(S, N)
    BY <2>4, Zenon DEF Bijection, Injection, Surjection, IsInjective, Injective
  <2>8. IsFiniteSet(N) /\ Cardinality(N) = Cardinality(S)
    BY <2>3, <2>7, FS_Bijection DEF ExistsBijection
  <2> HIDE DEF N
  <2>9. \A w \in Workers : (\A k \in S : f[k] # w) <=> w \notin N
    BY DEF N
  <2>10. WarmStarting' = WarmStarting \cup N /\ WarmStarting \cap N = {}
    BY <2>5, <2>6, <2>9 DEF WarmStarting, Counted
  <2>11. IsFiniteSet(WarmStarting) /\ Cardinality(WarmStarting) \in Nat
    BY WorkersAssumption, FS_Subset, FS_CardinalityType DEF WarmStarting
  <2>12. Cardinality(WarmStarting \cup N) = Cardinality(WarmStarting) + Cardinality(N)
    BY <2>3, <2>8, <2>10, <2>11, FS_Union, FS_EmptySet
  <2>13. WarmStartCounted'
    BY <2>3, <2>4, <2>8, <2>10, <2>11, <2>12 DEF WarmStartCounted, Tallies
  <2>14. \A v : Handlers(v)' = Handlers(v)
    BY <1>1 DEF Handlers
  <2>15. DemandCounted' /\ OpsNamed'
    BY <1>1, <2>5, <2>6, <2>9, <2>14 DEF Tallies, DemandCounted, OpsNamed, Counted
  <2> QED BY <2>13, <2>15 DEF Tallies
<1> QED BY <1>2, <1>3 DEF RecStep, RecFirst, RecWakes, RecTicks, RecBegins, RecRead, RecRejects,
                          RecStops, pool, policy

\* Every step keeps the tallies.
LEMMA NextTallies ==
    ASSUME Typed(Int), Tallies, [Next]_vars
    PROVE  Tallies'
<1>1. CASE UNCHANGED vars
  BY <1>1, SameTallies DEF vars, Counted
<1>2. CASE ClientStep
  BY <1>2, RequestTallies, HandlerTallies DEF ClientStep
<1>3. CASE HandlerStep
  BY <1>3, HandlerTallies DEF HandlerStep
<1> QED BY <1>1, <1>2, <1>3, RunStepTallies, TakerTallies, RecStepTallies DEF Next

\* Nobody has asked and nothing is warm when the relay is made.
LEMMA InitTallies == Init => Tallies
<1> SUFFICES ASSUME Init PROVE Tallies
  OBVIOUS
<1>1. Gone.pending = 0 /\ ~Gone.warmStarting /\ Idle.worker = None /\ Idle.at = "idle"
  BY SMT DEF Gone, Idle
<1>2. \A w \in Workers : wk[w] = Gone
  BY DEF Init
<1>3. \A c \in Clients : op[c] = Idle
  BY DEF Init
<1>4. WarmStarting = {} /\ \A w \in Workers : Handlers(w) = {}
  BY <1>1, <1>2, <1>3, NoneAssumption DEF WarmStarting, Handlers
<1>5. starting = 0
  BY DEF Init
<1> QED BY <1>1, <1>2, <1>3, <1>4, <1>5, FS_EmptySet
        DEF Tallies, OpsNamed, DemandCounted, WarmStartCounted

\* The counters are natural because of what they count.
LEMMA TypesFollow == Typed(Int) /\ Tallies => TypeOK
<1> SUFFICES ASSUME Typed(Int), Tallies PROVE TypeOK
  OBVIOUS
<1>1. ASSUME NEW w \in Workers PROVE wk[w].pending \in Nat
  <2>1. Cardinality(Handlers(w)) \in Nat
    BY ClientsAssumption, FS_Subset, FS_CardinalityType DEF Handlers
  <2> QED BY <2>1 DEF Tallies, DemandCounted
<1>2. wk \in [Workers -> WorkerType(Nat)]
  <2>1. ASSUME NEW w \in Workers PROVE wk[w] \in WorkerType(Nat)
    <3>1. wk[w] \in WorkerType(Int)
      BY DEF Typed
    <3> QED BY <1>1, <3>1, Zenon DEF WorkerType
  <2> QED BY <2>1 DEF Typed
<1>3. starting \in Nat
  <2>1. Cardinality(WarmStarting) \in Nat
    BY WorkersAssumption, FS_Subset, FS_CardinalityType DEF WarmStarting
  <2> QED BY <2>1 DEF Tallies, WarmStartCounted
<1> QED BY <1>2, <1>3 DEF TypeOK, Typed
----------------------------------------------------------------------------
(* The limit on inputs. *)

\* A step after which no further key has a worker keeps the limit.
LEMMA FewerKeepsBound ==
    ASSUME StreamsBounded, Registered' \subseteq Registered
    PROVE  StreamsBounded'
<1>1. IsFiniteSet(Registered)
  BY KeysAssumption, FS_Subset DEF Registered
<1>2. Cardinality(Registered') <= Cardinality(Registered) /\ IsFiniteSet(Registered')
  BY <1>1, FS_Subset
<1>3. Cardinality(Registered') \in Nat /\ Cardinality(Registered) \in Nat
  BY <1>1, <1>2, FS_CardinalityType
<1> QED BY <1>2, <1>3, MaxStreamsAssumption DEF StreamsBounded

\* Demand at the limit replaces an idle warm worker, below it it adds one.
LEMMA RequestBounded ==
    ASSUME Typed(Int), StreamsBounded, NEW c \in Clients, NEW kind, NEW k \in Keys,
           Request(c, kind, k)
    PROVE  StreamsBounded'
<1>0. IsFiniteSet(Registered) /\ Cardinality(Registered) \in Nat
  BY KeysAssumption, FS_Subset, FS_CardinalityType DEF Registered
<1>1. CASE JoinWorker(c, kind, k)
  BY <1>1, FewerKeepsBound DEF JoinWorker, Registered
<1>2. CASE StartForDemand(c, kind, k)
  <2>1. PICK R \in Victims, w \in Free : StartForDemand(c, kind, k)!2!(R, w)
    BY <1>2 DEF StartForDemand
  <2>2. \A j \in Keys : j # k => reg'[j] = IF reg[j] \in R THEN None ELSE reg[j]
    BY <2>1 DEF Unregister
  <2>3. CASE Cardinality(Registered) < MaxStreams
    <3>1. Registered' \subseteq Registered \cup {k}
      BY <2>2 DEF Registered
    <3>2. /\ IsFiniteSet(Registered \cup {k})
          /\ Cardinality(Registered \cup {k}) <= Cardinality(Registered) + 1
      <4>1. /\ IsFiniteSet(Registered \cup {k})
            /\ \/ Cardinality(Registered \cup {k}) = Cardinality(Registered)
               \/ Cardinality(Registered \cup {k}) = Cardinality(Registered) + 1
        BY <1>0, FS_AddElement, Zenon
      <4> QED BY <1>0, <4>1
    <3>3. Cardinality(Registered') <= Cardinality(Registered \cup {k})
          /\ IsFiniteSet(Registered')
      BY <3>1, <3>2, FS_Subset
    <3>4. Cardinality(Registered') \in Nat /\ Cardinality(Registered \cup {k}) \in Nat
      BY <3>2, <3>3, FS_CardinalityType
    <3> QED BY <1>0, <2>3, <3>2, <3>3, <3>4, MaxStreamsAssumption DEF StreamsBounded
  <2>4. CASE ~(Cardinality(Registered) < MaxStreams)
    <3>1. PICK v \in IdleWarm : R = {v}
      BY <1>0, <2>1, <2>4, MaxStreamsAssumption DEF Victims
    <3>2. PICK j \in Registered : reg[j] = v
      BY <3>1 DEF IdleWarm
    <3>3. Registered' \subseteq (Registered \ {j}) \cup {k}
      BY <2>2, <3>1, <3>2 DEF Registered
    <3>4. /\ IsFiniteSet(Registered \ {j})
          /\ Cardinality(Registered \ {j}) = Cardinality(Registered) - 1
      BY <1>0, <3>2, FS_RemoveElement
    <3>5. /\ IsFiniteSet((Registered \ {j}) \cup {k})
          /\ Cardinality((Registered \ {j}) \cup {k}) <= Cardinality(Registered)
      <4> DEFINE T == Registered \ {j}
      <4>1. IsFiniteSet(T)
        BY <3>4
      <4> HIDE DEF T
      <4>2. /\ IsFiniteSet(T \cup {k})
            /\ \/ Cardinality(T \cup {k}) = Cardinality(T)
               \/ Cardinality(T \cup {k}) = Cardinality(T) + 1
        BY <4>1, FS_AddElement, Zenon
      <4>3. Cardinality(T) = Cardinality(Registered) - 1
        BY <3>4 DEF T
      <4> QED BY <1>0, <4>2, <4>3 DEF T
    <3>6. Cardinality(Registered') <= Cardinality((Registered \ {j}) \cup {k})
          /\ IsFiniteSet(Registered')
      BY <3>3, <3>5, FS_Subset
    <3>7. Cardinality(Registered') \in Nat /\ Cardinality((Registered \ {j}) \cup {k}) \in Nat
      BY <3>5, <3>6, FS_CardinalityType
    <3> QED BY <1>0, <3>5, <3>6, <3>7, MaxStreamsAssumption DEF StreamsBounded
  <2> QED BY <2>3, <2>4
<1> QED BY <1>1, <1>2 DEF Request

\* The reconciler starts only as many as the budget leaves.
LEMMA RecBounded ==
    ASSUME Typed(Int), RegistryHonest, StreamsBounded, RecApplies
    PROVE  StreamsBounded'
<1> DEFINE R == Unwanted(targets')
           S == ToStart(targets', R)
           left == Registered \ {wk[w].key : w \in R}
<1>0. IsFiniteSet(Registered) /\ Cardinality(Registered) \in Nat
  BY KeysAssumption, FS_Subset, FS_CardinalityType DEF Registered
<1>1. targets' \in SUBSET Keys
  BY DEF RecApplies, FirstOf, Catalog
<1>2. R \in SUBSET Workers
  BY DEF Unwanted, Registered, Typed
<1>3. /\ IsFiniteSet(S) /\ Cardinality(S) \in Nat
      /\ Cardinality(S) <= IF Budget - Cardinality(left) > 0 THEN Budget - Cardinality(left) ELSE 0
  <2> DEFINE T == targets'
  <2>1. T \in SUBSET Keys
    BY <1>1
  <2> HIDE DEF T, R
  <2>2. /\ IsFiniteSet(ToStart(T, R)) /\ Cardinality(ToStart(T, R)) \in Nat
        /\ Cardinality(ToStart(T, R)) <= IF Budget - Cardinality(left) > 0
                                         THEN Budget - Cardinality(left) ELSE 0
    BY <1>2, <2>1, ToStartBounds
  <2> QED BY <2>2 DEF T
<1>4. \A k \in Registered : reg[k] \in R => k \notin left
  BY DEF RegistryHonest
<1> HIDE DEF R, S
<1>5. PICK f \in [S -> Free] :
         reg' = [k \in Keys |-> IF k \in S THEN f[k] ELSE Unregister(R)[k]]
  BY Zenon DEF RecApplies, R, S
<1>6. Registered' \subseteq left \cup S
  <2>1. ASSUME NEW k \in Keys, k \notin S, reg'[k] # None
        PROVE  k \in left
    <3>1. reg'[k] = reg[k] /\ reg[k] \notin R
      BY <1>5, <2>1 DEF Unregister
    <3>2. k \in Registered
      BY <2>1, <3>1 DEF Registered
    <3>3. ASSUME NEW w \in R PROVE wk[w].key # k
      <4>1. PICK j \in Registered : reg[j] = w
        BY DEF R, Unwanted
      <4>2. wk[w].key = j
        BY <4>1 DEF RegistryHonest
      <4> QED BY <3>1, <4>1, <4>2
    <3> QED BY <3>2, <3>3
  <2> QED BY <2>1 DEF Registered
<1>7. IsFiniteSet(left) /\ Cardinality(left) \in Nat /\ Cardinality(left) <= Cardinality(Registered)
  BY <1>0, FS_Subset, FS_CardinalityType
<1> HIDE DEF left
<1>8. IsFiniteSet(left \cup S) /\ Cardinality(left \cup S) <= Cardinality(left) + Cardinality(S)
  <2>1. IsFiniteSet(left \cap S) /\ Cardinality(left \cap S) \in Nat
    BY <1>7, FS_Intersection, FS_CardinalityType
  <2>2. /\ IsFiniteSet(left \cup S)
        /\ Cardinality(left \cup S)
             = Cardinality(left) + Cardinality(S) - Cardinality(left \cap S)
    BY <1>3, <1>7, FS_Union
  <2> QED BY <1>3, <1>7, <2>1, <2>2
<1>9. Cardinality(Registered') <= Cardinality(left \cup S) /\ IsFiniteSet(Registered')
  BY <1>6, <1>8, FS_Subset
<1>10. Cardinality(Registered') \in Nat /\ Cardinality(left \cup S) \in Nat
  BY <1>8, <1>9, FS_CardinalityType
<1>11. Budget \in Nat /\ Budget <= MaxStreams
  BY MaxStreamsAssumption DEF Budget
<1> QED BY <1>0, <1>3, <1>7, <1>8, <1>9, <1>10, <1>11, MaxStreamsAssumption DEF StreamsBounded

\* Every other step only takes workers away.
LEMMA NextBounded ==
    ASSUME Typed(Int), RegistryHonest, StreamsBounded, [Next]_vars
    PROVE  StreamsBounded'
<1>1. ASSUME NEW c \in Clients, NEW kind, NEW k \in Keys, Request(c, kind, k)
      PROVE  StreamsBounded'
  BY <1>1, RequestBounded
<1>2. CASE RecApplies
  BY <1>2, RecBounded
<1>3. CASE \/ UNCHANGED reg
           \/ \E R : reg' = Unregister(R)
  <2>1. Registered' \subseteq Registered
    BY <1>3 DEF Registered, Unregister
  <2> QED BY <2>1, FewerKeepsBound
<1>4. CASE ClientStep \/ HandlerStep
  BY <1>1, <1>3, <1>4 DEF ClientStep, HandlerStep, Play, Pause, SessionClose, Hangup, WaitReady,
     WaitCancelled, Bind, Release, ConnClose, pool
<1>5. CASE RunStep \/ ClockStep
  BY <1>3, <1>5 DEF RunStep, ClockStep, RunRejects, RunResolves, RunFails, RunReady, RunEnds,
     RunFinishes, Cleanup, Age, AgeView, TimerFires, RetryExpires, pool
<1>6. CASE ReapStep \/ AdminStep
  BY <1>3, <1>6 DEF ReapStep, ReapScan, ReapNext, AdminStep, PersistSettings, InvalidateStream,
     PullNext, Bump, Signal, RetireAll, pool
<1>7. CASE RecStep
  BY <1>2, <1>3, <1>7 DEF RecStep, RecFirst, RecWakes, RecTicks, RecBegins, RecRead, RecRejects,
     RecStops, pool
<1>8. CASE CloseStep
  BY <1>3, <1>8 DEF CloseStep, Start, CloseBegins, CloseCancels, CloseRetires, CloseServer,
     CloseJoins, Finish, RetireAll, vars, pool
<1> QED BY <1>3, <1>4, <1>5, <1>6, <1>7, <1>8 DEF Next, vars
----------------------------------------------------------------------------
(* Theorems. *)

\* The inductive invariant: the counters are sound only while the registry is, and the limit
\* on inputs only while each key has its own worker.
Sound == Typed(Int) /\ Bonds /\ Tallies /\ StreamsBounded

\* Every behaviour of the relay is sound: the initial state, one step, and induction.
LEMMA SoundAlways == Spec => []Sound
<1>1. Init => Sound
  <2>1. Init => StreamsBounded
    <3> SUFFICES ASSUME Init PROVE StreamsBounded
      OBVIOUS
    <3>1. Registered = {}
      BY DEF Init, Registered
    <3> QED BY <3>1, FS_EmptySet, MaxStreamsAssumption DEF StreamsBounded
  <2> QED BY <2>1, InitKeeps, InitTallies DEF Sound
<1>2. Sound /\ [Next]_vars => Sound'
  BY NextTypes, NextKeeps, NextTallies, NextBounded DEF Sound, Bonds
<1> QED BY <1>1, <1>2, PTL DEF Spec

\* Every variable keeps its type; pendingDemand and preconnectStarting never go negative.
THEOREM TypesHold == Spec => []TypeOK
<1>1. Sound => TypeOK
  BY TypesFollow DEF Sound
<1> QED BY <1>1, SoundAlways, PTL

\* pendingDemand is always the number of handlers that still hold the worker, on every path
\* through getStreamForDemand, releaseDemand, retirement and the worker's end.
THEOREM DemandAlwaysCounted == Spec => []DemandCounted
<1>1. Sound => DemandCounted
  BY DEF Sound, Tallies
<1> QED BY <1>1, SoundAlways, PTL

\* preconnectStarting is always the number of warm handshakes, and at most two of them run.
THEOREM WarmStartsAlwaysCounted == Spec => []WarmStartCounted
<1>1. Sound => WarmStartCounted
  BY DEF Sound, Tallies
<1> QED BY <1>1, SoundAlways, PTL

\* Demand, warming and eviction together never hold more than MaxStreams inputs.
THEOREM StreamsStayBounded == Spec => []StreamsBounded
<1>1. Sound => StreamsBounded
  BY DEF Sound
<1> QED BY <1>1, SoundAlways, PTL
============================================================================
