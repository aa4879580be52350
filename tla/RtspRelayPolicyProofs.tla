---------------------- MODULE RtspRelayPolicyProofs ----------------------
(***************************************************************************)
(* Theorems about what RtspRelay decides: which inputs it keeps warm, whom *)
(* it takes a worker from, whose setting it follows, and what is left when *)
(* it closes.                                                              *)
(*                                                                         *)
(* The reconciler reads the catalog outside the relay's lock, and comes    *)
(* back with the revision it was read at.  The argument about the policy   *)
(* rests on that: a snapshot that is still current holds the saved mode,   *)
(* and whoever voids one leaves a token behind.                            *)
(***************************************************************************)
EXTENDS RtspRelayCountingProofs

----------------------------------------------------------------------------
(* The inductive invariant. *)

\* Somebody who plays reads, and a worker's warm lease is what the reconciler last decided.
Leases ==
    \A w \in Workers : /\ wk[w].playing \subseteq wk[w].readers
                       /\ ~wk[w].retired => (wk[w].warm <=> wk[w].key \in targets)

\* The reconciler's targets leave demand a slot.
TargetsFit == /\ Cardinality(targets) <= Budget
              /\ mode # "always" => targets = {}

\* What Close has not retired yet is on its list.
Drained == /\ closePc # "open" => \A w \in Workers : ~wk[w].retired => w \in closing
           /\ closePc \in {"joining", "joined"} => closing = {}

\* A snapshot that is still current holds the saved mode, unless the operator's call has not
\* come as far as to void it; and whoever has voided one will wake the reconciler.
Heard ==
    /\ rec = "apply" /\ snap.current /\ admin # "wake" => snap.mode = settings
    /\ rec \in {"read", "apply"} /\ ~snap.current =>
         wake \/ admin \in {"pull", "signal"} \/ closePc # "open"
    /\ NoLostPolicy

Decided == Leases /\ TargetsFit /\ Drained /\ Heard /\ TablesBounded

----------------------------------------------------------------------------
(* The kinds of steps. *)

\* What a lease and its reader depend on of a relayStream.
SameLease(q, r) == /\ q.key = r.key /\ q.retired = r.retired /\ q.warm = r.warm
                   /\ r.playing \subseteq r.readers => q.playing \subseteq q.readers

\* The operations that leave a lease alone.
LEMMA LeaseFields ==
    ASSUME NEW r \in Objects
    PROVE  /\ SameLease(Reserved(r), r) /\ SameLease(Unreserved(r), r)
           /\ SameLease(Aged(r), r) /\ SameLease(Unviewed(r), r) /\ SameLease(Fired(r), r)
           /\ SameLease(Cancelled(r), r) /\ SameLease(Cleaned(r), r)
           /\ SameLease(Dialing(r), r) /\ SameLease(Exited(r), r)
           /\ \A t : SameLease(Published(r, t), r)
  BY SMT DEF SameLease, Objects, WorkerType, Reserved, Unreserved, Aged, Unviewed, Fired, Cancelled,
             Cleaned, Dialing, Exited, Published

LEMMA ClientLeases ==
    ASSUME NEW r \in Objects, NEW c
    PROVE  /\ SameLease(Bound(r, c), r) /\ SameLease(Unbound(r, c), r)
           /\ SameLease(Joined(r, c), r) /\ SameLease(Watched(r, c), r)
           /\ SameLease(Paused(r, c), r) /\ SameLease(Left(r, c), r)
  BY SMT DEF SameLease, Objects, WorkerType, Bound, Unbound, Joined, Watched, Paused, Left

\* What retireLocked and finishWorker leave of a relayStream.
LEMMA RetiredLeases ==
    ASSUME NEW r \in Objects
    PROVE  /\ Retired(r).retired
           /\ r.playing \subseteq r.readers => Retired(r).playing \subseteq Retired(r).readers
           /\ Finished(r).retired /\ Finished(r).playing = {} /\ Finished(r).readers = {}
<1>1. Finished(r).retired /\ Finished(r).playing = {} /\ Finished(r).readers = {}
  BY SMT DEF Finished, Gone
<1>2. CASE r.retired
  BY <1>1, <1>2 DEF Retired
<1>3. CASE ~r.retired
  <2>1. Retired(r).retired /\ Retired(r).playing = {} /\ Retired(r).readers = {}
    BY <1>3, Zenon DEF Retired, Objects, WorkerType
  <2> QED BY <1>1, <2>1
<1> QED BY <1>2, <1>3

\* No worker is started, retired or leased.
Calm == \A w \in Workers : SameLease(wk'[w], wk[w])

LEMMA UnchangedCalm == UNCHANGED wk => Calm
  BY DEF Calm, SameLease

LEMMA OneCalm ==
    ASSUME Typed(Int), NEW w, NEW r, w \in Workers => SameLease(r, wk[w]), wk' = [wk EXCEPT ![w] = r]
    PROVE  Calm
<1>1. wk \in [Workers -> Objects]
  BY DEF Typed, Objects
<1> QED BY <1>1 DEF Calm, SameLease

\* Clients that find their worker, or no longer want it.
LEMMA ClientCalm ==
    ASSUME Typed(Int), NEW c \in Clients,
           \/ Play(c) \/ Pause(c) \/ SessionClose(c) \/ Hangup(c)
           \/ \E kind : \E k \in Keys : JoinWorker(c, kind, k)
           \/ WaitReady(c) \/ WaitCancelled(c) \/ Bind(c) \/ Release(c) \/ ConnClose(c)
    PROVE  Calm
<1>0. wk \in [Workers -> Objects]
  BY DEF Typed, Objects
<1>1. ASSUME NEW w, wk' = [wk EXCEPT ![w] = Reserved(@)]
      PROVE  Calm
  <2>1. wk' = [wk EXCEPT ![w] = Reserved(wk[w])]
    BY <1>1
  <2> QED BY <1>0, <2>1, LeaseFields, OneCalm
<1>2. ASSUME NEW w, wk' = [wk EXCEPT ![w] = Unreserved(@)]
      PROVE  Calm
  <2>1. wk' = [wk EXCEPT ![w] = Unreserved(wk[w])]
    BY <1>2
  <2> QED BY <1>0, <2>1, LeaseFields, OneCalm
<1>3. ASSUME NEW w,
             \/ wk' = [wk EXCEPT ![w] = Watched(@, c)]
             \/ wk' = [wk EXCEPT ![w] = Paused(@, c)]
             \/ wk' = [wk EXCEPT ![w] = Left(@, c)]
             \/ wk' = [wk EXCEPT ![w] = Unbound(@, c)]
      PROVE  Calm
  <2>1. PICK r \in {Watched(wk[w], c), Paused(wk[w], c), Left(wk[w], c), Unbound(wk[w], c)} :
           wk' = [wk EXCEPT ![w] = r]
    BY <1>3
  <2>2. w \in Workers => SameLease(r, wk[w])
    BY <1>0, ClientLeases
  <2> QED BY <2>1, <2>2, OneCalm
<1>4. CASE Bind(c)
  <2> DEFINE w == op[c].worker
  <2>1. CASE UNCHANGED wk
    BY <2>1, UnchangedCalm
  <2>2. ASSUME NEW r, r = wk[w] \/ r = Joined(wk[w], c), wk' = BindConn(c, w, r)
        PROVE  Calm
    <3>1. w \in Workers => r \in Objects /\ SameLease(r, wk[w])
      <4>1. CASE r = wk[w]
        BY <1>0, <4>1 DEF SameLease
      <4>2. CASE r = Joined(wk[w], c)
        BY <1>0, <4>2, ClientTypes, ClientLeases
      <4> QED BY <2>2, <4>1, <4>2
    <3>2. w \in Workers => SameLease(Bound(r, c), wk[w])
      BY <3>1, ClientLeases DEF SameLease
    <3>3. \A v \in Workers : SameLease(Unbound(wk[v], c), wk[v]) /\ SameLease(wk[v], wk[v])
      BY <1>0, ClientLeases DEF SameLease
    <3>4. \A v \in Workers : wk'[v] = IF v = w THEN Bound(r, c)
                                     ELSE IF conns[c] = v THEN Unbound(wk[v], c) ELSE wk[v]
      BY <2>2 DEF BindConn
    <3> HIDE DEF w
    <3> QED BY <3>2, <3>3, <3>4 DEF Calm
  <2> QED BY <1>4, <2>1, <2>2 DEF Bind, pool
<1>5. CASE Hangup(c) \/ WaitCancelled(c)
  BY <1>5, UnchangedCalm DEF Hangup, WaitCancelled, pool
<1>6. CASE \E kind : \E k \in Keys : JoinWorker(c, kind, k)
  BY <1>1, <1>6 DEF JoinWorker
<1>7. CASE WaitReady(c) \/ Release(c)
  BY <1>2, <1>7, UnchangedCalm DEF WaitReady, Release
<1>8. CASE Play(c) \/ Pause(c) \/ SessionClose(c) \/ ConnClose(c)
  BY <1>3, <1>8, UnchangedCalm DEF Play, Pause, SessionClose, ConnClose
<1> QED BY <1>4, <1>5, <1>6, <1>7, <1>8

\* The clock, and a worker's goroutine until it ends.
LEMMA RunCalm ==
    ASSUME Typed(Int), ClockStep \/ RunStep, ~ \E w \in Workers : RunFinishes(w)
    PROVE  Calm
<1>0. wk \in [Workers -> Objects]
  BY DEF Typed, Objects
<1>1. ASSUME NEW w \in Workers,
             \/ Age(w) \/ AgeView(w) \/ TimerFires(w) \/ Cleanup(w)
             \/ RunRejects(w) \/ RunResolves(w) \/ RunFails(w) \/ RunReady(w) \/ RunEnds(w)
      PROVE  Calm
  <2>1. PICK r \in {Aged(wk[w]), Unviewed(wk[w]), Fired(wk[w]), Cleaned(wk[w]), Exited(wk[w]),
                    Dialing(wk[w]), Published(wk[w], "stopped"), Published(wk[w], "armed")} :
           wk' = [wk EXCEPT ![w] = r]
    BY <1>1 DEF Age, AgeView, TimerFires, Cleanup, RunRejects, RunResolves, RunFails, RunReady,
                RunEnds, Exits
  <2>2. SameLease(r, wk[w])
    BY <1>0, <2>1, LeaseFields
  <2> QED BY <2>1, <2>2, OneCalm
<1>2. ASSUME NEW k \in Keys, RetryExpires(k)
      PROVE  Calm
  BY <1>2, UnchangedCalm DEF RetryExpires, pool
<1> QED BY <1>1, <1>2 DEF ClockStep, RunStep

\* Those who retire one worker.
Takes(w) == RetireAll({w}) /\ (ReapNext(w) \/ PullNext(w) \/ CloseRetires(w))

LEMMA TakerCalm ==
    ASSUME Typed(Int), ReapStep \/ AdminStep \/ CloseStep
    PROVE  /\ Calm \/ \E w \in Workers : Takes(w)
           /\ UNCHANGED <<targets, mode, starts>>
<1>0. wk \in [Workers -> Objects]
  BY DEF Typed, Objects
<1>1. UNCHANGED <<targets, mode, starts>>
  BY DEF ReapStep, ReapScan, ReapNext, AdminStep, PersistSettings, InvalidateStream, PullNext, Bump,
         Signal, CloseStep, Start, CloseBegins, CloseCancels, CloseRetires, CloseServer, CloseJoins,
         Finish, vars, policy
<1>2. \/ UNCHANGED wk \/ CloseCancels
      \/ \E w \in Workers : Takes(w)
  BY DEF ReapStep, ReapScan, ReapNext, AdminStep, PersistSettings, InvalidateStream, PullNext, Bump,
         Signal, CloseStep, Start, CloseBegins, CloseRetires, CloseServer, CloseJoins,
         Finish, vars, pool, Takes
<1>3. CASE CloseCancels
  <2>1. \A w \in Workers : wk'[w] = Cancelled(wk[w])
    BY <1>3 DEF CloseCancels
  <2> QED BY <1>0, <1>1, <2>1, LeaseFields DEF Calm
<1> QED BY <1>1, <1>2, <1>3, UnchangedCalm

\* Every step is of one of these kinds.
Evicts == \E c \in Clients, k \in Keys : \E kind : Accepting /\ StartForDemand(c, kind, k)

LEMMA Kinds ==
    ASSUME Typed(Int), [Next]_vars
    PROVE  \/ Calm /\ UNCHANGED targets
           \/ Evicts /\ UNCHANGED targets
           \/ (\E w \in Workers : Takes(w)) /\ UNCHANGED targets
           \/ (\E w \in Workers : RunFinishes(w)) /\ UNCHANGED targets
           \/ RecApplies
<1>1. CASE UNCHANGED vars
  BY <1>1, UnchangedCalm DEF vars
<1>2. CASE ClientStep
  <2>1. UNCHANGED targets
    BY <1>2 DEF ClientStep, Request, Play, Pause, SessionClose, Hangup, policy
  <2>2. PICK c \in Clients :
          \/ \E kind \in {"describe", "setup"}, k \in Keys : Request(c, kind, k)
          \/ Play(c) \/ Pause(c) \/ SessionClose(c) \/ Hangup(c)
    BY <1>2 DEF ClientStep
  <2>3. ASSUME NEW kind, NEW k \in Keys, Request(c, kind, k)
        PROVE  Evicts \/ Calm
    <3>1. CASE StartForDemand(c, kind, k)
      BY <2>3, <3>1 DEF Request, Evicts
    <3>2. CASE JoinWorker(c, kind, k)
      <4>1. \E q : \E j \in Keys : JoinWorker(c, q, j)
        BY <3>2
      <4> QED BY <4>1, ClientCalm, Zenon
    <3> QED BY <2>3, <3>1, <3>2 DEF Request
  <2>4. Evicts \/ Calm
    BY <2>2, <2>3, ClientCalm
  <2> QED BY <2>1, <2>4
<1>3. CASE HandlerStep
  <2>1. UNCHANGED targets
    BY <1>3 DEF HandlerStep, WaitReady, WaitCancelled, Bind, Release, ConnClose, policy
  <2> QED BY <1>3, <2>1, ClientCalm DEF HandlerStep
<1>4. CASE ClockStep \/ RunStep
  <2>1. UNCHANGED targets
    BY <1>4 DEF RunStep, ClockStep, RunRejects, RunResolves, RunFails, RunReady, RunEnds,
       RunFinishes, Cleanup, Age, AgeView, TimerFires, RetryExpires, policy
  <2> QED BY <1>4, <2>1, RunCalm
<1>5. CASE ReapStep \/ AdminStep \/ CloseStep
  BY <1>5, TakerCalm
<1>6. CASE RecStep
  BY <1>6, UnchangedCalm DEF RecStep, RecFirst, RecWakes, RecTicks, RecBegins, RecRead, RecRejects,
     RecStops, pool, policy
<1> QED BY <1>1, <1>2, <1>3, <1>4, <1>5, <1>6 DEF Next

----------------------------------------------------------------------------
(* What each kind does to the leases. *)

\* A demand start, with its victims and its new worker.
LEMMA EvictionForm ==
    ASSUME Typed(Int), Evicts
    PROVE  \E R \in Victims, w \in Free, k \in Keys :
             /\ R \in SUBSET Workers /\ w \in Workers /\ wk[w] = Gone
             /\ wk'[w] = Reserved(NewWorker(k, FALSE, targets))
             /\ \A v \in Workers : v # w => wk'[v] = IF v \in R THEN Retired(wk[v]) ELSE wk[v]
<1>0. PICK c \in Clients, k \in Keys : \E kind : StartForDemand(c, kind, k)
  BY DEF Evicts
<1>1. PICK kind : StartForDemand(c, kind, k)
  BY <1>0
<1>2. PICK R \in Victims, w \in Free : StartForDemand(c, kind, k)!2!(R, w)
  BY <1>1 DEF StartForDemand
<1>3. R \in SUBSET Workers /\ w \in Workers /\ wk[w] = Gone
  BY DEF Victims, IdleWarm, Registered, Free, Typed
<1>4. /\ wk'[w] = Reserved(NewWorker(k, FALSE, targets))
      /\ \A v \in Workers : v # w => wk'[v] = IF v \in R THEN Retired(wk[v]) ELSE wk[v]
  BY <1>2, <1>3 DEF RetireIn
<1> QED BY <1>3, <1>4

\* A pass of the reconciler, with the workers it retires and those it starts.
LEMMA ReconcileForm ==
    ASSUME Typed(Int), RecApplies
    PROVE  /\ targets' \in SUBSET Keys
           /\ \E R \in SUBSET Workers :
                /\ R = Unwanted(targets')
                /\ \A w \in Workers :
                     \/ /\ w \in Free
                        /\ \E k \in Keys : wk'[w] = NewWorker(k, TRUE, targets')
                     \/ wk'[w] = IF w \in R THEN Retired(Leased(wk[w], targets'))
                                 ELSE Leased(wk[w], targets')
<1> DEFINE R == Unwanted(targets')
           S == ToStart(targets', R)
           leased == [w \in Workers |-> Leased(wk[w], targets')]
<1>1. targets' \in SUBSET Keys
  BY DEF RecApplies, FirstOf, Catalog
<1>2. R \in SUBSET Workers
  BY DEF Unwanted, Registered, Typed
<1>3. S \subseteq Keys
  BY <1>1 DEF ToStart, FirstOf
<1> HIDE DEF R, S
<1>4. PICK f \in [S -> Free] :
         wk' = [w \in Workers |->
                  IF \E k \in S : f[k] = w
                  THEN NewWorker(CHOOSE k \in S : f[k] = w, TRUE, targets')
                  ELSE RetireIn(leased, R)[w]]
  BY Zenon DEF RecApplies, R, S
<1>5. ASSUME NEW w \in Workers
      PROVE  \/ /\ w \in Free
                /\ \E k \in Keys : wk'[w] = NewWorker(k, TRUE, targets')
             \/ wk'[w] = IF w \in R THEN Retired(Leased(wk[w], targets'))
                         ELSE Leased(wk[w], targets')
  <2>1. CASE \E k \in S : f[k] = w
    <3>1. (CHOOSE k \in S : f[k] = w) \in S
      BY <2>1
    <3>2. wk'[w] = NewWorker(CHOOSE k \in S : f[k] = w, TRUE, targets')
      BY <1>4, <2>1
    <3> QED BY <1>3, <2>1, <3>1, <3>2
  <2>2. CASE ~ \E k \in S : f[k] = w
    BY <1>4, <2>2 DEF RetireIn
  <2> QED BY <2>1, <2>2
<1> QED BY <1>1, <1>2, <1>5 DEF R

\* The fields of a lease in what these two make.
LEMMA NewLeases ==
    ASSUME NEW k \in Keys, NEW T \in SUBSET Keys, NEW b \in BOOLEAN, NEW r,
           r = NewWorker(k, b, T)
    PROVE  ~r.retired /\ r.key = k /\ (r.warm <=> k \in T) /\ r.playing = {} /\ r.readers = {}
<1>1. /\ ~NewWorker(k, b, T).retired /\ NewWorker(k, b, T).key = k
      /\ NewWorker(k, b, T).warm = (k \in T)
      /\ NewWorker(k, b, T).playing = {} /\ NewWorker(k, b, T).readers = {}
  BY SMT DEF NewWorker
<1> QED BY <1>1, Zenon

LEMMA LeasedFields ==
    ASSUME NEW r \in Objects, NEW T
    PROVE  /\ Leased(r, T).retired = r.retired /\ Leased(r, T).key = r.key
           /\ Leased(r, T).warm <=> ~r.retired /\ r.key \in T
           /\ Leased(r, T).playing = r.playing /\ Leased(r, T).readers = r.readers
<1>1. /\ Leased(r, T).retired = r.retired /\ Leased(r, T).key = r.key
      /\ Leased(r, T).warm = (~r.retired /\ r.key \in T)
      /\ Leased(r, T).playing = r.playing /\ Leased(r, T).readers = r.readers
  BY SMT DEF Leased, Objects, WorkerType
<1> QED BY <1>1, Zenon

\* A lease is what the reconciler last decided, on whatever way the worker came to be.
LEMMA LeasesKept == ASSUME Typed(Int), Leases, [Next]_vars PROVE Leases'
<1>0. wk \in [Workers -> Objects] /\ targets \in SUBSET Keys
  BY DEF Typed, Objects
<1>1. CASE Calm /\ UNCHANGED targets
  BY <1>1 DEF Calm, SameLease, Leases
<1>2. CASE Evicts /\ UNCHANGED targets
  <2>1. PICK R \in Victims, w \in Free, k \in Keys :
             /\ R \in SUBSET Workers /\ w \in Workers /\ wk[w] = Gone
             /\ wk'[w] = Reserved(NewWorker(k, FALSE, targets))
             /\ \A v \in Workers : v # w => wk'[v] = IF v \in R THEN Retired(wk[v]) ELSE wk[v]
    BY <1>2, EvictionForm
  <2> DEFINE n == NewWorker(k, FALSE, targets)
  <2>2. n \in Objects
    BY <1>0, BirthTypes
  <2>3. ~n.retired /\ n.key = k /\ (n.warm <=> k \in targets) /\ n.playing = {} /\ n.readers = {}
    BY <1>0, NewLeases, Zenon
  <2> HIDE DEF n
  <2>4. SameLease(Reserved(n), n) /\ wk'[w] = Reserved(n)
    BY <2>1, <2>2, LeaseFields DEF n
  <2>5. ASSUME NEW v \in Workers
        PROVE  /\ wk'[v].playing \subseteq wk'[v].readers
               /\ ~wk'[v].retired => (wk'[v].warm <=> wk'[v].key \in targets)
    <3>1. CASE v = w
      BY <2>3, <2>4, <3>1 DEF SameLease
    <3>2. CASE v # w
      BY <1>0, <2>1, <3>2, RetiredLeases DEF Leases
    <3> QED BY <3>1, <3>2
  <2> QED BY <1>2, <2>5 DEF Leases
<1>3. CASE (\E w \in Workers : Takes(w)) /\ UNCHANGED targets
  <2>1. PICK w \in Workers : RetireAll({w})
    BY <1>3 DEF Takes
  <2>2. \A v \in Workers : wk'[v] = IF v = w THEN Retired(wk[v]) ELSE wk[v]
    BY <2>1 DEF RetireAll, RetireIn
  <2> QED BY <1>0, <1>3, <2>2, RetiredLeases DEF Leases
<1>4. CASE (\E w \in Workers : RunFinishes(w)) /\ UNCHANGED targets
  <2>1. PICK w \in Workers : RunFinishes(w)
    BY <1>4
  <2>2. \A v \in Workers : wk'[v] = IF v = w THEN Finished(Retired(wk[v])) ELSE wk[v]
    BY <1>0, <2>1 DEF RunFinishes
  <2>3. Retired(wk[w]) \in Objects
    BY <1>0, RecordTypes
  <2> QED BY <1>0, <1>4, <2>2, <2>3, RetiredLeases DEF Leases
<1>5. CASE RecApplies
  <2> DEFINE T == targets'
  <2>1. T \in SUBSET Keys
    BY <1>5, ReconcileForm
  <2>2. PICK R \in SUBSET Workers :
               \A w \in Workers :
                 \/ /\ w \in Free
                    /\ \E k \in Keys : wk'[w] = NewWorker(k, TRUE, T)
                 \/ wk'[w] = IF w \in R THEN Retired(Leased(wk[w], T)) ELSE Leased(wk[w], T)
    BY <1>5, ReconcileForm
  <2> HIDE DEF T
  <2>3. ASSUME NEW w \in Workers
        PROVE  /\ wk'[w].playing \subseteq wk'[w].readers
               /\ ~wk'[w].retired => (wk'[w].warm <=> wk'[w].key \in T)
    <3>1. ASSUME NEW k \in Keys, wk'[w] = NewWorker(k, TRUE, T)
          PROVE  /\ wk'[w].playing \subseteq wk'[w].readers
                 /\ ~wk'[w].retired => (wk'[w].warm <=> wk'[w].key \in T)
      <4> DEFINE n == NewWorker(k, TRUE, T)
      <4>1. n.key = k /\ (n.warm <=> k \in T) /\ n.playing = {}
        BY <2>1, NewLeases, Zenon
      <4> HIDE DEF n
      <4> QED BY <3>1, <4>1 DEF n
    <3> DEFINE l == Leased(wk[w], T)
    <3>2. /\ l \in Objects /\ l.playing \subseteq l.readers
          /\ l.retired \/ (l.warm <=> l.key \in T)
      BY <1>0, <2>1, RecordTypes, LeasedFields DEF Leases
    <3>3. wk'[w] = Retired(l) \/ wk'[w] = l \/ \E k \in Keys : wk'[w] = NewWorker(k, TRUE, T)
      BY <2>2
    <3> HIDE DEF l
    <3> QED BY <3>1, <3>2, <3>3, RetiredLeases
  <2> QED BY <2>3 DEF Leases, T
<1> QED BY <1>1, <1>2, <1>3, <1>4, <1>5, Kinds

----------------------------------------------------------------------------
(* Whom a worker is taken from. *)

\* A worker that is retired had nobody, was named by the operator or Close, or has ended.
LEMMA TakenFrom ==
    ASSUME Typed(Int), Leases, [Next]_vars, NEW w \in Workers, ~wk[w].retired, wk'[w].retired
    PROVE  \/ wk[w].pending = 0 /\ wk[w].playing = {}
           \/ w \in pulling \cup closing
           \/ wk[w].run = "exit"
<1>0. wk \in [Workers -> Objects] /\ targets \in SUBSET Keys
  BY DEF Typed, Objects
<1>1. NoDemand(wk[w]) => wk[w].pending = 0 /\ wk[w].playing = {}
  BY DEF NoDemand, Leases
<1>2. CASE Calm
  BY <1>2 DEF Calm, SameLease
<1>3. CASE Evicts
  <2>1. PICK R \in Victims, v \in Free, k \in Keys :
             /\ wk[v] = Gone
             /\ \A u \in Workers : u # v => wk'[u] = IF u \in R THEN Retired(wk[u]) ELSE wk[u]
    BY <1>3, EvictionForm
  <2>2. Gone.retired
    BY SMT DEF Gone
  <2>3. w \in R
    BY <2>1, <2>2
  <2>4. w \in IdleWarm
    BY <2>3 DEF Victims
  <2> QED BY <1>1, <2>4 DEF IdleWarm
<1>4. ASSUME NEW v \in Workers, Takes(v)
      PROVE  \/ wk[w].pending = 0 /\ wk[w].playing = {}
             \/ w \in pulling \cup closing
  <2>1. w = v
    BY <1>4 DEF Takes, RetireAll, RetireIn
  <2>2. CASE ReapNext(v)
    <3>1. CASE UNCHANGED pool
      BY <3>1 DEF pool
    <3>2. CASE Reapable(wk[v])
      BY <2>1, <3>2 DEF Reapable
    <3> QED BY <2>2, <3>1, <3>2 DEF ReapNext
  <2>3. CASE PullNext(v) \/ CloseRetires(v)
    BY <2>1, <2>3 DEF PullNext, CloseRetires
  <2> QED BY <1>4, <2>2, <2>3 DEF Takes
<1>5. ASSUME NEW v \in Workers, RunFinishes(v)
      PROVE  wk[w].run = "exit"
  BY <1>5 DEF RunFinishes
<1>6. CASE RecApplies
  <2> DEFINE T == targets'
  <2>1. T \in SUBSET Keys
    BY <1>6, ReconcileForm
  <2>2. PICK R \in SUBSET Workers :
          /\ R = Unwanted(T)
          /\ \/ \E k \in Keys : wk'[w] = NewWorker(k, TRUE, T)
             \/ wk'[w] = IF w \in R THEN Retired(Leased(wk[w], T)) ELSE Leased(wk[w], T)
    BY <1>6, ReconcileForm
  <2> HIDE DEF T
  <2>3. \A k \in Keys : wk'[w] # NewWorker(k, TRUE, T)
    BY <2>1, NewLeases, Zenon
  <2>4. ~Leased(wk[w], T).retired
    BY <1>0, LeasedFields
  <2>5. w \in R
    BY <2>2, <2>3, <2>4
  <2> QED BY <1>1, <2>2, <2>5 DEF Unwanted
<1> QED BY <1>2, <1>3, <1>4, <1>5, <1>6, Kinds

----------------------------------------------------------------------------
(* The policy. *)

\* The snapshots the reconciler may hold.
Snaps == [mode : {"off", "recent", "always"}, current : BOOLEAN]

\* What only the reconciler, the operator and Close decide.
Decisions == <<mode, targets, settings, admin, snap, rec, closePc, closing>>

\* Clients, workers, the clock and the reaper let all of it be.
LEMMA Elsewhere ==
    ASSUME UNCHANGED vars \/ ClientStep \/ HandlerStep \/ RunStep \/ ClockStep \/ ReapStep
    PROVE  UNCHANGED Decisions /\ (wake => wake')
<1> USE DEF Decisions, policy, loop, control, shutdown
<1>1. CASE UNCHANGED vars
  BY <1>1 DEF vars
<1>2. CASE ClientStep
  BY <1>2 DEF ClientStep, Request, Play, Pause, SessionClose, Hangup
<1>3. CASE HandlerStep
  BY <1>3 DEF HandlerStep, WaitReady, WaitCancelled, Bind, Release, ConnClose
<1>4. CASE RunStep
  <2>1. PICK w \in Workers :
          \/ RunRejects(w) \/ RunResolves(w) \/ RunFails(w) \/ RunReady(w)
          \/ RunEnds(w) \/ RunFinishes(w) \/ Cleanup(w)
    BY <1>4 DEF RunStep
  <2>2. CASE RunReady(w)
    BY <2>2 DEF RunReady
  <2>3. CASE RunFinishes(w)
    BY <2>3 DEF RunFinishes
  <2>4. CASE RunRejects(w) \/ RunResolves(w) \/ RunFails(w) \/ RunEnds(w) \/ Cleanup(w)
    BY <2>4 DEF RunRejects, RunResolves, RunFails, RunEnds, Cleanup
  <2> QED BY <2>1, <2>2, <2>3, <2>4
<1>5. CASE ClockStep
  BY <1>5 DEF ClockStep, Age, AgeView, TimerFires, RetryExpires
<1>6. CASE ReapStep
  <2>1. UNCHANGED <<policy, loop, control, shutdown>>
    BY <1>6 DEF ReapStep, ReapScan, ReapNext
  <2> QED BY <2>1
<1> QED BY <1>1, <1>2, <1>3, <1>4, <1>5, <1>6

\* Only a pass that applies its snapshot changes the mode and the targets.
LEMMA PolicyChanges ==
    ASSUME [Next]_vars
    PROVE  RecApplies \/ UNCHANGED <<mode, targets>>
<1>1. CASE RecStep
  BY <1>1 DEF RecStep, RecFirst, RecWakes, RecTicks, RecBegins, RecRead, RecRejects, RecStops, policy
<1>2. CASE AdminStep
  BY <1>2 DEF AdminStep, PersistSettings, InvalidateStream, PullNext, Bump, Signal, policy
<1>3. CASE CloseStep
  BY <1>3 DEF CloseStep, Start, CloseBegins, CloseCancels, CloseRetires, CloseServer, CloseJoins,
     Finish, vars, policy
<1>4. CASE UNCHANGED vars \/ ClientStep \/ HandlerStep \/ RunStep \/ ClockStep \/ ReapStep
  BY <1>4, Elsewhere DEF Decisions
<1> QED BY <1>1, <1>2, <1>3, <1>4 DEF Next

\* The first Budget of what the catalog lists, and nothing in another mode.
LEMMA TargetsKept == ASSUME Typed(Int), TargetsFit, [Next]_vars PROVE TargetsFit'
<1>1. CASE UNCHANGED <<mode, targets>>
  BY <1>1 DEF TargetsFit
<1>2. CASE RecApplies
  <2>1. PICK T \in Catalog : targets' = FirstOf(T, Budget) /\ mode' = snap.mode
    BY <1>2 DEF RecApplies
  <2>2. T \in SUBSET Keys /\ (snap.mode # "always" => T = {})
    BY DEF Catalog
  <2>3. T \in SUBSET Nat /\ IsFiniteSet(T)
    BY <2>2, KeysAssumption, FS_Subset
  <2>4. Budget \in Nat /\ Budget > 0
    BY MaxStreamsAssumption DEF Budget
  <2>5. Cardinality(targets') <= Budget
    BY <2>1, <2>3, <2>4, FirstOfBounds
  <2>6. mode' # "always" => targets' = {}
    BY <2>1, <2>2 DEF FirstOf
  <2> QED BY <2>5, <2>6 DEF TargetsFit, Budget
<1> QED BY <1>1, <1>2, PolicyChanges

\* The reconciler's own steps: what it read is what is saved, unless somebody voided it.
LEMMA RecHeard == ASSUME Typed(Int), Heard, RecStep PROVE Heard'
<1>0. snap \in Snaps
  BY DEF Typed, Snaps
<1> USE DEF Heard, NoLostPolicy
<1>1. CASE RecFirst \/ RecWakes \/ RecTicks
  <2>1. PICK t \in BOOLEAN : RecBegins(t)
    BY <1>1 DEF RecFirst, RecWakes, RecTicks
  <2>2. NoSnap \in Snaps
    BY DEF NoSnap, Snaps
  <2>3. UNCHANGED <<settings, admin, closePc, mode>>
    BY <2>1 DEF RecBegins, control, shutdown, policy
  <2>4. CASE closePc = "open"
    <3>1. rec' = "read" /\ snap'.current
      BY <2>1, <2>2, <2>4 DEF RecBegins, Snaps
    <3> QED BY <3>1
  <2>5. CASE closePc # "open"
    BY <2>1, <2>3, <2>5 DEF RecBegins
  <2> QED BY <2>4, <2>5
<1>2. CASE RecRead
  <2>1. rec = "read" /\ rec' = "apply"
    BY <1>2 DEF RecRead
  <2>2. snap'.mode = settings /\ snap'.current = snap.current
    BY <1>0, <1>2 DEF RecRead, Snaps
  <2>3. UNCHANGED <<wake, settings, admin, closePc, mode>>
    BY <1>2 DEF RecRead, control, shutdown, policy
  <2> QED BY <2>1, <2>2, <2>3
<1>3. CASE RecRejects
  BY <1>3 DEF RecRejects, Stale, control, shutdown, policy
<1>4. CASE RecApplies
  <2>1. /\ rec = "apply" /\ snap.current /\ closePc = "open"
        /\ rec' = "wait" /\ mode' = snap.mode
    BY <1>4 DEF RecApplies, Stale
  <2>2. UNCHANGED <<settings, admin, closePc>>
    BY <1>4 DEF RecApplies, control, shutdown
  <2> QED BY <2>1, <2>2
<1>5. CASE RecStops
  BY <1>5 DEF RecStops
<1> QED BY <1>1, <1>2, <1>3, <1>4, <1>5 DEF RecStep

\* The operator voids a snapshot and leaves a token, in that order.
LEMMA AdminHeard == ASSUME Typed(Int), Heard, AdminStep PROVE Heard'
<1>0. snap \in Snaps
  BY DEF Typed, Snaps
<1> USE DEF Heard, NoLostPolicy
<1>1. ASSUME NEW m, PersistSettings(m) PROVE Heard'
  BY <1>1 DEF PersistSettings, loop, shutdown, policy
<1>2. ASSUME NEW id, InvalidateStream(id) PROVE Heard'
  <2>1. ~snap'.current
    BY <1>0, <1>2 DEF InvalidateStream, Snaps
  <2> QED BY <1>2, <2>1 DEF InvalidateStream
<1>3. ASSUME NEW w, PullNext(w) PROVE Heard'
  BY <1>3 DEF PullNext, loop, shutdown, policy
<1>4. CASE Bump
  <2>1. ~snap'.current
    BY <1>0, <1>4 DEF Bump, Snaps
  <2> QED BY <1>4, <2>1 DEF Bump
<1>5. CASE Signal
  BY <1>5 DEF Signal, shutdown, policy
<1> QED BY <1>1, <1>2, <1>3, <1>4, <1>5 DEF AdminStep

\* Everybody else lets the policy be, but for a token more.
LEMMA HeardKept == ASSUME Typed(Int), Heard, [Next]_vars PROVE Heard'
<1>1. CASE UNCHANGED vars \/ ClientStep \/ HandlerStep \/ RunStep \/ ClockStep \/ ReapStep
  BY <1>1, Elsewhere DEF Decisions, Heard, NoLostPolicy
<1>2. CASE RecStep
  BY <1>2, RecHeard
<1>3. CASE AdminStep
  BY <1>3, AdminHeard
<1>4. CASE CloseStep
  <2>1. UNCHANGED <<settings, admin, mode>> /\ (UNCHANGED <<rec, snap, wake>> \/ Start)
    BY <1>4 DEF CloseStep, CloseBegins, CloseCancels, CloseRetires, CloseServer, CloseJoins,
       Start, Finish, vars, policy, control, loop
  <2>2. CASE Start
    <3>1. rec' \in {"begin", "off"}
      BY <2>2 DEF Start
    <3> QED BY <3>1 DEF Heard, NoLostPolicy
  <2>3. closePc # "open" => closePc' # "open"
    BY <1>4 DEF CloseStep, CloseBegins, CloseCancels, CloseRetires, CloseServer, CloseJoins,
       Start, Finish, vars
  <2> QED BY <2>1, <2>2, <2>3 DEF Heard, NoLostPolicy
<1> QED BY <1>1, <1>2, <1>3, <1>4 DEF Next

----------------------------------------------------------------------------
(* Closing. *)

\* Close's list has every worker the table held, and loses one only when it is retired.
LEMMA CloseDrains ==
    ASSUME Typed(Int), RegistryHonest, Drained, CloseStep
    PROVE  Drained'
<1>0. wk \in [Workers -> Objects]
  BY DEF Typed, Objects
<1>1. CASE Start \/ CloseServer \/ CloseJoins \/ Finish
  BY <1>1 DEF Start, CloseServer, CloseJoins, Finish, vars, pool, Drained
<1>2. CASE CloseBegins
  <2>1. ASSUME NEW w \in Workers, ~wk'[w].retired
        PROVE  w \in closing'
    <3>1. ~wk[w].retired /\ closing' = {reg[k] : k \in Registered}
      BY <1>2, <2>1 DEF CloseBegins, pool
    <3>2. wk[w].key \in Keys /\ reg[wk[w].key] = w /\ w # None
      BY <3>1, NoneAssumption DEF RegistryHonest
    <3>3. wk[w].key \in Registered
      BY <3>2 DEF Registered
    <3> QED BY <3>1, <3>2, <3>3
  <2>2. closePc' = "closed"
    BY <1>2 DEF CloseBegins
  <2> QED BY <2>1, <2>2 DEF Drained
<1>3. CASE CloseCancels
  <2>1. \A w \in Workers : wk'[w].retired = wk[w].retired
    BY <1>0, <1>3, LeaseFields DEF CloseCancels, SameLease
  <2> QED BY <1>3, <2>1 DEF CloseCancels, Drained
<1>4. ASSUME NEW w \in Workers, CloseRetires(w)
      PROVE  Drained'
  <2>1. closePc = "cancelled" /\ closePc' = "cancelled" /\ closing' = closing \ {w}
    BY <1>4 DEF CloseRetires
  <2>2. \A v \in Workers : wk'[v] = IF v = w THEN Retired(wk[v]) ELSE wk[v]
    BY <1>4 DEF CloseRetires, RetireAll, RetireIn
  <2>3. \A v \in Workers : ~wk'[v].retired => v # w /\ ~wk[v].retired
    BY <1>0, <2>2, RetiredLeases
  <2> QED BY <2>1, <2>3 DEF Drained
<1> QED BY <1>1, <1>2, <1>3, <1>4 DEF CloseStep

\* The others do not change the list, and start no worker once it exists.
LEMMA DrainedKept ==
    ASSUME Typed(Int), RegistryHonest, Drained, [Next]_vars
    PROVE  Drained'
<1>0. wk \in [Workers -> Objects]
  BY DEF Typed, Objects
<1>1. CASE CloseStep
  BY <1>1, CloseDrains
<1>2. CASE UNCHANGED <<closePc, closing>>
  <2>1. CASE closePc = "open"
    BY <1>2, <2>1 DEF Drained
  <2>2. CASE closePc # "open"
    <3>1. ~Evicts /\ ~RecApplies
      BY <2>2 DEF Evicts, Accepting, RecApplies, Stale
    <3>2. ASSUME NEW w \in Workers, RetireAll({w})
          PROVE  \A v \in Workers : ~wk'[v].retired => ~wk[v].retired
      <4>1. \A v \in Workers : wk'[v] = IF v = w THEN Retired(wk[v]) ELSE wk[v]
        BY <3>2 DEF RetireAll, RetireIn
      <4> QED BY <1>0, <4>1, RetiredLeases
    <3>3. ASSUME NEW w \in Workers, RunFinishes(w)
          PROVE  \A v \in Workers : ~wk'[v].retired => ~wk[v].retired
      <4>1. \A v \in Workers : wk'[v] = IF v = w THEN Finished(Retired(wk[v])) ELSE wk[v]
        BY <1>0, <3>3 DEF RunFinishes
      <4>2. Retired(wk[w]) \in Objects
        BY <1>0, RecordTypes
      <4> QED BY <1>0, <4>1, <4>2, RetiredLeases
    <3>4. CASE Calm
      BY <1>2, <3>4 DEF Calm, SameLease, Drained
    <3>5. \/ Calm \/ \E w \in Workers : RetireAll({w}) \/ RunFinishes(w)
      BY <3>1, Kinds DEF Takes
    <3> QED BY <1>2, <3>2, <3>3, <3>4, <3>5 DEF Drained
  <2> QED BY <2>1, <2>2
<1>3. CASE RecStep \/ AdminStep
  BY <1>2, <1>3 DEF RecStep, RecFirst, RecWakes, RecTicks, RecBegins, RecRead, RecRejects, RecApplies,
     RecStops, AdminStep, PersistSettings, InvalidateStream, PullNext, Bump, Signal, shutdown
<1>4. CASE UNCHANGED vars \/ ClientStep \/ HandlerStep \/ RunStep \/ ClockStep \/ ReapStep
  BY <1>2, <1>4, Elsewhere DEF Decisions
<1> QED BY <1>1, <1>3, <1>4 DEF Next

----------------------------------------------------------------------------
(* The tables of failures and of starts. *)

\* A table with room for one more, or in which one entry makes room for another.
LEMMA Room ==
    ASSUME NEW S, IsFiniteSet(S), NEW B \in Nat, Cardinality(S) <= B, NEW k, NEW T,
           \/ T \subseteq S
           \/ T \subseteq S \cup {k} /\ (k \in S \/ Cardinality(S) < B)
           \/ \E j \in S : T \subseteq (S \ {j}) \cup {k}
    PROVE  IsFiniteSet(T) /\ Cardinality(T) <= B
<1>0. Cardinality(S) \in Nat
  BY FS_CardinalityType
<1>1. ASSUME NEW U, IsFiniteSet(U), T \subseteq U, Cardinality(U) <= B
      PROVE  IsFiniteSet(T) /\ Cardinality(T) <= B
  <2>1. IsFiniteSet(T) /\ Cardinality(T) <= Cardinality(U)
    BY <1>1, FS_Subset
  <2>2. Cardinality(T) \in Nat /\ Cardinality(U) \in Nat
    BY <1>1, <2>1, FS_CardinalityType
  <2> QED BY <1>1, <2>1, <2>2
<1>2. CASE T \subseteq S
  BY <1>1, <1>2
<1>3. CASE T \subseteq S \cup {k} /\ (k \in S \/ Cardinality(S) < B)
  <2>1. /\ IsFiniteSet(S \cup {k})
        /\ Cardinality(S \cup {k}) = IF k \in S THEN Cardinality(S) ELSE Cardinality(S) + 1
    BY FS_AddElement
  <2>2. Cardinality(S \cup {k}) <= B
    BY <1>0, <1>3, <2>1
  <2> QED BY <1>1, <1>3, <2>1, <2>2
<1>4. ASSUME NEW j \in S, T \subseteq (S \ {j}) \cup {k}
      PROVE  IsFiniteSet(T) /\ Cardinality(T) <= B
  <2>1. IsFiniteSet(S \ {j}) /\ Cardinality(S \ {j}) = Cardinality(S) - 1
    BY FS_RemoveElement
  <2> DEFINE U == S \ {j}
  <2>2. /\ IsFiniteSet(U \cup {k})
        /\ Cardinality(U \cup {k}) = IF k \in U THEN Cardinality(U) ELSE Cardinality(U) + 1
    BY <2>1, FS_AddElement
  <2>3. Cardinality(U \cup {k}) <= B
    BY <1>0, <2>1, <2>2
  <2> QED BY <1>1, <1>4, <2>2, <2>3
<1> QED BY <1>2, <1>3, <1>4

\* A key that has begun to fail finds room: not every entry can be a target.
LEMMA RetryFits ==
    ASSUME Typed(Int), TargetsFit, Cardinality(InRetry) <= 2 * MaxStreams,
           NEW k \in Keys, retry' \in RetryAfter(k)
    PROVE  Cardinality(InRetry') <= 2 * MaxStreams
<1> DEFINE loose == InRetry \ targets
           full == k \notin InRetry /\ Cardinality(InRetry) >= 2 * MaxStreams
<1>0. retry \in [Keys -> {"none", "cooling", "expired"}] /\ targets \in SUBSET Keys
  BY DEF Typed
<1>1. IsFiniteSet(InRetry) /\ IsFiniteSet(targets)
  BY <1>0, KeysAssumption, FS_Subset DEF InRetry
<1>2. Cardinality(InRetry) \in Nat /\ Cardinality(targets) \in Nat
  BY <1>1, FS_CardinalityType
<1>3. 2 * MaxStreams \in Nat
  BY MaxStreamsAssumption
<1>4. CASE full /\ loose # {}
  <2>1. PICK j \in loose : retry' = [retry EXCEPT ![j] = "none", ![k] = "cooling"]
    BY <1>4 DEF RetryAfter
  <2>2. InRetry' \subseteq (InRetry \ {j}) \cup {k}
    BY <1>0, <2>1 DEF InRetry
  <2> QED BY <1>1, <1>3, <2>2, Room
<1>5. CASE ~(full /\ loose # {})
  <2>1. retry' = [retry EXCEPT ![k] = "cooling"]
    BY <1>5 DEF RetryAfter
  <2>2. InRetry' \subseteq InRetry \cup {k}
    BY <1>0, <2>1 DEF InRetry
  <2>3. ~full
    <3>1. SUFFICES ASSUME loose = {}, full PROVE FALSE
      BY <1>5
    <3>2. InRetry \in SUBSET targets
      BY <3>1
    <3>3. Cardinality(InRetry) <= Cardinality(targets)
      BY <1>1, <3>2, FS_Subset
    <3>4. Cardinality(targets) < 2 * MaxStreams
      BY <1>2, MaxStreamsAssumption DEF TargetsFit, Budget
    <3> QED BY <1>2, <1>3, <3>1, <3>3, <3>4
  <2>4. k \in InRetry \/ Cardinality(InRetry) < 2 * MaxStreams
    BY <1>2, <1>3, <2>3
  <2> QED BY <1>1, <1>3, <2>2, <2>4, Room
<1> QED BY <1>4, <1>5

\* So does a key that is started: not every entry can have a worker.
LEMMA StartsFit ==
    ASSUME Typed(Int), StreamsBounded, Cardinality(starts) <= 2 * MaxStreams,
           NEW k \in Keys, starts' \in StartsAfter(k)
    PROVE  Cardinality(starts') <= 2 * MaxStreams
<1> DEFINE stale == starts \ Registered
           full == k \notin starts /\ Cardinality(starts) >= 2 * MaxStreams
<1>1. IsFiniteSet(starts) /\ IsFiniteSet(Registered)
  BY KeysAssumption, FS_Subset DEF Typed, Registered
<1>2. Cardinality(starts) \in Nat /\ Cardinality(Registered) \in Nat
  BY <1>1, FS_CardinalityType
<1>3. 2 * MaxStreams \in Nat
  BY MaxStreamsAssumption
<1>4. CASE full /\ stale # {}
  <2>1. PICK j \in stale : starts' = (starts \ {j}) \cup {k}
    BY <1>4 DEF StartsAfter
  <2> QED BY <1>1, <1>3, <2>1, Room
<1>5. CASE ~(full /\ stale # {})
  <2>1. starts' = starts \cup {k}
    BY <1>5 DEF StartsAfter
  <2>2. ~full
    <3>1. SUFFICES ASSUME stale = {}, full PROVE FALSE
      BY <1>5
    <3>2. starts \in SUBSET Registered
      BY <3>1
    <3>3. Cardinality(starts) <= Cardinality(Registered)
      BY <1>1, <3>2, FS_Subset
    <3>4. Cardinality(Registered) < 2 * MaxStreams
      BY <1>2, MaxStreamsAssumption DEF StreamsBounded
    <3> QED BY <1>2, <1>3, <3>1, <3>3, <3>4
  <2>3. k \in starts \/ Cardinality(starts) < 2 * MaxStreams
    BY <1>2, <1>3, <2>2
  <2> QED BY <1>1, <1>3, <2>1, <2>3, Room
<1> QED BY <1>4, <1>5

\* Nothing else adds to them: timers and the operator only let entries go.
LEMMA TablesKept ==
    ASSUME Typed(Int), Keyed, TargetsFit, StreamsBounded, TablesBounded, [Next]_vars
    PROVE  TablesBounded'
<1>0. /\ retry \in [Keys -> {"none", "cooling", "expired"}] /\ starts \in SUBSET Keys
      /\ IsFiniteSet(InRetry)
  BY KeysAssumption, FS_Subset DEF Typed, InRetry
<1>1. CASE InRetry' \subseteq InRetry /\ UNCHANGED starts
  <2>1. 2 * MaxStreams \in Nat
    BY MaxStreamsAssumption
  <2> QED BY <1>0, <1>1, <2>1, Room DEF TablesBounded
<1>2. CASE UNCHANGED <<retry, starts>>
  BY <1>1, <1>2 DEF InRetry
<1>3. ASSUME NEW w \in Workers, RunResolves(w) \/ RunFinishes(w)
      PROVE  TablesBounded'
  <2>1. wk[w].key \in Keys
    BY <1>3 DEF RunResolves, RunFinishes, Keyed
  <2>2. CASE RunResolves(w)
    <3>1. starts' \in StartsAfter(wk[w].key) /\ UNCHANGED retry
      BY <2>2 DEF RunResolves, policy
    <3>2. Cardinality(starts') <= 2 * MaxStreams
      BY <2>1, <3>1, StartsFit DEF TablesBounded
    <3> QED BY <3>1, <3>2 DEF TablesBounded, InRetry
  <2>3. CASE RunFinishes(w)
    <3>1. UNCHANGED starts /\ (retry' \in RetryAfter(wk[w].key) \/ UNCHANGED retry)
      BY <2>3 DEF RunFinishes
    <3>2. CASE retry' \in RetryAfter(wk[w].key)
      <4>1. Cardinality(InRetry') <= 2 * MaxStreams
        BY <2>1, <3>2, RetryFits DEF TablesBounded
      <4> QED BY <3>1, <4>1 DEF TablesBounded
    <3> QED BY <1>2, <3>1, <3>2
  <2> QED BY <1>3, <2>2, <2>3
<1>4. ASSUME NEW k \in Keys, RetryExpires(k)
      PROVE  TablesBounded'
  <2>1. InRetry' \subseteq InRetry /\ UNCHANGED starts
    BY <1>0, <1>4 DEF RetryExpires, InRetry
  <2> QED BY <1>1, <2>1
<1>5. CASE RecApplies \/ \E id : InvalidateStream(id)
  <2>1. InRetry' \subseteq InRetry /\ UNCHANGED starts
    BY <1>0, <1>5 DEF RecApplies, InvalidateStream, InRetry
  <2> QED BY <1>1, <2>1
<1>6. CASE ClientStep
  BY <1>2, <1>6 DEF ClientStep, Request, Play, Pause, SessionClose, Hangup, policy
<1>7. CASE HandlerStep
  BY <1>2, <1>7 DEF HandlerStep, WaitReady, WaitCancelled, Bind, Release, ConnClose, policy
<1>8. CASE RunStep
  BY <1>2, <1>3, <1>8 DEF RunStep, RunRejects, RunFails, RunReady, RunEnds, Cleanup, policy
<1>9. CASE ClockStep
  BY <1>2, <1>4, <1>9 DEF ClockStep, Age, AgeView, TimerFires, policy
<1>10. CASE ReapStep \/ UNCHANGED vars
  BY <1>2, <1>10 DEF ReapStep, ReapScan, ReapNext, policy, vars
<1>11. CASE RecStep
  BY <1>2, <1>5, <1>11 DEF RecStep, RecFirst, RecWakes, RecTicks, RecBegins, RecRead, RecRejects,
     RecStops, policy
<1>12. CASE AdminStep
  BY <1>2, <1>5, <1>12 DEF AdminStep, PersistSettings, PullNext, Bump, Signal, policy
<1>13. CASE CloseStep
  BY <1>2, <1>13 DEF CloseStep, Start, CloseBegins, CloseCancels, CloseRetires, CloseServer,
     CloseJoins, Finish, vars, policy
<1> QED BY <1>6, <1>7, <1>8, <1>9, <1>10, <1>11, <1>12, <1>13 DEF Next

----------------------------------------------------------------------------
(* Theorems. *)

\* A relay that has not started has decided nothing.
LEMMA InitDecided == Init => Decided
<1> SUFFICES ASSUME Init PROVE Decided
  OBVIOUS
<1>1. \A w \in Workers : wk[w].retired /\ wk[w].playing = {} /\ wk[w].readers = {}
  <2>1. Gone.retired /\ Gone.playing = {} /\ Gone.readers = {}
    BY SMT DEF Gone
  <2> QED BY <2>1 DEF Init
<1>2. Cardinality(targets) <= Budget /\ targets = {}
  <2>1. Budget \in Nat
    BY MaxStreamsAssumption DEF Budget
  <2> QED BY <2>1, FS_EmptySet DEF Init
<1>3. TablesBounded
  <2>1. InRetry = {} /\ starts = {}
    BY DEF Init, InRetry
  <2> QED BY <2>1, FS_EmptySet, MaxStreamsAssumption DEF TablesBounded
<1>4. closePc = "open" /\ rec = "off"
  BY DEF Init
<1> QED BY <1>1, <1>2, <1>3, <1>4 DEF Decided, Leases, TargetsFit, Drained, Heard, NoLostPolicy

\* Every behaviour is sound and keeps to what was decided: the leases need the registry and
\* the types, the tables the limits on inputs and targets.
LEMMA DecidedAlways == Spec => [](Sound /\ Decided)
<1>1. Sound /\ Decided /\ [Next]_vars => Decided'
  BY LeasesKept, TargetsKept, DrainedKept, HeardKept, TablesKept DEF Sound, Bonds, Decided
<1> QED BY <1>1, InitDecided, SoundAlways, PTL DEF Spec

\* The warm leases are the reconciler's last targets, and these leave demand a slot: whoever
\* starts, evicts, retires or ends a worker in between leaves the two in step.
THEOREM WarmStaysWithinBudget == Spec => []WarmWithinBudget
<1>1. Sound /\ Decided => WarmWithinBudget
  <2> SUFFICES ASSUME Sound, Decided PROVE WarmWithinBudget
    OBVIOUS
  <2>1. ASSUME NEW k \in Registered
        PROVE  wk[reg[k]].warm <=> k \in targets
    <3>1. reg[k] \in Workers /\ wk[reg[k]].key = k /\ ~wk[reg[k]].retired
      BY DEF Sound, Bonds, RegistryHonest, Registered, Typed
    <3> QED BY <3>1 DEF Decided, Leases
  <2> QED BY <2>1 DEF Decided, TargetsFit, WarmWithinBudget
<1> QED BY <1>1, DecidedAlways, PTL

\* The failure and start tables, keyed by what clients ask for, never outgrow their limits.
THEOREM TablesStayBounded == Spec => []TablesBounded
<1>1. Decided => TablesBounded
  BY DEF Decided
<1> QED BY <1>1, DecidedAlways, PTL

\* However a pass of the reconciler, the operator's call and the token interleave, the relay
\* does not fall asleep on a mode that is not the saved one.
THEOREM PolicyNeverLost == Spec => []NoLostPolicy
<1>1. Decided => NoLostPolicy
  BY DEF Decided, Heard
<1> QED BY <1>1, DecidedAlways, PTL

\* Once Close waits for its goroutines no worker is left, and none is started behind it.
THEOREM ClosedStaysDrained == Spec => []ClosedStaysEmpty
<1>1. Sound /\ Decided => ClosedStaysEmpty
  <2> SUFFICES ASSUME Sound, Decided, closePc \in {"joining", "joined"}
               PROVE  Registered = {} /\ \A w \in Workers : wk[w].retired
    BY DEF ClosedStaysEmpty
  <2>1. \A w \in Workers : wk[w].retired
    BY DEF Decided, Drained
  <2>2. \A k \in Registered : reg[k] \in Workers /\ ~wk[reg[k]].retired
    BY DEF Sound, Bonds, RegistryHonest, Registered, Typed
  <2> QED BY <2>1, <2>2
<1> QED BY <1>1, DecidedAlways, PTL

\* A pass that read the catalog before the operator's last call never takes back the mode.
THEOREM PolicyNeverUndone == Spec => PolicyNotUndone
<1>1. Decided /\ [Next]_vars =>
        [mode = settings /\ admin = "idle" /\ admin' = "idle" => mode' = mode]_vars
  <2> SUFFICES ASSUME Decided, [Next]_vars, mode = settings, admin = "idle"
               PROVE  mode' = mode
    OBVIOUS
  <2>1. CASE RecApplies
    BY <2>1 DEF RecApplies, Stale, Decided, Heard
  <2> QED BY <2>1, PolicyChanges
<1> QED BY <1>1, DecidedAlways, PTL DEF Spec, PolicyNotUndone

\* Only the operator, Close or its own end takes a worker from somebody who watches or waits.
THEOREM DemandAlwaysProtected == Spec => DemandProtected
<1>1. Sound /\ Decided /\ [Next]_vars =>
        [\A w \in Workers :
           ~wk[w].retired /\ wk'[w].retired /\ (wk[w].pending > 0 \/ wk[w].playing # {})
              => w \in pulling \cup closing \/ wk[w].run = "exit"]_vars
  BY TakenFrom DEF Sound, Decided
<1> QED BY <1>1, DecidedAlways, PTL DEF Spec, DemandProtected
============================================================================
