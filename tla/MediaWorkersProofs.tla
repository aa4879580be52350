------------------------- MODULE MediaWorkersProofs -------------------------
(***************************************************************************)
(* What is proved of the media workers, for any number of streams, viewers *)
(* and workers, and any limit.                                             *)
(*                                                                         *)
(* First, no worker that viewers can find reads an old source once the     *)
(* runtime has told the manager of the change (NoStaleInput).  The         *)
(* generation of a stream counts the invalidations, its source the         *)
(* changes; what is between them is pending.  A request that read the      *)
(* generation first resolves a source at least as new, and a worker is     *)
(* registered only while the generation is still the one that was read.    *)
(*                                                                         *)
(* Then what becomes of a worker and of its output (invariant Tidy): the   *)
(* limits hold, a finished output that is found is on the disk and         *)
(* counted, a closed manager leaves nothing behind, and only an            *)
(* undisturbed idle window stops a running MJPEG worker.                   *)
(***************************************************************************)
EXTENDS MediaWorkers, FiniteSetTheorems, SequenceTheorems, TLAPS

\* The types the argument needs: every variable but the queue of finished outputs.
Typed ==
    /\ wk \in [Slots -> WorkerType]
    /\ tab \subseteq Slots
    /\ gens \in [Streams -> Nat] /\ src \in [Streams -> Nat] /\ pending \in [Streams -> Nat]
    /\ vw \in [Viewers -> ViewType]
    /\ world \in Worlds
    /\ \A v \in Viewers :
         vw[v].pc \in {"opened", "waiting", "watching", "reading", "offering"} => vw[v].w # None

\* Every change of a source has been announced, or will be.
Announced == \A s \in Streams : src[s] = gens[s] + pending[s]

\* The generation is read before the source.
ReadInOrder ==
    \A v \in Viewers :
        /\ vw[v].pc \in {"asked", "resolved"} => vw[v].gen <= gens[vw[v].stream]
        /\ vw[v].pc = "resolved" =>
             vw[v].gen <= vw[v].input /\ vw[v].input <= src[vw[v].stream]

\* A registered worker is no older than the last invalidation.
Current ==
    \A w \in tab :
        wk[w].kind # "clip" =>
            gens[wk[w].stream] <= wk[w].input /\ wk[w].input <= src[wk[w].stream]

IInv == Typed /\ Announced /\ ReadInOrder /\ Current

\* What the argument watches of a worker.
SameAs(r, q) == r.kind = q.kind /\ r.stream = q.stream /\ r.input = q.input
Keeps(set) == \A x \in set : SameAs(wk'[x], wk[x])

-----------------------------------------------------------------------------
(* Workers keep their type, their stream and their input. *)

LEMMA BlankType == Blank \in WorkerType
<1>1. (CHOOSE s \in Streams : TRUE) \in Streams
  BY SlotsAssumption
<1> QED
  BY <1>1 DEF Blank, WorkerType, Kinds

LEMMA NoViewType == NoView \in ViewType
<1>1. (CHOOSE s \in Streams : TRUE) \in Streams
  BY SlotsAssumption
<1> QED
  BY <1>1 DEF NoView, ViewType, Kinds

\* live_mjpeg.go:144-162: a context that ends takes the timers along.
LEMMA CancelType ==
  ASSUME NEW r \in WorkerType PROVE Cancel(r) \in WorkerType /\ SameAs(Cancel(r), r)
BY DEF Cancel, WorkerType, SameAs

\* A removal leaves no directory that anybody has yet to remove, and makes none.
LEMMA RemovalsLeave ==
  ASSUME NEW r, NEW d \in Removals(r)
  PROVE  d \in {"none", "stuck"} /\ d # "made" /\ (d # "none" => r.dir # "none")
BY DEF Removals

\* What a worker's last steps do to it besides.
LEMMA CancelEdits ==
  ASSUME NEW r \in WorkerType
  PROVE  /\ [Cancel(r) EXCEPT !.pc = "unlisting"] \in WorkerType
         /\ SameAs([Cancel(r) EXCEPT !.pc = "unlisting"], r)
         /\ [Cancel(r) EXCEPT !.pc = "done"] \in WorkerType
         /\ SameAs([Cancel(r) EXCEPT !.pc = "done"], r)
         /\ \A d \in {"none", "stuck"} :
              /\ [Cancel(r) EXCEPT !.pc = "done", !.dir = d] \in WorkerType
              /\ SameAs([Cancel(r) EXCEPT !.pc = "done", !.dir = d], r)
         /\ [Cancel(r) EXCEPT !.pc = "done", !.completed = TRUE, !.keeper = "kept"] \in WorkerType
         /\ SameAs([Cancel(r) EXCEPT !.pc = "done", !.completed = TRUE, !.keeper = "kept"], r)
<1> DEFINE q == Cancel(r)
<1>1. q \in WorkerType /\ SameAs(q, r)
  BY CancelType
<1> HIDE DEF q
<1>2. /\ [q EXCEPT !.pc = "unlisting"] \in WorkerType
      /\ SameAs([q EXCEPT !.pc = "unlisting"], r)
  BY <1>1 DEF WorkerType, SameAs
<1>3. /\ [q EXCEPT !.pc = "done"] \in WorkerType
      /\ SameAs([q EXCEPT !.pc = "done"], r)
  BY <1>1 DEF WorkerType, SameAs
<1>4. ASSUME NEW d \in {"none", "stuck"}
      PROVE  /\ [q EXCEPT !.pc = "done", !.dir = d] \in WorkerType
             /\ SameAs([q EXCEPT !.pc = "done", !.dir = d], r)
  BY <1>1 DEF WorkerType, SameAs
<1>5. /\ [q EXCEPT !.pc = "done", !.completed = TRUE, !.keeper = "kept"] \in WorkerType
      /\ SameAs([q EXCEPT !.pc = "done", !.completed = TRUE, !.keeper = "kept"], r)
  BY <1>1 DEF WorkerType, SameAs
<1> QED
  BY <1>2, <1>3, <1>4, <1>5 DEF q

LEMMA NewWorkerType ==
  ASSUME Typed, NEW k \in Kinds, NEW s \in Streams, NEW i \in Nat,
         NEW pc \in {"live", "spawned", "offer"}
  PROVE  /\ NewWorker(k, s, i, pc) \in WorkerType
         /\ NewWorker(k, s, i, pc).kind = k /\ NewWorker(k, s, i, pc).stream = s
         /\ NewWorker(k, s, i, pc).input = i
<1>1. world.retries \in Nat
  BY WorldsAssumption DEF Typed, WorldType
<1>2. NewWorker(k, s, i, pc) \in WorkerType
  BY <1>1, BlankType DEF NewWorker, WorkerType
<1>3. /\ NewWorker(k, s, i, pc).kind = k /\ NewWorker(k, s, i, pc).stream = s
      /\ NewWorker(k, s, i, pc).input = i
  BY BlankType DEF NewWorker, WorkerType
<1> QED
  BY <1>2, <1>3

\* One worker changes and keeps what the argument watches.
LEMMA EditKeeps ==
  ASSUME wk \in [Slots -> WorkerType], NEW w \in Slots, NEW r \in WorkerType,
         SameAs(r, wk[w]), wk' = [wk EXCEPT ![w] = r]
  PROVE  wk' \in [Slots -> WorkerType] /\ Keeps(Slots)
BY DEF Keeps, SameAs

\* The collector takes nothing that is registered.
LEMMA CollectedKeeps ==
  ASSUME NEW f \in [Slots -> WorkerType]
  PROVE  /\ Collected(f) \in [Slots -> WorkerType]
         /\ \A x \in Slots : x \in tab' => Collected(f)[x] = f[x]
BY BlankType DEF Collected

LEMMA PutKeeps ==
  ASSUME wk \in [Slots -> WorkerType], NEW w \in Slots, NEW r \in WorkerType,
         SameAs(r, wk[w]), Put(w, r), tab' \subseteq Slots
  PROVE  wk' \in [Slots -> WorkerType] /\ Keeps(tab')
<1> DEFINE f == [wk EXCEPT ![w] = r]
<1>1. f \in [Slots -> WorkerType] /\ \A x \in Slots : f[x] = IF x = w THEN r ELSE wk[x]
  OBVIOUS
<1>2. wk' = Collected(f)
  BY DEF Put
<1> HIDE DEF f
<1>3. wk' \in [Slots -> WorkerType] /\ \A x \in Slots : x \in tab' => wk'[x] = f[x]
  BY <1>1, <1>2, CollectedKeeps
<1>4. ASSUME NEW x \in tab' PROVE SameAs(wk'[x], wk[x])
  BY <1>1, <1>3, <1>4 DEF SameAs
<1> QED
  BY <1>3, <1>4 DEF Keeps

-----------------------------------------------------------------------------
(* A step that registers no worker, resolves nothing and changes no source. *)

\* Requests that are resolving stay as they are.
Resolving(r) == r.pc \in {"asked", "resolved"}
ViewsKeep == \A v \in Viewers : Resolving(vw'[v]) => vw'[v] = vw[v]

LEMMA ReadStays ==
  ASSUME Announced, ReadInOrder, UNCHANGED sources, ViewsKeep
  PROVE  Announced' /\ ReadInOrder'
<1>1. Announced'
  BY DEF Announced, sources
<1>2. ASSUME NEW v \in Viewers
      PROVE  /\ vw'[v].pc \in {"asked", "resolved"} => vw'[v].gen <= gens'[vw'[v].stream]
             /\ vw'[v].pc = "resolved" =>
                  vw'[v].gen <= vw'[v].input /\ vw'[v].input <= src'[vw'[v].stream]
  <2>1. CASE Resolving(vw'[v])
    BY <2>1 DEF ReadInOrder, ViewsKeep, sources
  <2>2. CASE ~Resolving(vw'[v])
    BY <2>2 DEF Resolving
  <2> QED
    BY <2>1, <2>2
<1> QED
  BY <1>1, <1>2 DEF ReadInOrder

LEMMA FrameStep ==
  ASSUME IInv, Typed', UNCHANGED sources, tab' \subseteq tab, Keeps(tab'), ViewsKeep
  PROVE  IInv'
<1>1. Announced' /\ ReadInOrder'
  BY ReadStays DEF IInv
<1>2. Current'
  BY DEF IInv, Current, Keeps, SameAs, sources
<1> QED
  BY <1>1, <1>2 DEF IInv

\* What is typed apart from the workers and the requests.
LEMMA RestTyped ==
  ASSUME Typed, UNCHANGED <<sources, world>>, tab' \subseteq Slots,
         wk' \in [Slots -> WorkerType], vw' \in [Viewers -> ViewType],
         \A v \in Viewers :
           vw'[v].pc \in {"opened", "waiting", "watching", "reading", "offering"}
             => vw'[v].w # None
  PROVE  Typed'
BY DEF Typed, sources

\* A request ends.
LEMMA ViewEnds ==
  ASSUME Typed, NEW v \in Viewers, vw' = [vw EXCEPT ![v] = NoView]
  PROVE  /\ vw' \in [Viewers -> ViewType] /\ ViewsKeep
         /\ \A x \in Viewers :
              vw'[x].pc \in {"opened", "waiting", "watching", "reading", "offering"}
                => vw'[x].w # None
<1>1. NoView.pc = "idle"
  BY DEF NoView
<1> QED
  BY <1>1, NoViewType DEF Typed, ViewsKeep, Resolving

\* No request changes.
LEMMA ViewsStay ==
  ASSUME Typed, vw' = vw
  PROVE  /\ vw' \in [Viewers -> ViewType] /\ ViewsKeep
         /\ \A x \in Viewers :
              vw'[x].pc \in {"opened", "waiting", "watching", "reading", "offering"}
                => vw'[x].w # None
BY DEF Typed, ViewsKeep

\* A step of one worker that keeps what the argument watches and may leave the tables.
LEMMA WorkerStep ==
  ASSUME IInv, NEW w \in Slots, NEW r \in WorkerType, SameAs(r, wk[w]),
         Put(w, r) \/ wk' = [wk EXCEPT ![w] = r],
         UNCHANGED <<sources, vw, world>>, tab' \subseteq tab
  PROVE  IInv'
<1>1. wk \in [Slots -> WorkerType] /\ tab \subseteq Slots
  BY DEF IInv, Typed
<1>2. wk' \in [Slots -> WorkerType] /\ Keeps(tab')
  <2>1. CASE Put(w, r)
    BY <1>1, <2>1, PutKeeps
  <2>2. CASE wk' = [wk EXCEPT ![w] = r]
    BY <1>1, <2>2, EditKeeps DEF Keeps
  <2> QED
    BY <2>1, <2>2
<1>3. Typed'
  BY <1>1, <1>2, ViewsStay, RestTyped DEF IInv
<1> QED
  BY <1>2, <1>3, ViewsStay, FrameStep DEF IInv

\* A step of a worker and the request that ends with it.
LEMMA LastStep ==
  ASSUME IInv, NEW v \in Viewers, NEW w \in Slots, NEW r \in WorkerType, SameAs(r, wk[w]),
         Put(w, r) \/ wk' = [wk EXCEPT ![w] = r],
         vw' = [vw EXCEPT ![v] = NoView], UNCHANGED <<tab, sources, world>>
  PROVE  IInv'
<1>1. wk \in [Slots -> WorkerType] /\ tab \subseteq Slots
  BY DEF IInv, Typed
<1>2. wk' \in [Slots -> WorkerType] /\ Keeps(tab')
  <2>1. CASE Put(w, r)
    BY <1>1, <2>1, PutKeeps
  <2>2. CASE wk' = [wk EXCEPT ![w] = r]
    BY <1>1, <2>2, EditKeeps DEF Keeps
  <2> QED
    BY <2>1, <2>2
<1>3. Typed'
  BY <1>1, <1>2, ViewEnds, RestTyped DEF IInv
<1> QED
  BY <1>2, <1>3, ViewEnds, FrameStep DEF IInv

-----------------------------------------------------------------------------
(* Workers: run, its deferred calls, the timers, the cleanup tasks. *)

LEMMA KilledKeeps == ASSUME IInv, NEW w \in Slots, Killed(w) PROVE IInv'
<1> DEFINE r == [wk[w] EXCEPT !.pc = Ending(wk[w].kind)]
<1>1. wk \in [Slots -> WorkerType] /\ wk[w] \in WorkerType
  BY DEF IInv, Typed
<1>2. r \in WorkerType /\ SameAs(r, wk[w])
  BY <1>1 DEF Killed, Ending, WorkerType, SameAs
<1>3. wk' = [wk EXCEPT ![w] = r] /\ UNCHANGED <<sources, vw, world>> /\ tab' \subseteq tab
  BY <1>1 DEF Killed
<1> HIDE DEF r
<1> QED
  BY <1>2, <1>3, WorkerStep

LEMMA CloseSubscribersKeeps == ASSUME IInv, NEW w \in Slots, CloseSubscribers(w) PROVE IInv'
<1> DEFINE r == [wk[w] EXCEPT !.pc = "unlisting", !.subs = {}, !.shut = TRUE]
<1>1. wk \in [Slots -> WorkerType] /\ wk[w] \in WorkerType
  BY DEF IInv, Typed
<1>2. r \in WorkerType /\ SameAs(r, wk[w])
  BY <1>1 DEF CloseSubscribers, WorkerType, SameAs
<1>3. wk' = [wk EXCEPT ![w] = r] /\ UNCHANGED <<sources, vw, world>> /\ tab' \subseteq tab
  BY <1>1 DEF CloseSubscribers
<1> HIDE DEF r
<1> QED
  BY <1>2, <1>3, WorkerStep

LEMMA CancelSessionKeeps == ASSUME IInv, NEW w \in Slots, CancelSession(w) PROVE IInv'
<1> DEFINE r == [Cancel(wk[w]) EXCEPT !.pc = "unlisting"]
<1>1. wk \in [Slots -> WorkerType] /\ wk[w] \in WorkerType
  BY DEF IInv, Typed
<1>2. r \in WorkerType /\ SameAs(r, wk[w])
  BY <1>1, CancelEdits
<1>3. wk' = [wk EXCEPT ![w] = r] /\ UNCHANGED <<sources, vw, world>> /\ tab' \subseteq tab
  BY <1>1 DEF CancelSession
<1> HIDE DEF r
<1> QED
  BY <1>2, <1>3, WorkerStep

LEMMA ProducesKeeps == ASSUME IInv, NEW w \in Slots, Produces(w) PROVE IInv'
<1> DEFINE r == [wk[w] EXCEPT !.produced = TRUE]
<1>1. wk \in [Slots -> WorkerType] /\ wk[w] \in WorkerType
  BY DEF IInv, Typed
<1>2. r \in WorkerType /\ SameAs(r, wk[w])
  BY <1>1 DEF Produces, WorkerType, SameAs
<1>3. wk' = [wk EXCEPT ![w] = r] /\ UNCHANGED <<sources, vw, world>> /\ tab' \subseteq tab
  BY <1>1 DEF Produces
<1> HIDE DEF r
<1> QED
  BY <1>2, <1>3, WorkerStep

LEMMA RetriesKeeps == ASSUME IInv, NEW w \in Slots, Retries(w) PROVE IInv'
<1> DEFINE r == [wk[w] EXCEPT !.left = @ - 1]
<1>1. wk \in [Slots -> WorkerType] /\ wk[w] \in WorkerType
  BY DEF IInv, Typed
<1>2. wk[w].left - 1 \in Nat
  BY <1>1 DEF Retries, WorkerType
<1>3. r \in WorkerType /\ SameAs(r, wk[w])
  BY <1>1, <1>2 DEF WorkerType, SameAs
<1>4. wk' = [wk EXCEPT ![w] = r] /\ UNCHANGED <<sources, vw, world>> /\ tab' \subseteq tab
  BY <1>1 DEF Retries
<1> HIDE DEF r
<1> QED
  BY <1>3, <1>4, WorkerStep

LEMMA FailsKeeps == ASSUME IInv, NEW w \in Slots, Fails(w) PROVE IInv'
<1> DEFINE r == [wk[w] EXCEPT !.pc = Ending(wk[w].kind), !.failed = (wk[w].kind \in Files)]
<1>1. wk \in [Slots -> WorkerType] /\ wk[w] \in WorkerType
  BY DEF IInv, Typed
<1>2. r \in WorkerType /\ SameAs(r, wk[w])
  <2>1. Ending(wk[w].kind) \in {"closing", "cancelling", "unlisting"}
    BY DEF Ending
  <2>2. (wk[w].kind \in Files) \in BOOLEAN
    OBVIOUS
  <2> QED
    BY <1>1, <2>1, <2>2 DEF WorkerType, SameAs
<1>3. wk' = [wk EXCEPT ![w] = r] /\ UNCHANGED <<sources, vw, world>> /\ tab' \subseteq tab
  BY <1>1 DEF Fails
<1> HIDE DEF r
<1> QED
  BY <1>2, <1>3, WorkerStep

LEMMA CompletesKeeps == ASSUME IInv, NEW w \in Slots, Completes(w) PROVE IInv'
<1> DEFINE r == [wk[w] EXCEPT !.pc =
                        IF wk[w].kind \in Files /\ wk[w].stream \in world.playback
                        THEN "retaining" ELSE Ending(wk[w].kind)]
<1>1. wk \in [Slots -> WorkerType] /\ wk[w] \in WorkerType
  BY DEF IInv, Typed
<1>2. r \in WorkerType /\ SameAs(r, wk[w])
  BY <1>1 DEF Completes, Ending, WorkerType, SameAs
<1>3. wk' = [wk EXCEPT ![w] = r] /\ UNCHANGED <<sources, vw, world>> /\ tab' \subseteq tab
  BY <1>1 DEF Completes
<1> HIDE DEF r
<1> QED
  BY <1>2, <1>3, WorkerStep

LEMMA PeerGoneKeeps == ASSUME IInv, NEW w \in Slots, PeerGone(w) PROVE IInv'
<1> DEFINE r == Cancel(wk[w])
<1>1. wk \in [Slots -> WorkerType] /\ wk[w] \in WorkerType
  BY DEF IInv, Typed
<1>2. r \in WorkerType /\ SameAs(r, wk[w])
  BY <1>1, CancelType DEF PeerGone, WorkerType, SameAs
<1>3. wk' = [wk EXCEPT ![w] = r] /\ UNCHANGED <<sources, vw, world>> /\ tab' \subseteq tab
  BY <1>1 DEF PeerGone
<1> HIDE DEF r
<1> QED
  BY <1>2, <1>3, WorkerStep

LEMMA AgesKeeps == ASSUME IInv, NEW w \in Slots, Ages(w) PROVE IInv'
<1> DEFINE r == [wk[w] EXCEPT !.aged = TRUE]
<1>1. wk \in [Slots -> WorkerType] /\ wk[w] \in WorkerType
  BY DEF IInv, Typed
<1>2. r \in WorkerType /\ SameAs(r, wk[w])
  BY <1>1 DEF Ages, WorkerType, SameAs
<1>3. wk' = [wk EXCEPT ![w] = r] /\ UNCHANGED <<sources, vw, world>> /\ tab' \subseteq tab
  BY <1>1 DEF Ages
<1> HIDE DEF r
<1> QED
  BY <1>2, <1>3, WorkerStep

LEMMA TickKeeps == ASSUME IInv, NEW w \in Slots, Tick(w) PROVE IInv'
<1> DEFINE r == Cancel(wk[w])
<1>1. wk \in [Slots -> WorkerType] /\ wk[w] \in WorkerType
  BY DEF IInv, Typed
<1>2. r \in WorkerType /\ SameAs(r, wk[w])
  BY <1>1, CancelType DEF Tick, WorkerType, SameAs
<1>3. Put(w, r) /\ UNCHANGED <<sources, vw, world>> /\ tab' \subseteq tab
  BY <1>1 DEF Tick
<1> HIDE DEF r
<1> QED
  BY <1>2, <1>3, WorkerStep

LEMMA CutNextKeeps == ASSUME IInv, NEW w \in Slots, CutNext(w) PROVE IInv'
<1> DEFINE r == Cancel(wk[w])
<1>1. wk \in [Slots -> WorkerType] /\ wk[w] \in WorkerType
  BY DEF IInv, Typed
<1>2. r \in WorkerType /\ SameAs(r, wk[w])
  BY <1>1, CancelType DEF CutNext, WorkerType, SameAs
<1>3. Put(w, r) /\ UNCHANGED <<sources, vw, world>> /\ tab' \subseteq tab
  BY <1>1 DEF CutNext
<1> HIDE DEF r
<1> QED
  BY <1>2, <1>3, WorkerStep

LEMMA KeeperUnlistsKeeps == ASSUME IInv, NEW w \in Slots, KeeperUnlists(w) PROVE IInv'
<1> DEFINE r == [wk[w] EXCEPT !.keeper = "sweep"]
<1>1. wk \in [Slots -> WorkerType] /\ wk[w] \in WorkerType
  BY DEF IInv, Typed
<1>2. r \in WorkerType /\ SameAs(r, wk[w])
  BY <1>1 DEF KeeperUnlists, WorkerType, SameAs
<1>3. wk' = [wk EXCEPT ![w] = r] /\ UNCHANGED <<sources, vw, world>> /\ tab' \subseteq tab
  BY <1>1 DEF KeeperUnlists
<1> HIDE DEF r
<1> QED
  BY <1>2, <1>3, WorkerStep

LEMMA KeeperSweepsKeeps == ASSUME IInv, NEW w \in Slots, KeeperSweeps(w) PROVE IInv'
<1>0. PICK left \in Removals(wk[w]) :
           wk' = [wk EXCEPT ![w].keeper = "release", ![w].dir = left]
  BY DEF KeeperSweeps
<1> DEFINE r == [wk[w] EXCEPT !.keeper = "release", !.dir = left]
<1>1. wk \in [Slots -> WorkerType] /\ wk[w] \in WorkerType
  BY DEF IInv, Typed
<1>2. r \in WorkerType /\ SameAs(r, wk[w])
  <2>1. left \in {"none", "stuck"}
    BY RemovalsLeave
  <2> QED
    BY <1>1, <2>1 DEF WorkerType, SameAs
<1>3. wk' = [wk EXCEPT ![w] = r] /\ UNCHANGED <<sources, vw, world>> /\ tab' \subseteq tab
  BY <1>0, <1>1 DEF KeeperSweeps
<1> HIDE DEF r
<1> QED
  BY <1>2, <1>3, WorkerStep

LEMMA KeeperReleasesKeeps == ASSUME IInv, NEW w \in Slots, KeeperReleases(w) PROVE IInv'
<1> DEFINE r == [wk[w] EXCEPT !.keeper = "none"]
<1>1. wk \in [Slots -> WorkerType] /\ wk[w] \in WorkerType
  BY DEF IInv, Typed
<1>2. r \in WorkerType /\ SameAs(r, wk[w])
  BY <1>1 DEF KeeperReleases, WorkerType, SameAs
<1>3. Put(w, r) /\ UNCHANGED <<sources, vw, world>> /\ tab' \subseteq tab
  BY <1>1 DEF KeeperReleases
<1> HIDE DEF r
<1> QED
  BY <1>2, <1>3, WorkerStep

LEMMA SweepKeeps == ASSUME IInv, NEW w \in Slots, Sweep(w) PROVE IInv'
<1>0. PICK left \in Removals(wk[w]) :
           Put(w, [Cancel(wk[w]) EXCEPT !.pc = "done", !.dir = left])
  BY DEF Sweep
<1> DEFINE r == [Cancel(wk[w]) EXCEPT !.pc = "done", !.dir = left]
<1>1. wk \in [Slots -> WorkerType] /\ wk[w] \in WorkerType
  BY DEF IInv, Typed
<1>2. r \in WorkerType /\ SameAs(r, wk[w])
  <2>1. left \in {"none", "stuck"}
    BY RemovalsLeave
  <2> QED
    BY <1>1, <2>1, CancelEdits
<1>3. Put(w, r) /\ UNCHANGED <<sources, vw, world>> /\ tab' \subseteq tab
  BY <1>0 DEF Sweep
<1> HIDE DEF r
<1> QED
  BY <1>2, <1>3, WorkerStep

LEMMA PrepareKeeps == ASSUME IInv, NEW w \in Slots, Prepare(w) PROVE IInv'
<1> DEFINE ready == [wk[w] EXCEPT !.pc = "live", !.dir = "made", !.ticking = TRUE]
           lost == [wk[w] EXCEPT !.pc = "unlisting", !.failed = TRUE]
<1>1. wk \in [Slots -> WorkerType] /\ wk[w] \in WorkerType
  BY DEF IInv, Typed
<1>2. ready \in WorkerType /\ SameAs(ready, wk[w]) /\ lost \in WorkerType /\ SameAs(lost, wk[w])
  BY <1>1 DEF WorkerType, SameAs
<1>3. /\ wk' = [wk EXCEPT ![w] = ready] \/ wk' = [wk EXCEPT ![w] = lost]
      /\ UNCHANGED <<sources, vw, world>> /\ tab' \subseteq tab
  BY <1>1 DEF Prepare
<1> HIDE DEF ready, lost
<1> QED
  BY <1>2, <1>3, WorkerStep

LEMMA RemoveWorkerKeeps == ASSUME IInv, NEW w \in Slots, RemoveWorker(w) PROVE IInv'
<1> DEFINE sweeps == [wk[w] EXCEPT !.pc = "sweeping"]
           ends == [Cancel(wk[w]) EXCEPT !.pc = "done"]
<1>1. wk \in [Slots -> WorkerType] /\ wk[w] \in WorkerType
  BY DEF IInv, Typed
<1>2. sweeps \in WorkerType /\ SameAs(sweeps, wk[w]) /\ ends \in WorkerType /\ SameAs(ends, wk[w])
  <2>1. sweeps \in WorkerType /\ SameAs(sweeps, wk[w])
    BY <1>1 DEF WorkerType, SameAs
  <2> QED
    BY <1>1, <2>1, CancelEdits
<1>3. /\ Put(w, sweeps) \/ Put(w, ends)
      /\ UNCHANGED <<sources, vw, world>> /\ tab' \subseteq tab
  BY <1>1 DEF RemoveWorker
<1> HIDE DEF sweeps, ends
<1> QED
  BY <1>2, <1>3, WorkerStep

LEMMA ElapsesKeeps == ASSUME IInv, NEW w \in Slots, Elapses(w) PROVE IInv'
<1>1. wk \in [Slots -> WorkerType] /\ wk[w] \in WorkerType
  BY DEF IInv, Typed
<1>2. PICK t \in wk[w].timers :
        /\ wk' = [wk EXCEPT ![w].timers = (@ \ {t}) \cup {[t EXCEPT !.due = TRUE]}]
        /\ UNCHANGED <<tab, kept, sources, cutting, closing, vw, world>>
  BY DEF Elapses
<1> DEFINE r == [wk[w] EXCEPT !.timers = (@ \ {t}) \cup {[t EXCEPT !.due = TRUE]}]
<1>3. wk[w].timers \subseteq [window : {"this", "past"}, due : BOOLEAN, whole : BOOLEAN]
  BY <1>1 DEF WorkerType
<1>4. [t EXCEPT !.due = TRUE] \in [window : {"this", "past"}, due : BOOLEAN, whole : BOOLEAN]
  BY <1>3
<1>5. r \in WorkerType /\ SameAs(r, wk[w])
  BY <1>1, <1>3, <1>4 DEF WorkerType, SameAs
<1>6. wk' = [wk EXCEPT ![w] = r]
  BY <1>1, <1>2
<1> HIDE DEF r
<1> QED
  BY <1>2, <1>5, <1>6, WorkerStep

LEMMA IdleTimerKeeps == ASSUME IInv, NEW w \in Slots, IdleTimer(w) PROVE IInv'
<1>1. wk \in [Slots -> WorkerType] /\ wk[w] \in WorkerType
  BY DEF IInv, Typed
<1>2. PICK t \in wk[w].timers :
        LET fires == t.window = "this" /\ wk[w].subs = {}
            r == [wk[w] EXCEPT !.timers = @ \ {t}]
        IN  /\ UNCHANGED <<tab, kept, sources, cutting, closing, vw, world>>
            /\ Put(w, IF fires THEN Cancel(r) ELSE r)
  BY DEF IdleTimer
<1> DEFINE r == [wk[w] EXCEPT !.timers = @ \ {t}]
<1>3. r \in WorkerType /\ SameAs(r, wk[w])
  BY <1>1 DEF WorkerType, SameAs
<1>4. Cancel(r) \in WorkerType /\ SameAs(Cancel(r), wk[w])
  BY <1>3, CancelType DEF SameAs
<1>5. Put(w, r) \/ Put(w, Cancel(r))
  BY <1>2
<1> HIDE DEF r
<1> QED
  BY <1>2, <1>3, <1>4, <1>5, WorkerStep

\* retention.go: others may expire with it.
LEMMA RetainKeeps == ASSUME IInv, NEW w \in Slots, Retain(w) PROVE IInv'
<1>1. wk \in [Slots -> WorkerType] /\ tab \subseteq Slots
  BY DEF IInv, Typed
<1>2. PICK out :
        /\ tab' = tab \ out
        /\ wk' = [x \in Slots |->
                    LET r == [wk[x] EXCEPT !.expired = @ \/ x \in out]
                    IN IF x = w THEN [Cancel(r) EXCEPT !.pc = "done", !.completed = TRUE,
                                                       !.keeper = "kept"] ELSE r]
        /\ UNCHANGED <<sources, cutting, closing, vw, world>>
  BY DEF Retain
<1>3. ASSUME NEW x \in Slots PROVE wk'[x] \in WorkerType /\ SameAs(wk'[x], wk[x])
  <2> DEFINE r == [wk[x] EXCEPT !.expired = @ \/ x \in out]
  <2>1. r \in WorkerType /\ SameAs(r, wk[x])
    <3>1. wk[x] \in WorkerType /\ (wk[x].expired \/ x \in out) \in BOOLEAN
      BY <1>1
    <3> QED
      BY <3>1 DEF WorkerType, SameAs
  <2>2. /\ x = w => wk'[x] = [Cancel(r) EXCEPT !.pc = "done", !.completed = TRUE, !.keeper = "kept"]
        /\ x # w => wk'[x] = r
    BY <1>2
  <2> HIDE DEF r
  <2>3. CASE x = w
    <3>1. wk'[x] \in WorkerType /\ SameAs(wk'[x], r)
      BY <2>1, <2>2, <2>3, CancelEdits
    <3> QED
      BY <2>1, <3>1 DEF SameAs
  <2>4. CASE x # w
    BY <2>1, <2>2, <2>4
  <2> QED
    BY <2>3, <2>4
<1>4. wk' \in [Slots -> WorkerType] /\ Keeps(tab')
  BY <1>1, <1>2, <1>3 DEF Keeps
<1>5. Typed'
  BY <1>1, <1>2, <1>4, ViewsStay, RestTyped DEF IInv
<1> QED
  BY <1>1, <1>2, <1>4, <1>5, ViewsStay, FrameStep DEF IInv

-----------------------------------------------------------------------------
(* Requests. *)

Held == {"opened", "waiting", "watching", "reading", "offering"}

\* A request that is past its lookup has a worker.
LEMMA HeldSlot ==
  ASSUME IInv, NEW v \in Viewers, vw[v].pc \in Held
  PROVE  vw[v].w \in Slots /\ wk[vw[v].w] \in WorkerType
BY DEF IInv, Typed, ViewType, Held

\* One request moves on, past its resolution or to its end.
LEMMA RequestStep ==
  ASSUME IInv, NEW v \in Viewers, NEW y \in ViewType, vw' = [vw EXCEPT ![v] = y],
         ~Resolving(y), y.pc \in Held => y.w # None,
         tab' \subseteq tab, UNCHANGED <<sources, world>>,
         wk' \in [Slots -> WorkerType], Keeps(tab')
  PROVE  IInv'
<1>1. vw \in [Viewers -> ViewType] /\ tab' \subseteq Slots
  BY DEF IInv, Typed
<1>2. \A x \in Viewers : vw'[x] = IF x = v THEN y ELSE vw[x]
  BY <1>1
<1>3. vw' \in [Viewers -> ViewType]
  BY <1>1
<1>4. ViewsKeep
  BY <1>2 DEF ViewsKeep
<1>5. Typed'
  BY <1>1, <1>2, <1>3, RestTyped DEF IInv, Typed, Held
<1> QED
  BY <1>4, <1>5, FrameStep

\* The worker stays as it is.
LEMMA TableStays ==
  ASSUME IInv, UNCHANGED <<wk, tab>>
  PROVE  /\ wk' \in [Slots -> WorkerType] /\ Keeps(tab') /\ tab' \subseteq tab
         /\ tab' \subseteq Slots
BY DEF IInv, Typed, Keeps, SameAs

LEMMA RefuseKeeps == ASSUME IInv, NEW v \in Viewers, Refuse(v) PROVE IInv'
<1>1. ~Resolving(NoView) /\ NoView.pc \notin Held
  BY DEF NoView, Resolving, Held
<1> QED
  BY <1>1, NoViewType, TableStays, RequestStep DEF Refuse

\* A lookup that hits: the worker is touched, the request holds it.
LEMMA FoundKeeps ==
  ASSUME IInv, NEW v \in Viewers, NEW k, NEW usable \in SUBSET Slots,
         NEW next \in {"opened", "reading"}, Found(v, k, usable, next),
         UNCHANGED <<sources, world>>
  PROVE  IInv'
<1>1. PICK w \in usable :
        /\ vw' = [vw EXCEPT ![v] = [NoView EXCEPT !.pc = next, !.w = w]]
        /\ wk' = [wk EXCEPT ![w].aged = FALSE]
        /\ UNCHANGED tab
  BY DEF Found
<1> DEFINE y == [NoView EXCEPT !.pc = next, !.w = w]
           r == [wk[w] EXCEPT !.aged = FALSE]
<1>2. wk \in [Slots -> WorkerType] /\ wk[w] \in WorkerType /\ tab \subseteq Slots
  BY DEF IInv, Typed
<1>3. r \in WorkerType /\ SameAs(r, wk[w])
  BY <1>2 DEF WorkerType, SameAs
<1>4. wk' = [wk EXCEPT ![w] = r]
  BY <1>1, <1>2
<1>5. y \in ViewType /\ y.w # None /\ ~Resolving(y)
  BY NoViewType, SlotsAssumption DEF ViewType, Resolving
<1>6. vw' = [vw EXCEPT ![v] = y]
  BY <1>1
<1> HIDE DEF r, y
<1>7. wk' \in [Slots -> WorkerType] /\ Keeps(tab')
  BY <1>1, <1>2, <1>3, <1>4, EditKeeps DEF Keeps
<1> QED
  BY <1>1, <1>5, <1>6, <1>7, RequestStep

\* A worker is registered for a request that read the current generation.
LEMMA CreateKeeps ==
  ASSUME IInv, NEW v \in Viewers, NEW k \in Kinds, NEW pc \in {"live", "spawned", "offer"},
         NEW next \in {"opened", "reading", "offering"},
         vw[v].pc = "resolved", Admitted(v), Create(v, k, pc, next),
         UNCHANGED <<sources, world>>
  PROVE  IInv'
<1> DEFINE s == vw[v].stream
           room == IF k = "webrtc" THEN tab ELSE tab \ ListedFor(k, s)
           g == Collected(wk)
<1>1. /\ wk \in [Slots -> WorkerType] /\ tab \subseteq Slots /\ room \subseteq tab
      /\ vw \in [Viewers -> ViewType] /\ s \in Streams /\ vw[v].input \in Nat
      /\ gens \in [Streams -> Nat] /\ src \in [Streams -> Nat]
  BY DEF IInv, Typed, ViewType
<1>2. /\ g \in [Slots -> WorkerType]
      /\ \A x \in Slots : x \in tab' => g[x] = wk[x]
  BY <1>1, CollectedKeeps
<1> HIDE DEF g
<1>3. CASE tab' = room /\ vw' = [vw EXCEPT ![v] = NoView] /\ wk' = g
  <2>1. ~Resolving(NoView) /\ NoView.pc \notin Held
    BY DEF NoView, Resolving, Held
  <2>2. wk' \in [Slots -> WorkerType] /\ Keeps(tab') /\ tab' \subseteq tab
    BY <1>1, <1>2, <1>3 DEF Keeps, SameAs
  <2> QED
    BY <1>3, <2>1, <2>2, NoViewType, RequestStep
<1>4. CASE \E w \in Free :
             /\ tab' = room \cup {w}
             /\ vw' = [vw EXCEPT ![v] = [NoView EXCEPT !.pc = next, !.w = w]]
             /\ wk' = [g EXCEPT ![w] = NewWorker(k, s, vw[v].input, pc)]
  <2>1. PICK w \in Free :
             /\ tab' = room \cup {w}
             /\ vw' = [vw EXCEPT ![v] = [NoView EXCEPT !.pc = next, !.w = w]]
             /\ wk' = [g EXCEPT ![w] = NewWorker(k, s, vw[v].input, pc)]
    BY <1>4
  <2> DEFINE y == [NoView EXCEPT !.pc = next, !.w = w]
             n == NewWorker(k, s, vw[v].input, pc)
  <2>2. w \in Slots
    BY WorldsAssumption DEF IInv, Typed, Free, WorldType
  <2>3. y \in ViewType /\ y.w # None /\ ~Resolving(y)
    BY <2>2, NoViewType, SlotsAssumption DEF ViewType, Resolving
  <2>4. n \in WorkerType /\ n.kind = k /\ n.stream = s /\ n.input = vw[v].input
    BY <1>1, NewWorkerType DEF IInv
  <2>5. gens[s] <= vw[v].input /\ vw[v].input <= src[s]
    BY DEF Admitted, IInv, ReadInOrder
  <2> HIDE DEF y, n, s, room
  <2>6. /\ wk' \in [Slots -> WorkerType] /\ tab' \subseteq Slots
        /\ \A x \in tab' : wk'[x] = IF x = w THEN n ELSE wk[x]
    BY <1>1, <1>2, <2>1, <2>2, <2>4 DEF n, s
  <2>7. /\ vw' \in [Viewers -> ViewType]
        /\ \A x \in Viewers : vw'[x] = IF x = v THEN y ELSE vw[x]
    BY <1>1, <2>1, <2>3 DEF y
  <2>8. Typed'
    BY <2>3, <2>6, <2>7, RestTyped DEF IInv, Typed
  <2>9. Announced' /\ ReadInOrder'
    <3>1. ViewsKeep
      BY <2>3, <2>7 DEF ViewsKeep
    <3> QED
      BY <3>1, ReadStays DEF IInv
  <2>10. Current'
    <3>1. ASSUME NEW x \in tab', wk'[x].kind # "clip"
          PROVE  gens'[wk'[x].stream] <= wk'[x].input /\ wk'[x].input <= src'[wk'[x].stream]
      <4>1. CASE x = w
        BY <2>4, <2>5, <2>6, <4>1 DEF sources
      <4>2. CASE x # w
        BY <1>1, <2>1, <2>6, <3>1, <4>2 DEF IInv, Current, sources
      <4> QED
        BY <4>1, <4>2
    <3> QED
      BY <3>1 DEF Current
  <2> QED
    BY <2>8, <2>9, <2>10 DEF IInv
<1> QED
  BY <1>3, <1>4 DEF Create, g

LEMMA OpenMJPEGKeeps == ASSUME IInv, NEW v \in Viewers, OpenMJPEG(v) PROVE IInv'
<1> DEFINE usable == {w \in ListedFor("mjpeg", vw[v].stream) : Alive(w)}
<1>1. usable \in SUBSET Slots /\ "mjpeg" \in Kinds
  BY DEF ListedFor, IInv, Typed, Kinds
<1>2. /\ vw[v].pc = "resolved" /\ Admitted(v) /\ UNCHANGED <<sources, world>>
      /\ Found(v, "mjpeg", usable, "opened") \/ Create(v, "mjpeg", "live", "opened")
  BY DEF OpenMJPEG
<1> HIDE DEF usable
<1> QED
  BY <1>1, <1>2, FoundKeeps, CreateKeeps

LEMMA OpenHLSKeeps == ASSUME IInv, NEW v \in Viewers, OpenHLS(v) PROVE IInv'
<1> DEFINE usable == {w \in ListedFor("hls", vw[v].stream) : wk[w].completed \/ Alive(w)}
<1>1. usable \in SUBSET Slots /\ "hls" \in Kinds
  BY DEF ListedFor, IInv, Typed, Kinds
<1>2. /\ vw[v].pc = "resolved" /\ Admitted(v) /\ UNCHANGED <<sources, world>>
      /\ Found(v, "hls", usable, "reading") \/ Create(v, "hls", "spawned", "reading")
  BY DEF OpenHLS, OpenFiles
<1> HIDE DEF usable
<1> QED
  BY <1>1, <1>2, FoundKeeps, CreateKeeps

LEMMA OpenDASHKeeps == ASSUME IInv, NEW v \in Viewers, OpenDASH(v) PROVE IInv'
<1> DEFINE usable == {w \in ListedFor("dash", vw[v].stream) : wk[w].completed \/ Alive(w)}
<1>1. usable \in SUBSET Slots /\ "dash" \in Kinds
  BY DEF ListedFor, IInv, Typed, Kinds
<1>2. /\ vw[v].pc = "resolved" /\ Admitted(v) /\ UNCHANGED <<sources, world>>
      /\ Found(v, "dash", usable, "reading") \/ Create(v, "dash", "spawned", "reading")
  BY DEF OpenDASH, OpenFiles
<1> HIDE DEF usable
<1> QED
  BY <1>1, <1>2, FoundKeeps, CreateKeeps

LEMMA OpenWebRTCKeeps == ASSUME IInv, NEW v \in Viewers, OpenWebRTC(v) PROVE IInv'
<1>1. "webrtc" \in Kinds
  BY DEF Kinds
<1> QED
  BY <1>1, CreateKeeps DEF OpenWebRTC

LEMMA AskKeeps ==
  ASSUME IInv, NEW v \in Viewers, NEW k \in Kinds, NEW s \in Streams, Ask(v, k, s)
  PROVE  IInv'
<1> DEFINE y == [NoView EXCEPT !.pc = "asked", !.kind = k, !.stream = s, !.gen = gens[s]]
<1>1. vw \in [Viewers -> ViewType] /\ gens[s] \in Nat
  BY DEF IInv, Typed
<1>2. y \in ViewType /\ y.pc = "asked" /\ y.stream = s /\ y.gen = gens[s]
  BY <1>1, NoViewType DEF ViewType
<1>3. vw' = [vw EXCEPT ![v] = y]
  BY DEF Ask
<1> HIDE DEF y
<1>4. vw' \in [Viewers -> ViewType] /\ \A x \in Viewers : vw'[x] = IF x = v THEN y ELSE vw[x]
  BY <1>1, <1>2, <1>3
<1>5. UNCHANGED <<wk, tab, sources, world>>
  BY DEF Ask
<1>6. Typed'
  BY <1>2, <1>4, <1>5 DEF IInv, Typed, sources
<1>7. Announced' /\ Current'
  BY <1>5 DEF IInv, Announced, Current, sources
<1>8. ReadInOrder'
  BY <1>1, <1>2, <1>4, <1>5 DEF IInv, ReadInOrder, sources
<1> QED
  BY <1>6, <1>7, <1>8 DEF IInv

\* The source that is read after a generation is at least as new.
LEMMA ResolveKeeps == ASSUME IInv, NEW v \in Viewers, Resolve(v) PROVE IInv'
<1> DEFINE s == vw[v].stream
           y == [vw[v] EXCEPT !.pc = "resolved", !.input = src[s]]
<1>1. /\ vw \in [Viewers -> ViewType] /\ vw[v] \in ViewType /\ s \in Streams
      /\ vw[v].gen \in Nat /\ gens[s] \in Nat /\ src[s] \in Nat /\ pending[s] \in Nat
  BY DEF IInv, Typed, ViewType
<1>2. /\ y \in ViewType /\ y.pc = "resolved" /\ y.stream = s /\ y.gen = vw[v].gen
      /\ y.input = src[s]
  BY <1>1 DEF ViewType
<1>3. vw' = [vw EXCEPT ![v] = y] /\ UNCHANGED <<wk, tab, sources, world>>
  BY <1>1 DEF Resolve
<1>4. vw[v].gen <= gens[s] /\ src[s] = gens[s] + pending[s]
  BY <1>1 DEF IInv, ReadInOrder, Announced, Resolve
<1> HIDE DEF y, s
<1>5. vw' \in [Viewers -> ViewType] /\ \A x \in Viewers : vw'[x] = IF x = v THEN y ELSE vw[x]
  BY <1>1, <1>2, <1>3
<1>6. Typed'
  BY <1>2, <1>3, <1>5 DEF IInv, Typed, sources
<1>7. Announced' /\ Current'
  BY <1>3 DEF IInv, Announced, Current, sources
<1>8. vw[v].gen <= src[s]
  BY <1>1, <1>4
<1>9. ReadInOrder'
  BY <1>1, <1>2, <1>3, <1>4, <1>5, <1>8 DEF IInv, ReadInOrder, sources
<1> QED
  BY <1>6, <1>7, <1>9 DEF IInv

LEMMA ServedKeeps == ASSUME IInv, NEW v \in Viewers, Served(v) PROVE IInv'
<1> DEFINE w == vw[v].w
           r == [wk[w] EXCEPT !.aged = FALSE]
<1>1. w \in Slots /\ wk[w] \in WorkerType /\ wk \in [Slots -> WorkerType]
  BY HeldSlot DEF Served, Held, IInv, Typed
<1>2. r \in WorkerType /\ SameAs(r, wk[w])
  BY <1>1 DEF WorkerType, SameAs
<1>3. /\ Put(w, r)
      /\ vw' = [vw EXCEPT ![v] = NoView] /\ UNCHANGED <<tab, sources, world>>
  BY <1>1 DEF Served
<1> HIDE DEF r, w
<1> QED
  BY <1>1, <1>2, <1>3, LastStep

LEMMA NotServedKeeps == ASSUME IInv, NEW v \in Viewers, NotServed(v) PROVE IInv'
<1> DEFINE w == vw[v].w
           r == wk[w]
<1>1. w \in Slots /\ wk[w] \in WorkerType /\ wk \in [Slots -> WorkerType]
  BY HeldSlot DEF NotServed, Held, IInv, Typed
<1>2. r \in WorkerType /\ SameAs(r, wk[w])
  BY <1>1 DEF WorkerType, SameAs
<1>3. /\ Put(w, r)
      /\ vw' = [vw EXCEPT ![v] = NoView] /\ UNCHANGED <<tab, sources, world>>
  BY <1>1 DEF NotServed
<1> HIDE DEF r, w
<1> QED
  BY <1>1, <1>2, <1>3, LastStep

LEMMA AnswerKeeps == ASSUME IInv, NEW v \in Viewers, Answer(v) PROVE IInv'
<1> DEFINE w == vw[v].w
           r == [wk[w] EXCEPT !.pc = "live"]
<1>1. w \in Slots /\ wk[w] \in WorkerType /\ wk \in [Slots -> WorkerType]
  BY HeldSlot DEF Answer, Held, IInv, Typed
<1>2. r \in WorkerType /\ SameAs(r, wk[w])
  BY <1>1 DEF WorkerType, SameAs
<1>3. /\ wk' = [wk EXCEPT ![w] = r]
      /\ vw' = [vw EXCEPT ![v] = NoView] /\ UNCHANGED <<tab, sources, world>>
  BY <1>1 DEF Answer
<1> HIDE DEF r, w
<1> QED
  BY <1>1, <1>2, <1>3, LastStep

LEMMA OfferFailsKeeps == ASSUME IInv, NEW v \in Viewers, OfferFails(v) PROVE IInv'
<1> DEFINE w == vw[v].w
           r == [wk[w] EXCEPT !.pc = "cancelling"]
<1>1. w \in Slots /\ wk[w] \in WorkerType /\ wk \in [Slots -> WorkerType]
  BY HeldSlot DEF OfferFails, Held, IInv, Typed
<1>2. r \in WorkerType /\ SameAs(r, wk[w])
  BY <1>1 DEF WorkerType, SameAs
<1>3. /\ wk' = [wk EXCEPT ![w] = r]
      /\ vw' = [vw EXCEPT ![v] = NoView] /\ UNCHANGED <<tab, sources, world>>
  BY <1>1 DEF OfferFails
<1> HIDE DEF r, w
<1> QED
  BY <1>1, <1>2, <1>3, LastStep

\* The timers of past windows are timers.
LEMMA PastType ==
  ASSUME NEW r \in WorkerType
  PROVE  /\ {Past(t) : t \in r.timers} \subseteq
              [window : {"this", "past"}, due : BOOLEAN, whole : BOOLEAN]
         /\ {[Past(t) EXCEPT !.whole = FALSE] : t \in r.timers} \subseteq
              [window : {"this", "past"}, due : BOOLEAN, whole : BOOLEAN]
<1>1. r.timers \subseteq [window : {"this", "past"}, due : BOOLEAN, whole : BOOLEAN]
  BY DEF WorkerType
<1> QED
  BY <1>1 DEF Past

LEMMA RemoveSubscriberKeeps ==
  ASSUME IInv, NEW v \in Viewers, vw[v].pc \in Held, RemoveSubscriber(v)
  PROVE  IInv'
<1> DEFINE w == vw[v].w
           rest == wk[w].subs \ {v}
           started == IF Alive(w) THEN {[window |-> "this", due |-> FALSE, whole |-> TRUE]} ELSE {}
           timers == {Past(t) : t \in wk[w].timers} \cup started
           some == [wk[w] EXCEPT !.subs = rest]
           empty == [wk[w] EXCEPT !.subs = rest, !.timers = timers]
<1>1. w \in Slots /\ wk[w] \in WorkerType /\ wk \in [Slots -> WorkerType]
  BY HeldSlot DEF IInv, Typed
<1>2. timers \subseteq [window : {"this", "past"}, due : BOOLEAN, whole : BOOLEAN]
  <2> DEFINE t0 == [window |-> "this", due |-> FALSE, whole |-> TRUE]
  <2>1. started \subseteq [window : {"this", "past"}, due : BOOLEAN, whole : BOOLEAN]
    <3>1. t0 \in [window : {"this", "past"}, due : BOOLEAN, whole : BOOLEAN]
      OBVIOUS
    <3>2. started = {t0} \/ started = {}
      OBVIOUS
    <3> HIDE DEF t0, started
    <3> QED
      BY <3>1, <3>2
  <2> QED
    BY <1>1, <2>1, PastType
<1>3. rest \subseteq Viewers
  BY <1>1 DEF WorkerType
<1>4. /\ Put(w, some) \/ Put(w, empty)
      /\ vw' = [vw EXCEPT ![v] = NoView] /\ UNCHANGED <<tab, sources, world>>
  BY DEF RemoveSubscriber
<1> HIDE DEF timers, rest, w
<1>5. some \in WorkerType /\ SameAs(some, wk[w])
  BY <1>1, <1>3 DEF WorkerType, SameAs
<1>6. empty \in WorkerType /\ SameAs(empty, wk[w])
  BY <1>1, <1>2, <1>3 DEF WorkerType, SameAs
<1> HIDE DEF some, empty
<1> QED
  BY <1>1, <1>4, <1>5, <1>6, LastStep

LEMMA AddSubscriberKeeps == ASSUME IInv, NEW v \in Viewers, AddSubscriber(v) PROVE IInv'
<1> DEFINE w == vw[v].w
           timers == {[Past(t) EXCEPT !.whole = FALSE] : t \in wk[w].timers}
           r == [wk[w] EXCEPT !.subs = @ \cup {v}, !.timers = timers]
           y == [vw[v] EXCEPT !.pc = "waiting"]
<1>1. /\ w \in Slots /\ wk[w] \in WorkerType /\ wk \in [Slots -> WorkerType]
      /\ vw[v] \in ViewType /\ w # None /\ vw \in [Viewers -> ViewType]
  BY HeldSlot, SlotsAssumption DEF AddSubscriber, Held, IInv, Typed
<1>2. timers \subseteq [window : {"this", "past"}, due : BOOLEAN, whole : BOOLEAN]
  BY <1>1, PastType
<1>3. y \in ViewType /\ y.w # None /\ ~Resolving(y)
  BY <1>1 DEF ViewType, Resolving
<1>4. /\ wk' = wk \/ wk' = [wk EXCEPT ![w] = r]
      /\ vw' = [vw EXCEPT ![v] = y] /\ UNCHANGED <<tab, sources, world>>
  BY <1>1 DEF AddSubscriber
<1> HIDE DEF timers, w, y
<1>5. r \in WorkerType /\ SameAs(r, wk[w])
  <2>1. wk[w].subs \cup {v} \in SUBSET Viewers
    BY <1>1 DEF WorkerType
  <2> QED
    BY <1>1, <1>2, <2>1 DEF WorkerType, SameAs
<1> HIDE DEF r
<1>6. wk' \in [Slots -> WorkerType] /\ Keeps(tab') /\ tab' \subseteq tab
  <2>1. CASE wk' = wk
    BY <1>4, <2>1, TableStays
  <2>2. CASE wk' = [wk EXCEPT ![w] = r]
    BY <1>1, <1>4, <1>5, <2>2, EditKeeps DEF Keeps, IInv, Typed
  <2> QED
    BY <1>4, <2>1, <2>2
<1> QED
  BY <1>3, <1>4, <1>6, RequestStep

LEMMA ReadyKeeps == ASSUME IInv, NEW v \in Viewers, Ready(v) PROVE IInv'
<1> DEFINE y == [vw[v] EXCEPT !.pc = "watching", !.watcher = (closing = "open")]
<1>1. vw[v] \in ViewType /\ vw[v].w # None /\ vw \in [Viewers -> ViewType]
  BY DEF Ready, IInv, Typed
<1>2. y \in ViewType /\ y.w # None /\ ~Resolving(y)
  <2>1. (closing = "open") \in BOOLEAN
    OBVIOUS
  <2> QED
    BY <1>1, <2>1 DEF ViewType, Resolving
<1>3. vw' = [vw EXCEPT ![v] = y] /\ UNCHANGED <<wk, tab, sources, world>>
  BY <1>1 DEF Ready
<1> HIDE DEF y
<1> QED
  BY <1>2, <1>3, TableStays, RequestStep

-----------------------------------------------------------------------------
(* The other callers. *)

LEMMA StartClipKeeps == ASSUME IInv, NEW s \in Streams, StartClip(s) PROVE IInv'
<1>1. PICK w \in Free :
        /\ tab' = tab \cup {w}
        /\ wk' = [wk EXCEPT ![w] = NewWorker("clip", s, src[s], "live")]
        /\ UNCHANGED <<kept, sources, cutting, closing, vw, world>>
  BY DEF StartClip
<1> DEFINE n == NewWorker("clip", s, src[s], "live")
<1>2. /\ wk \in [Slots -> WorkerType] /\ tab \subseteq Slots /\ w \in Slots /\ src[s] \in Nat
      /\ "clip" \in Kinds
  BY WorldsAssumption DEF IInv, Typed, Free, WorldType, Kinds
<1>3. n \in WorkerType /\ n.kind = "clip"
  BY <1>2, NewWorkerType DEF IInv
<1> HIDE DEF n
<1>4. /\ wk' \in [Slots -> WorkerType] /\ tab' \subseteq Slots
      /\ \A x \in tab' : wk'[x] = IF x = w THEN n ELSE wk[x]
  BY <1>1, <1>2, <1>3 DEF n
<1>5. Typed'
  BY <1>1, <1>4, ViewsStay, RestTyped DEF IInv
<1>6. Announced' /\ ReadInOrder'
  BY <1>1, ViewsStay, ReadStays DEF IInv
<1>7. Current'
  BY <1>1, <1>3, <1>4 DEF IInv, Current, sources
<1> QED
  BY <1>5, <1>6, <1>7 DEF IInv

LEMMA SwitchKeeps == ASSUME IInv, NEW s \in Streams, Switch(s) PROVE IInv'
<1>1. /\ src' = [src EXCEPT ![s] = @ + 1] /\ pending' = [pending EXCEPT ![s] = @ + 1]
      /\ UNCHANGED <<wk, tab, gens, vw, world>>
  BY DEF Switch
<1>2. /\ gens \in [Streams -> Nat] /\ src \in [Streams -> Nat] /\ pending \in [Streams -> Nat]
      /\ \A w \in tab : wk[w] \in WorkerType
      /\ \A v \in Viewers : vw[v] \in ViewType
  BY DEF IInv, Typed
<1>3. /\ src' \in [Streams -> Nat] /\ pending' \in [Streams -> Nat]
      /\ \A x \in Streams : src[x] <= src'[x]
  BY <1>1, <1>2
<1>4. Typed'
  BY <1>1, <1>3 DEF IInv, Typed
<1>5. Announced'
  BY <1>1, <1>2 DEF IInv, Announced
<1>6. ReadInOrder'
  BY <1>1, <1>2, <1>3 DEF IInv, ReadInOrder, ViewType
<1>7. Current'
  BY <1>1, <1>2, <1>3 DEF IInv, Current, WorkerType
<1> QED
  BY <1>4, <1>5, <1>6, <1>7 DEF IInv

\* manager.go: the workers of the stream leave with its generation.
LEMMA InvalidateStreamKeeps ==
  ASSUME IInv, NEW s \in Streams, InvalidateStream(s) PROVE IInv'
<1>1. /\ gens' = [gens EXCEPT ![s] = @ + 1] /\ pending' = [pending EXCEPT ![s] = @ - 1]
      /\ pending[s] > 0
      /\ tab' = tab \ {w \in tab : wk[w].stream = s /\ wk[w].kind # "clip"}
      /\ UNCHANGED <<wk, src, vw, world>>
  BY DEF InvalidateStream
<1>2. /\ gens \in [Streams -> Nat] /\ src \in [Streams -> Nat] /\ pending \in [Streams -> Nat]
      /\ \A w \in tab : wk[w] \in WorkerType
      /\ \A v \in Viewers : vw[v] \in ViewType
  BY DEF IInv, Typed
<1>3. /\ gens' \in [Streams -> Nat] /\ pending' \in [Streams -> Nat]
      /\ \A x \in Streams : gens[x] <= gens'[x] /\ (x # s => gens'[x] = gens[x])
  BY <1>1, <1>2
<1>4. Typed'
  BY <1>1, <1>3 DEF IInv, Typed
<1>5. Announced'
  BY <1>1, <1>2 DEF IInv, Announced
<1>6. ReadInOrder'
  BY <1>1, <1>2, <1>3 DEF IInv, ReadInOrder, ViewType
<1>7. Current'
  BY <1>1, <1>2, <1>3 DEF IInv, Current, WorkerType
<1> QED
  BY <1>4, <1>5, <1>6, <1>7 DEF IInv

LEMMA StopIntercomSessionsKeeps ==
  ASSUME IInv, NEW s \in Streams, StopIntercomSessions(s) PROVE IInv'
<1>1. UNCHANGED <<wk, sources, vw, world>> /\ tab' \subseteq tab
  BY DEF StopIntercomSessions
<1>2. wk' \in [Slots -> WorkerType] /\ Keeps(tab') /\ tab' \subseteq Slots
  BY <1>1 DEF IInv, Typed, Keeps, SameAs
<1> QED
  BY <1>1, <1>2, ViewsStay, RestTyped, FrameStep DEF IInv

LEMMA CloseKeeps == ASSUME IInv, Close PROVE IInv'
<1>1. UNCHANGED <<tab, sources, vw, world>> /\ wk' = [w \in Slots |-> Cancel(wk[w])]
  BY DEF Close
<1>2. \A w \in Slots : Cancel(wk[w]) \in WorkerType /\ SameAs(Cancel(wk[w]), wk[w])
  BY CancelType DEF IInv, Typed
<1>3. wk' \in [Slots -> WorkerType] /\ Keeps(tab') /\ tab' \subseteq Slots
  BY <1>1, <1>2 DEF IInv, Typed, Keeps
<1> QED
  BY <1>1, <1>3, ViewsStay, RestTyped, FrameStep DEF IInv

LEMMA UnwatchedKeeps == ASSUME IInv, UNCHANGED <<wk, tab, sources, vw, world>> PROVE IInv'
BY TableStays, ViewsStay, RestTyped, FrameStep DEF IInv

-----------------------------------------------------------------------------
(* The theorem. *)

LEMMA IInvHolds == Init => IInv
<1> SUFFICES ASSUME Init PROVE IInv
  OBVIOUS
<1>1. NoView.pc = "idle"
  BY DEF NoView
<1>2. Typed
  BY <1>1, BlankType, NoViewType DEF Init, Typed
<1>3. Announced /\ Current
  BY DEF Init, Announced, Current
<1>4. ReadInOrder
  BY <1>1 DEF Init, ReadInOrder
<1> QED
  BY <1>2, <1>3, <1>4 DEF IInv

LEMMA RequestKeeps == ASSUME IInv, NEW v \in Viewers, Request(v) PROVE IInv'
<1>1. CASE Resolve(v) \/ Refuse(v)
  BY <1>1, ResolveKeeps, RefuseKeeps
<1>2. CASE OpenMJPEG(v) \/ OpenHLS(v) \/ OpenDASH(v) \/ OpenWebRTC(v)
  BY <1>2, OpenMJPEGKeeps, OpenHLSKeeps, OpenDASHKeeps, OpenWebRTCKeeps
<1>3. CASE AddSubscriber(v) \/ Ready(v)
  BY <1>3, AddSubscriberKeeps, ReadyKeeps
<1>4. CASE GiveUp(v)
  BY <1>4, RemoveSubscriberKeeps DEF GiveUp, Held
<1>5. CASE Served(v) \/ NotServed(v) \/ Answer(v) \/ OfferFails(v)
  BY <1>5, ServedKeeps, NotServedKeeps, AnswerKeeps, OfferFailsKeeps
<1> QED
  BY <1>1, <1>2, <1>3, <1>4, <1>5 DEF Request

LEMMA RunKeeps == ASSUME IInv, NEW w \in Slots, Run(w) PROVE IInv'
BY PrepareKeeps, KilledKeeps, CloseSubscribersKeeps, RemoveWorkerKeeps, SweepKeeps,
   CancelSessionKeeps, RetainKeeps DEF Run

LEMMA KeeperKeeps == ASSUME IInv, NEW w \in Slots, Keeper(w) PROVE IInv'
BY KeeperUnlistsKeeps, KeeperSweepsKeeps, KeeperReleasesKeeps DEF Keeper

LEMMA IInvNext == ASSUME IInv, [Next]_vars PROVE IInv'
<1>1. ASSUME NEW v \in Viewers, NEW k \in Kinds, NEW s \in Streams, Ask(v, k, s) PROVE IInv'
  BY <1>1, AskKeeps
<1>2. ASSUME NEW v \in Viewers, Request(v) \/ Leave(v) PROVE IInv'
  BY <1>2, RequestKeeps, RemoveSubscriberKeeps DEF Leave, Held
<1>3. ASSUME NEW w \in Slots,
             Run(w) \/ Keeper(w) \/ Elapses(w) \/ IdleTimer(w) \/ Ages(w) \/ Tick(w)
      PROVE IInv'
  BY <1>3, RunKeeps, KeeperKeeps, ElapsesKeeps, IdleTimerKeeps, AgesKeeps, TickKeeps
<1>4. ASSUME NEW w \in Slots,
             \/ Produces(w) \/ Retries(w) \/ Fails(w) \/ Completes(w) \/ PeerGone(w)
             \/ CutNext(w)
      PROVE IInv'
  BY <1>4, ProducesKeeps, RetriesKeeps, FailsKeeps, CompletesKeeps, PeerGoneKeeps, CutNextKeeps
<1>5. ASSUME NEW s \in Streams,
             StartClip(s) \/ Switch(s) \/ InvalidateStream(s) \/ StopIntercomSessions(s)
      PROVE IInv'
  BY <1>5, StartClipKeeps, SwitchKeeps, InvalidateStreamKeeps, StopIntercomSessionsKeeps
<1>6. CASE Close
  BY <1>6, CloseKeeps
<1>7. CASE CloseJoins \/ UNCHANGED vars
  BY <1>7, UnwatchedKeeps DEF CloseJoins, vars, sources
<1> QED
  BY <1>1, <1>2, <1>3, <1>4, <1>5, <1>6, <1>7 DEF Next

\* InvalidateStream leaves nothing behind that reads the old source, and no request
\* that resolved before it registers a worker after it (resolveStream, the
\* getOrCreate functions, WebRTCAnswer).
THEOREM NoStaleInputHolds == Spec => []NoStaleInput
<1>1. IInv => NoStaleInput
  <2> SUFFICES ASSUME IInv, NEW w \in tab, wk[w].kind # "clip", pending[wk[w].stream] = 0
               PROVE  wk[w].input = src[wk[w].stream]
    BY DEF NoStaleInput
  <2> DEFINE s == wk[w].stream
  <2>1. /\ s \in Streams /\ wk[w].input \in Nat
        /\ gens[s] \in Nat /\ src[s] \in Nat /\ pending[s] \in Nat
    BY DEF IInv, Typed, WorkerType
  <2>2. gens[s] <= wk[w].input /\ wk[w].input <= src[s] /\ src[s] = gens[s] + pending[s]
    BY <2>1 DEF IInv, Current, Announced
  <2> QED
    BY <2>1, <2>2
<1> QED
  BY <1>1, IInvHolds, IInvNext, PTL DEF Spec

-----------------------------------------------------------------------------
(* The second invariant: what becomes of a worker and of its output.  A worker *)
(* that has ended is cancelled and has no timer; only a cleanup task keeps its *)
(* directory after that, and its table entry no longer than its place among    *)
(* the finished outputs.                                                       *)

\* One worker by itself.
Fit(r) ==
    /\ r.pc = "done" => r.cancelled /\ r.timers = {} /\ ~r.ticking
    /\ r.keeper # "none" => r.completed
    /\ r.completed => r.pc = "done"
    /\ r.ticking \/ r.dir # "none" \/ r.pc = "spawned" => r.kind \in Files
    /\ r.pc = "retaining" \/ (r.pc = "live" /\ r.kind \in Files) \/ r.keeper = "kept" =>
         r.dir = "made"
    /\ r.dir = "made" /\ r.pc = "done" => r.keeper \in {"kept", "sweep"}
    /\ r.pc = "offer" => r.kind = "webrtc"
    /\ \A t \in r.timers : t.window = "this" => t.whole

Lives == \A w \in Slots : Fit(wk[w])

\* One that requests can find has not ended, unless its output is kept.
Findable(r) == /\ r.pc # "sweeping" /\ ~r.expired
               /\ r.pc = "done" => r.keeper = "kept"

Listed == IsFiniteSet(tab) /\ \A w \in tab : Findable(wk[w])

\* One that negotiates has the request that does.
Offered ==
    \A v \in Viewers : vw[v].pc = "offering" =>
        /\ wk[vw[v].w].pc = "offer"
        /\ \A x \in Viewers : vw[x].pc = "offering" /\ vw[x].w = vw[v].w => x = v

Rested == \A v \in Viewers : vw[v].w # None => vw[v].pc \in Held

\* The finished outputs have cleanup tasks, one output to a key.
Queued ==
    /\ kept \in Seq(Slots)
    /\ \A i \in DOMAIN kept : wk[kept[i]].keeper # "none"
    /\ \A i, j \in DOMAIN kept : SameKey(kept[i], kept[j]) => i = j

\* Nothing stirs once Close has joined.
Over == /\ closing \in {"open", "cancelled", "joined"} /\ cutting \subseteq Slots
        /\ closing = "joined" =>
             /\ \A w \in Slots : Quiet(wk[w])
             /\ \A v \in Viewers : vw[v].pc # "offering"

Tidy == Lives /\ Listed /\ Offered /\ Rested /\ Queued /\ WithinLimits /\ Over

-----------------------------------------------------------------------------
(* What the steps may make of a worker. *)

Follows(r, q) ==
    /\ Fit(r) /\ SameAs(r, q)
    /\ q.completed => r.completed
    /\ r.keeper = "none" <=> q.keeper = "none"
    /\ r.keeper = "kept" /\ ~r.expired => q.keeper = "kept" /\ ~q.expired
    /\ Quiet(q) => Quiet(r)

LEMMA SameFollows == ASSUME NEW q, Fit(q) PROVE Follows(q, q)
  BY DEF Follows, SameAs

\* A context that ends, and the last steps of a worker's goroutine.
LEMMA CancelFollows ==
  ASSUME NEW q \in WorkerType, Fit(q)
  PROVE  /\ Follows(Cancel(q), q)
         /\ q.pc # "done" => Follows([Cancel(q) EXCEPT !.pc = "unlisting"], q)
         /\ q.pc # "done" /\ q.dir # "made" => Follows([Cancel(q) EXCEPT !.pc = "done"], q)
         /\ q.pc = "sweeping" => \A d \in Removals(q) :
              Follows([Cancel(q) EXCEPT !.pc = "done", !.dir = d], q)
<1>1. Follows(Cancel(q), q)
  BY DEF Follows, SameAs, Fit, Cancel, Quiet, WorkerType
<1>2. ASSUME q.pc # "done" PROVE Follows([Cancel(q) EXCEPT !.pc = "unlisting"], q)
  BY <1>2 DEF Follows, SameAs, Fit, Cancel, Quiet, WorkerType
<1>3. ASSUME q.pc # "done", q.dir # "made" PROVE Follows([Cancel(q) EXCEPT !.pc = "done"], q)
  BY <1>3 DEF Follows, SameAs, Fit, Cancel, Quiet, WorkerType
<1>4. ASSUME q.pc = "sweeping", NEW d \in Removals(q)
      PROVE  Follows([Cancel(q) EXCEPT !.pc = "done", !.dir = d], q)
  <2>1. d # "made" /\ (d # "none" => q.dir # "none")
    BY RemovalsLeave
  <2> QED
    BY <1>4, <2>1 DEF Follows, SameAs, Fit, Cancel, Quiet, WorkerType
<1>5. q.pc = "sweeping" => \A d \in Removals(q) :
        Follows([Cancel(q) EXCEPT !.pc = "done", !.dir = d], q)
  BY <1>4, Zenon
<1> QED
  BY <1>1, <1>2, <1>3, <1>5, Zenon

\* The goroutine goes on, or begins its deferred calls.
LEMMA RunFollows ==
  ASSUME NEW q \in WorkerType, Fit(q)
  PROVE  /\ q.pc = "live" => Follows([q EXCEPT !.pc = Ending(q.kind)], q)
         /\ q.pc = "live" =>
              Follows([q EXCEPT !.pc = Ending(q.kind), !.failed = (q.kind \in Files)], q)
         /\ q.pc = "live" /\ q.kind \in Files => Follows([q EXCEPT !.pc = "retaining"], q)
         /\ q.pc = "spawned" =>
              Follows([q EXCEPT !.pc = "live", !.dir = "made", !.ticking = TRUE], q)
         /\ q.pc = "spawned" => Follows([q EXCEPT !.pc = "unlisting", !.failed = TRUE], q)
         /\ q.pc = "closing" =>
              Follows([q EXCEPT !.pc = "unlisting", !.subs = {}, !.shut = TRUE], q)
         /\ q.pc = "unlisting" => Follows([q EXCEPT !.pc = "sweeping"], q)
         /\ q.pc = "offer" => Follows([q EXCEPT !.pc = "live"], q)
         /\ q.pc = "offer" => Follows([q EXCEPT !.pc = "cancelling"], q)
<1> USE DEF Follows, SameAs, Fit, Quiet, WorkerType
<1>1. Ending(q.kind) \in {"closing", "cancelling", "unlisting"}
  BY DEF Ending
<1>2. ASSUME q.pc = "live", NEW pc, pc \in {"closing", "cancelling", "unlisting"}
      PROVE  /\ Follows([q EXCEPT !.pc = pc], q)
             /\ Follows([q EXCEPT !.pc = pc, !.failed = (q.kind \in Files)], q)
  BY <1>2
<1>3. ASSUME q.pc = "live", q.kind \in Files PROVE Follows([q EXCEPT !.pc = "retaining"], q)
  BY <1>3
<1>4. ASSUME q.pc = "spawned"
      PROVE  Follows([q EXCEPT !.pc = "live", !.dir = "made", !.ticking = TRUE], q)
  BY <1>4
<1>5. ASSUME q.pc = "spawned" PROVE Follows([q EXCEPT !.pc = "unlisting", !.failed = TRUE], q)
  BY <1>5
<1>6. ASSUME q.pc = "closing"
      PROVE  Follows([q EXCEPT !.pc = "unlisting", !.subs = {}, !.shut = TRUE], q)
  BY <1>6
<1>7. ASSUME q.pc = "unlisting" PROVE Follows([q EXCEPT !.pc = "sweeping"], q)
  BY <1>7
<1>8. ASSUME q.pc = "offer"
      PROVE  Follows([q EXCEPT !.pc = "live"], q) /\ Follows([q EXCEPT !.pc = "cancelling"], q)
  BY <1>8 DEF Files
<1> HIDE DEF Follows, SameAs, Fit, Quiet, WorkerType
<1> QED
  BY <1>1, <1>2, <1>3, <1>4, <1>5, <1>6, <1>7, <1>8

\* What others note in it.
LEMMA NoteFollows ==
  ASSUME NEW q \in WorkerType, Fit(q)
  PROVE  /\ Follows([q EXCEPT !.aged = TRUE], q) /\ Follows([q EXCEPT !.aged = FALSE], q)
         /\ Follows([q EXCEPT !.produced = TRUE], q)
         /\ Follows([q EXCEPT !.left = @ - 1], q)
         /\ \A S : Follows([q EXCEPT !.subs = S], q)
         /\ \A S, T : (\A t \in T : t.window = "this" => t.whole) /\ (q.pc = "done" => T = {}) =>
              Follows([q EXCEPT !.subs = S, !.timers = T], q)
         /\ q.keeper = "kept" => Follows([q EXCEPT !.keeper = "sweep"], q)
         /\ q.keeper = "sweep" => \A d \in Removals(q) :
              Follows([q EXCEPT !.keeper = "release", !.dir = d], q)
<1> USE DEF Follows, SameAs, Fit, Quiet, WorkerType
<1>1. /\ Follows([q EXCEPT !.aged = TRUE], q) /\ Follows([q EXCEPT !.aged = FALSE], q)
      /\ Follows([q EXCEPT !.produced = TRUE], q) /\ Follows([q EXCEPT !.left = @ - 1], q)
  OBVIOUS
<1>2. ASSUME NEW S PROVE Follows([q EXCEPT !.subs = S], q)
  OBVIOUS
<1>3. ASSUME NEW S, NEW T, \A t \in T : t.window = "this" => t.whole, q.pc = "done" => T = {}
      PROVE  Follows([q EXCEPT !.subs = S, !.timers = T], q)
  BY <1>3
<1>4. ASSUME q.keeper = "kept" PROVE Follows([q EXCEPT !.keeper = "sweep"], q)
  BY <1>4
<1>5. ASSUME q.keeper = "sweep", NEW d \in Removals(q)
      PROVE  Follows([q EXCEPT !.keeper = "release", !.dir = d], q)
  <2>1. d # "made" /\ (d # "none" => q.dir # "none")
    BY RemovalsLeave
  <2> QED
    BY <1>5, <2>1
<1> HIDE DEF Follows, SameAs, Fit, Quiet, WorkerType
<1>6. q.keeper = "sweep" => \A d \in Removals(q) :
        Follows([q EXCEPT !.keeper = "release", !.dir = d], q)
  BY <1>5, Zenon
<1> QED
  BY <1>1, <1>2, <1>3, <1>4, <1>6, Zenon

-----------------------------------------------------------------------------
(* A step that starts no worker and keeps no output. *)

\* A slot goes on with its worker, or is collected when nothing of that is left.
Moves(x) ==
    \/ Follows(wk'[x], wk[x]) /\ (x \in tab' => Findable(wk'[x]))
    \/ wk'[x] = Blank /\ x \notin tab' /\ wk[x].keeper = "none" /\ wk[x].pc # "offer"

LEMMA BlankFits == Fit(Blank) /\ Quiet(Blank) /\ Blank.keeper = "none" /\ ~Blank.completed
  BY DEF Blank, Fit, Quiet, Files

LEMMA StillMoves ==
  ASSUME Tidy, UNCHANGED wk, tab' \subseteq tab, tab \subseteq Slots PROVE \A x \in Slots : Moves(x)
  BY SameFollows DEF Tidy, Lives, Listed, Moves

\* What the collector may take.
LEMMA CollectedMoves ==
  ASSUME Tidy, tab' \subseteq tab, NEW f, wk' = Collected(f),
         \A x \in Slots : Follows(f[x], wk[x]) /\ (x \in tab' => Findable(f[x])) /\
                          (wk[x].pc = "offer" => f[x].pc = "offer")
  PROVE  \A x \in Slots : Moves(x) /\ (wk[x].pc = "offer" => wk'[x].pc = "offer")
<1> SUFFICES ASSUME NEW x \in Slots
             PROVE  Moves(x) /\ (wk[x].pc = "offer" => wk'[x].pc = "offer")
  OBVIOUS
<1>1. CASE wk'[x] = f[x]
  BY <1>1 DEF Moves
<1>2. CASE wk'[x] = Blank /\ Quiet(f[x]) /\ x \notin tab'
  BY <1>2 DEF Moves, Quiet, Follows
<1> QED
  BY <1>1, <1>2 DEF Collected

\* One worker changes.
LEMMA EditMoves ==
  ASSUME Tidy, wk \in [Slots -> WorkerType], tab' \subseteq tab, NEW w \in Slots, NEW r,
         Put(w, r) \/ wk' = [wk EXCEPT ![w] = r],
         Follows(r, wk[w]), w \in tab' => Findable(r), wk[w].pc = "offer" => r.pc = "offer"
  PROVE  \A x \in Slots : Moves(x) /\ (wk[x].pc = "offer" => wk'[x].pc = "offer")
<1> DEFINE f == [wk EXCEPT ![w] = r]
<1>1. \A x \in Slots : f[x] = IF x = w THEN r ELSE wk[x]
  OBVIOUS
<1>2. wk' = f \/ wk' = Collected(f)
  BY DEF Put
<1> HIDE DEF f
<1>3. \A x \in Slots : Follows(f[x], wk[x]) /\ (x \in tab' => Findable(f[x])) /\
                       (wk[x].pc = "offer" => f[x].pc = "offer")
  BY <1>1, SameFollows DEF Tidy, Lives, Listed
<1>4. CASE wk' = f
  BY <1>3, <1>4 DEF Moves
<1>5. CASE wk' = Collected(f)
  BY <1>3, <1>5, CollectedMoves
<1> QED
  BY <1>2, <1>4, <1>5

\* A set of workers that only shrinks or completes has no more running ones.
LEMMA FewerActive ==
  ASSUME NEW T, IsFiniteSet(T), NEW f, NEW n \in Nat, Among(T) <= n,
         NEW U, U \subseteq T, \A x \in U : wk[x].completed => f[x].completed
  PROVE  Cardinality({x \in U : ~f[x].completed}) <= n
<1> DEFINE A == {x \in T : ~wk[x].completed}
           B == {x \in U : ~f[x].completed}
<1>1. IsFiniteSet(A) /\ B \in SUBSET A
  BY FS_Subset
<1>2. IsFiniteSet(B) /\ Cardinality(B) <= Cardinality(A)
  BY <1>1, FS_Subset
<1>3. Cardinality(A) \in Nat /\ Cardinality(B) \in Nat /\ Cardinality(A) <= n
  BY <1>1, <1>2, FS_CardinalityType DEF Among
<1> QED
  BY <1>2, <1>3

LEMMA LimitType == ASSUME IInv PROVE world.limit \in Nat /\ world.limit > 0
  BY WorldsAssumption DEF IInv, Typed, WorldType

LEMMA TidyStep ==
  ASSUME IInv, IInv', Tidy, \A x \in Slots : Moves(x), tab' \subseteq tab,
         UNCHANGED <<kept, world>>, Offered', Rested',
         cutting' \subseteq Slots, closing' \in {closing, "cancelled"},
         closing = "joined" => \A v \in Viewers : vw'[v].pc # "offering"
  PROVE  Tidy'
<1>1. wk \in [Slots -> WorkerType] /\ tab \subseteq Slots /\ tab' \subseteq Slots
  BY DEF IInv, Typed
<1>2. Lives'
  BY BlankFits DEF Lives, Moves, Follows
<1>3. Listed'
  <2>1. IsFiniteSet(tab')
    BY FS_Subset DEF Tidy, Listed
  <2> QED
    BY <1>1, <2>1 DEF Listed, Moves
<1>4. Queued'
  <2>1. ASSUME NEW i \in DOMAIN kept
        PROVE  /\ kept[i] \in Slots /\ wk'[kept[i]].keeper # "none"
               /\ SameAs(wk'[kept[i]], wk[kept[i]])
    <3>1. kept[i] \in Slots /\ wk[kept[i]].keeper # "none"
      BY ElementOfSeq DEF Tidy, Queued
    <3>2. wk'[kept[i]].keeper # "none"
      BY <3>1 DEF Moves, Follows
    <3> QED
      BY <3>1, <3>2 DEF Moves, Follows
  <2> QED
    BY <2>1 DEF Tidy, Queued, SameKey, SameAs
<1>5. WithinLimits'
  <2>1. Active' <= world'.limit
    <3>1. \A x \in tab' : wk[x].completed => wk'[x].completed
      BY <1>1 DEF Moves, Follows
    <3>2. Cardinality({x \in tab' : ~wk'[x].completed}) <= world.limit
      BY <3>1, LimitType, FewerActive DEF Tidy, Listed, WithinLimits, Active
    <3> QED
      BY <3>2 DEF Active, Among
  <2>2. ASSUME NEW x \in Slots, wk'[x].keeper = "kept", ~wk'[x].expired
        PROVE  \E i \in DOMAIN kept : kept[i] = x
    BY <2>2, BlankFits DEF Moves, Follows, Tidy, WithinLimits
  <2> QED
    BY <2>1, <2>2 DEF Tidy, WithinLimits
<1>6. Over'
  <2>1. ASSUME closing = "joined", NEW x \in Slots PROVE Quiet(wk'[x])
    BY <2>1, BlankFits DEF Tidy, Over, Moves, Follows
  <2> QED
    BY <2>1 DEF Tidy, Over
<1> QED
  BY <1>2, <1>3, <1>4, <1>5, <1>6 DEF Tidy

\* Requests that negotiate stay as they are, the others end or go on.
ViewsMove == \A v \in Viewers : \/ vw'[v] = vw[v]
                                \/ vw'[v].pc # "offering" /\ (vw'[v].w # None => vw'[v].pc \in Held)

LEMMA ViewTidy ==
  ASSUME IInv, IInv', Tidy, ViewsMove, tab' \subseteq tab, UNCHANGED <<kept, closing, world>>,
         cutting' \subseteq cutting,
         \A x \in Slots : Moves(x) /\ (wk[x].pc = "offer" => wk'[x].pc = "offer")
  PROVE  Tidy'
<1>1. \A v \in Viewers : vw[v].pc = "offering" => vw[v].w \in Slots
  BY HeldSlot DEF Held
<1>2. Offered' /\ Rested'
  BY <1>1 DEF Tidy, Offered, Rested, ViewsMove
<1> QED
  BY <1>2, TidyStep DEF Tidy, Over, ViewsMove

LEMMA WorkerTidy ==
  ASSUME IInv, IInv', Tidy, NEW w \in Slots, NEW r,
         Put(w, r) \/ wk' = [wk EXCEPT ![w] = r],
         Follows(r, wk[w]), w \in tab' => Findable(r), wk[w].pc = "offer" => r.pc = "offer",
         tab' \subseteq tab, UNCHANGED <<kept, closing, world>>, cutting' \subseteq cutting,
         ViewsMove
  PROVE  Tidy'
<1>1. wk \in [Slots -> WorkerType]
  BY DEF IInv, Typed
<1> QED
  BY <1>1, EditMoves, ViewTidy

\* What is known of a worker, and of one that is found.
LEMMA WorkerFacts ==
  ASSUME IInv, Tidy, NEW w \in Slots
  PROVE  /\ wk \in [Slots -> WorkerType] /\ wk[w] \in WorkerType /\ Fit(wk[w])
         /\ w \in tab => Findable(wk[w])
  BY DEF IInv, Typed, Tidy, Lives, Listed

LEMMA RunTidy ==
  ASSUME IInv, IInv', Tidy, NEW w \in Slots,
         \/ Prepare(w) \/ Killed(w) \/ CloseSubscribers(w) \/ RemoveWorker(w) \/ Sweep(w)
         \/ CancelSession(w)
  PROVE  Tidy'
<1> DEFINE q == wk[w]
<1>0. /\ wk \in [Slots -> WorkerType] /\ q \in WorkerType /\ Fit(q)
      /\ w \in tab => Findable(q)
  BY WorkerFacts
<1>1. /\ UNCHANGED <<kept, closing, world>> /\ cutting' \subseteq cutting /\ tab' \subseteq tab
      /\ ViewsMove
  BY DEF Prepare, Killed, CloseSubscribers, RemoveWorker, Sweep, CancelSession, ViewsMove
<1>2. CASE Prepare(w)
  <2>1. PICK r \in {[q EXCEPT !.pc = "live", !.dir = "made", !.ticking = TRUE],
                    [q EXCEPT !.pc = "unlisting", !.failed = TRUE]} :
          wk' = [wk EXCEPT ![w] = r]
    BY <1>2 DEF Prepare
  <2>2. Follows(r, q) /\ r.pc \in {"live", "unlisting"} /\ r.expired = q.expired
    BY <1>0, <1>2, RunFollows DEF Prepare, WorkerType
  <2> QED
    BY <1>0, <1>1, <1>2, <2>1, <2>2, WorkerTidy DEF Prepare, Findable
<1>3. CASE Killed(w)
  <2> DEFINE r == [q EXCEPT !.pc = Ending(q.kind)]
  <2>1. Follows(r, q) /\ r.pc \in {"closing", "cancelling", "unlisting"} /\ r.expired = q.expired
    BY <1>0, <1>3, RunFollows DEF Killed, WorkerType, Ending
  <2>2. wk' = [wk EXCEPT ![w] = r] /\ q.pc = "live"
    BY <1>3 DEF Killed
  <2> HIDE DEF r
  <2> QED
    BY <1>0, <1>1, <2>1, <2>2, WorkerTidy DEF Findable
<1>4. CASE CloseSubscribers(w)
  <2> DEFINE r == [q EXCEPT !.pc = "unlisting", !.subs = {}, !.shut = TRUE]
  <2>1. Follows(r, q) /\ r.pc = "unlisting" /\ r.expired = q.expired
    BY <1>0, <1>4, RunFollows DEF CloseSubscribers, WorkerType
  <2>2. wk' = [wk EXCEPT ![w] = r] /\ q.pc = "closing"
    BY <1>4 DEF CloseSubscribers
  <2> HIDE DEF r
  <2> QED
    BY <1>0, <1>1, <2>1, <2>2, WorkerTidy DEF Findable
<1>5. CASE CancelSession(w)
  <2> DEFINE r == [Cancel(q) EXCEPT !.pc = "unlisting"]
  <2>1. Follows(r, q) /\ r.pc = "unlisting" /\ r.expired = q.expired
    BY <1>0, <1>5, CancelFollows DEF CancelSession, WorkerType, Cancel
  <2>2. wk' = [wk EXCEPT ![w] = r] /\ q.pc = "cancelling"
    BY <1>5 DEF CancelSession
  <2> HIDE DEF r
  <2> QED
    BY <1>0, <1>1, <2>1, <2>2, WorkerTidy DEF Findable
<1>6. CASE RemoveWorker(w)
  <2>1. q.pc = "unlisting" /\ w \notin tab'
    BY <1>6 DEF RemoveWorker
  <2>2. CASE q.kind \in Files
    <3>1. Follows([q EXCEPT !.pc = "sweeping"], q) /\ Put(w, [q EXCEPT !.pc = "sweeping"])
      BY <1>0, <1>6, <2>1, <2>2, RunFollows DEF RemoveWorker
    <3> QED
      BY <1>1, <2>1, <3>1, WorkerTidy
  <2>3. CASE q.kind \notin Files
    <3>1. q.dir # "made"
      BY <1>0, <2>3 DEF Fit
    <3>2. /\ Follows([Cancel(q) EXCEPT !.pc = "done"], q)
          /\ Put(w, [Cancel(q) EXCEPT !.pc = "done"])
      BY <1>0, <1>6, <2>1, <2>3, <3>1, CancelFollows DEF RemoveWorker
    <3> QED
      BY <1>1, <2>1, <3>2, WorkerTidy
  <2> QED
    BY <2>2, <2>3
<1>7. CASE Sweep(w)
  <2>0. PICK left \in Removals(q) : Put(w, [Cancel(q) EXCEPT !.pc = "done", !.dir = left])
    BY <1>7 DEF Sweep
  <2> DEFINE r == [Cancel(q) EXCEPT !.pc = "done", !.dir = left]
  <2>1. Follows(r, q) /\ Put(w, r) /\ q.pc = "sweeping" /\ tab' = tab
    BY <1>0, <1>7, <2>0, CancelFollows DEF Sweep
  <2>2. w \notin tab'
    BY <1>0, <2>1 DEF Findable
  <2> HIDE DEF r
  <2> QED
    BY <1>1, <2>1, <2>2, WorkerTidy
<1> QED
  BY <1>2, <1>3, <1>4, <1>5, <1>6, <1>7

\* FFmpeg, the network, and the timers.
LEMMA EventTidy ==
  ASSUME IInv, IInv', Tidy, NEW w \in Slots,
         \/ Produces(w) \/ Retries(w) \/ Fails(w) \/ Completes(w) \/ PeerGone(w) \/ CutNext(w)
         \/ Ages(w) \/ Tick(w)
  PROVE  Tidy'
<1> DEFINE q == wk[w]
<1>0. /\ wk \in [Slots -> WorkerType] /\ q \in WorkerType /\ Fit(q)
      /\ w \in tab => Findable(q)
  BY WorkerFacts
<1>1. /\ UNCHANGED <<kept, closing, world>> /\ cutting' \subseteq cutting /\ tab' = tab
      /\ ViewsMove
  BY DEF Produces, Retries, Fails, Completes, PeerGone, CutNext, Ages, Tick, ViewsMove
<1>2. CASE PeerGone(w) \/ CutNext(w) \/ Tick(w)
  <2> DEFINE r == Cancel(q)
  <2>1. /\ Follows(r, q)
        /\ r.pc = q.pc /\ r.expired = q.expired /\ r.keeper = q.keeper
    BY <1>0, CancelFollows DEF Cancel, WorkerType
  <2>2. Put(w, r) \/ wk' = [wk EXCEPT ![w] = r]
    BY <1>2 DEF PeerGone, CutNext, Tick
  <2> HIDE DEF r
  <2> QED
    BY <1>0, <1>1, <2>1, <2>2, WorkerTidy DEF Findable
<1>3. CASE Produces(w) \/ Retries(w) \/ Ages(w)
  <2>1. PICK r \in {[q EXCEPT !.produced = TRUE], [q EXCEPT !.left = @ - 1], [q EXCEPT !.aged = TRUE]} :
          wk' = [wk EXCEPT ![w] = r]
    BY <1>3 DEF Produces, Retries, Ages
  <2>2. /\ Follows(r, q)
        /\ r.pc = q.pc /\ r.expired = q.expired /\ r.keeper = q.keeper
    BY <1>0, NoteFollows DEF WorkerType
  <2> QED
    BY <1>0, <1>1, <2>1, <2>2, WorkerTidy DEF Findable
<1>4. CASE Fails(w) \/ Completes(w)
  <2>1. PICK r \in {[q EXCEPT !.pc = Ending(q.kind), !.failed = (q.kind \in Files)],
                    [q EXCEPT !.pc = Ending(q.kind)],
                    [q EXCEPT !.pc = IF q.kind \in Files THEN "retaining" ELSE Ending(q.kind)]} :
          wk' = [wk EXCEPT ![w] = r]
    BY <1>4 DEF Fails, Completes
  <2>2. q.pc = "live"
    BY <1>4 DEF Fails, Completes
  <2>3. Follows(r, q)
    BY <1>0, <2>2, RunFollows
  <2>4. r.pc \in {"closing", "cancelling", "unlisting", "retaining"} /\ r.expired = q.expired
    BY <1>0 DEF Ending, WorkerType
  <2> QED
    BY <1>0, <1>1, <2>1, <2>2, <2>3, <2>4, WorkerTidy DEF Findable
<1> QED
  BY <1>2, <1>3, <1>4

\* The timers of an MJPEG worker.
LEMMA TimerTidy ==
  ASSUME IInv, IInv', Tidy, NEW w \in Slots, Elapses(w) \/ IdleTimer(w)
  PROVE  Tidy'
<1> DEFINE q == wk[w]
<1>0. /\ wk \in [Slots -> WorkerType] /\ q \in WorkerType /\ Fit(q)
      /\ w \in tab => Findable(q)
  BY WorkerFacts
<1>1. /\ UNCHANGED <<kept, closing, world>> /\ cutting' \subseteq cutting /\ tab' = tab
      /\ ViewsMove
  BY DEF Elapses, IdleTimer, ViewsMove
<1>2. q.timers # {} /\ \A t \in q.timers :
        t \in [window : {"this", "past"}, due : BOOLEAN, whole : BOOLEAN] /\
        (t.window = "this" => t.whole)
  BY <1>0 DEF Elapses, IdleTimer, WorkerType, Fit
<1>3. q.pc # "done"
  BY <1>0, <1>2 DEF Fit
<1>4. CASE Elapses(w)
  <2>1. PICK t \in q.timers :
          wk' = [wk EXCEPT ![w].timers = (q.timers \ {t}) \cup {[t EXCEPT !.due = TRUE]}]
    BY <1>0, <1>4 DEF Elapses
  <2> DEFINE u == [t EXCEPT !.due = TRUE]
             T == (q.timers \ {t}) \cup {u}
             r == [q EXCEPT !.subs = q.subs, !.timers = T]
  <2>2. u.window = t.window /\ u.whole = t.whole
    BY <1>2
  <2>3. \A x \in T : x.window = "this" => x.whole
    BY <1>2, <2>2
  <2> HIDE DEF T
  <2>4. Follows(r, q)
    BY <1>0, <1>3, <2>3, NoteFollows
  <2>5. /\ r = [q EXCEPT !.timers = T] /\ wk' = [wk EXCEPT ![w] = r]
        /\ r.pc = q.pc /\ r.expired = q.expired /\ r.keeper = q.keeper
    BY <1>0, <2>1 DEF WorkerType, T
  <2> HIDE DEF r
  <2> QED
    BY <1>0, <1>1, <2>4, <2>5, WorkerTidy DEF Findable
<1>5. CASE IdleTimer(w)
  <2>1. PICK t \in q.timers :
          LET r == [q EXCEPT !.timers = q.timers \ {t}]
          IN  Put(w, r) \/ Put(w, Cancel(r))
    BY <1>5 DEF IdleTimer
  <2> DEFINE r == [q EXCEPT !.subs = q.subs, !.timers = q.timers \ {t}]
  <2>2. Follows(r, q)
    BY <1>0, <1>2, <1>3, NoteFollows
  <2>3. /\ r \in WorkerType /\ r = [q EXCEPT !.timers = q.timers \ {t}]
        /\ r.pc = q.pc /\ r.expired = q.expired /\ r.keeper = q.keeper
    BY <1>0 DEF WorkerType
  <2> HIDE DEF r
  <2>4. Follows(Cancel(r), r)
    BY <2>2, <2>3, CancelFollows DEF Follows
  <2>5. Cancel(r).pc = q.pc /\ Cancel(r).expired = q.expired /\ Cancel(r).keeper = q.keeper
    BY <2>3 DEF Cancel, WorkerType
  <2>6. Follows(Cancel(r), q)
    BY <2>2, <2>4 DEF Follows, SameAs
  <2>7. PICK y \in {r, Cancel(r)} : Put(w, y)
    BY <2>1, <2>3
  <2>8. Follows(y, q) /\ y.pc = q.pc /\ y.expired = q.expired /\ y.keeper = q.keeper
    BY <2>2, <2>3, <2>5, <2>6
  <2> QED
    BY <1>0, <1>1, <2>7, <2>8, WorkerTidy DEF Findable
<1> QED
  BY <1>4, <1>5

\* The cleanup task of an output, up to the release of its place.
LEMMA KeeperTidy ==
  ASSUME IInv, IInv', Tidy, NEW w \in Slots, KeeperUnlists(w) \/ KeeperSweeps(w)
  PROVE  Tidy'
<1> DEFINE q == wk[w]
<1>0. /\ wk \in [Slots -> WorkerType] /\ q \in WorkerType /\ Fit(q)
      /\ w \in tab => Findable(q)
  BY WorkerFacts
<1>1. /\ UNCHANGED <<kept, closing, world>> /\ cutting' \subseteq cutting /\ tab' \subseteq tab
      /\ ViewsMove /\ w \notin tab'
  BY <1>0 DEF KeeperUnlists, KeeperSweeps, ViewsMove, Findable, Fit
<1>2. CASE KeeperUnlists(w)
  <2> DEFINE r == [q EXCEPT !.keeper = "sweep"]
  <2>1. Follows(r, q) /\ wk' = [wk EXCEPT ![w] = r] /\ r.pc = q.pc
    BY <1>0, <1>2, NoteFollows DEF KeeperUnlists, WorkerType
  <2> HIDE DEF r
  <2> QED
    BY <1>1, <2>1, WorkerTidy
<1>3. CASE KeeperSweeps(w)
  <2>0. PICK left \in Removals(q) :
             wk' = [wk EXCEPT ![w].keeper = "release", ![w].dir = left]
    BY <1>3 DEF KeeperSweeps
  <2> DEFINE r == [q EXCEPT !.keeper = "release", !.dir = left]
  <2>1. Follows(r, q) /\ wk' = [wk EXCEPT ![w] = r] /\ r.pc = q.pc
    BY <1>0, <1>3, <2>0, NoteFollows DEF KeeperSweeps, WorkerType
  <2> HIDE DEF r
  <2> QED
    BY <1>1, <2>1, WorkerTidy
<1> QED
  BY <1>2, <1>3

-----------------------------------------------------------------------------
(* Requests that find a worker, use one, or give up. *)

LEMMA LookTidy ==
  ASSUME IInv, IInv', Tidy, NEW v \in Viewers,
         \/ \E k \in Kinds, s \in Streams : Ask(v, k, s)
         \/ Resolve(v) \/ Refuse(v) \/ Ready(v)
  PROVE  Tidy'
<1>1. UNCHANGED <<wk, tab, kept, closing, cutting, world>>
  BY DEF Ask, Resolve, Refuse, Ready
<1>2. vw \in [Viewers -> ViewType] /\ vw[v] \in ViewType
  BY DEF IInv, Typed
<1>3. ViewsMove
  <2> USE <1>2 DEF ViewsMove, Held, ViewType
  <2>1. ASSUME NEW k \in Kinds, NEW s \in Streams, Ask(v, k, s) PROVE ViewsMove
    BY <2>1 DEF Ask, NoView
  <2>2. CASE Resolve(v)
    BY <2>2 DEF Resolve, Tidy, Rested
  <2>3. CASE Refuse(v)
    BY <2>3 DEF Refuse, NoView
  <2>4. CASE Ready(v)
    BY <2>4 DEF Ready
  <2> QED
    BY <2>1, <2>2, <2>3, <2>4
<1>4. tab \subseteq Slots
  BY DEF IInv, Typed
<1> QED
  BY <1>1, <1>3, <1>4, StillMoves, ViewTidy

\* A request that ends.
LEMMA EndsMove ==
  ASSUME IInv, NEW v \in Viewers, vw' = [vw EXCEPT ![v] = NoView]
  PROVE  ViewsMove
BY DEF IInv, Typed, ViewsMove, NoView

LEMMA ReadTidy ==
  ASSUME IInv, IInv', Tidy, NEW v \in Viewers, Served(v) \/ NotServed(v)
  PROVE  Tidy'
<1> DEFINE w == vw[v].w
           q == wk[w]
<1>1. w \in Slots
  BY HeldSlot DEF Served, NotServed, Held
<1>0. /\ wk \in [Slots -> WorkerType] /\ q \in WorkerType /\ Fit(q)
      /\ w \in tab => Findable(q)
  BY <1>1, WorkerFacts
<1>2. /\ UNCHANGED <<tab, kept, closing, cutting, world>> /\ vw' = [vw EXCEPT ![v] = NoView]
  BY DEF Served, NotServed
<1>3. PICK r \in {q, [q EXCEPT !.aged = FALSE]} : Put(w, r)
  BY DEF Served, NotServed
<1>4. Follows(r, q) /\ r.pc = q.pc /\ r.expired = q.expired /\ r.keeper = q.keeper
  BY <1>0, SameFollows, NoteFollows DEF WorkerType
<1> HIDE DEF w
<1> QED
  BY <1>0, <1>1, <1>2, <1>3, <1>4, EndsMove, WorkerTidy DEF Findable

\* A window that somebody ended is past.
LEMMA PastTimers ==
  ASSUME NEW q \in WorkerType
  PROVE  /\ \A t \in {Past(x) : x \in q.timers} : t.window = "past"
         /\ \A t \in {[Past(x) EXCEPT !.whole = FALSE] : x \in q.timers} : t.window = "past"
<1>1. q.timers \subseteq [window : {"this", "past"}, due : BOOLEAN, whole : BOOLEAN]
  BY DEF WorkerType
<1> QED
  BY <1>1 DEF Past

LEMMA AddSubscriberTidy ==
  ASSUME IInv, IInv', Tidy, NEW v \in Viewers, AddSubscriber(v) PROVE Tidy'
<1> DEFINE w == vw[v].w
           q == wk[w]
           T == {[Past(t) EXCEPT !.whole = FALSE] : t \in q.timers}
           r == [q EXCEPT !.subs = q.subs \cup {v}, !.timers = T]
<1>1. w \in Slots
  BY HeldSlot DEF AddSubscriber, Held
<1>0. /\ wk \in [Slots -> WorkerType] /\ q \in WorkerType /\ Fit(q)
      /\ w \in tab => Findable(q)
  BY <1>1, WorkerFacts
<1>2. /\ UNCHANGED <<tab, kept, closing, cutting, world>>
      /\ wk' = wk \/ wk' = [wk EXCEPT ![w] = r]
  BY <1>0, <1>1 DEF AddSubscriber
<1>3. ViewsMove
  BY DEF AddSubscriber, ViewsMove, IInv, Typed, Held, ViewType
<1>4. \A t \in T : t.window = "this" => t.whole
  BY <1>0, PastTimers
<1>5. q.pc = "done" => T = {}
  BY <1>0 DEF Fit
<1> HIDE DEF T
<1>6. Follows(r, q) /\ r.pc = q.pc /\ r.expired = q.expired /\ r.keeper = q.keeper
  BY <1>0, <1>4, <1>5, NoteFollows DEF WorkerType
<1> HIDE DEF r, w
<1>7. CASE wk' = wk
  BY <1>2, <1>3, <1>7, StillMoves, ViewTidy DEF IInv, Typed
<1>8. CASE wk' = [wk EXCEPT ![w] = r]
  BY <1>0, <1>1, <1>2, <1>3, <1>6, <1>8, WorkerTidy DEF Findable
<1> QED
  BY <1>2, <1>7, <1>8

LEMMA RemoveSubscriberTidy ==
  ASSUME IInv, IInv', Tidy, NEW v \in Viewers, vw[v].pc \in Held, RemoveSubscriber(v)
  PROVE  Tidy'
<1> DEFINE w == vw[v].w
           q == wk[w]
           rest == q.subs \ {v}
           t0 == [window |-> "this", due |-> FALSE, whole |-> TRUE]
           started == IF Alive(w) THEN {t0} ELSE {}
           past == {Past(t) : t \in q.timers}
           T == past \cup started
           some == [q EXCEPT !.subs = rest]
           empty == [q EXCEPT !.subs = rest, !.timers = T]
<1>1. w \in Slots
  BY HeldSlot
<1>0. /\ wk \in [Slots -> WorkerType] /\ q \in WorkerType /\ Fit(q)
      /\ w \in tab => Findable(q)
  BY <1>1, WorkerFacts
<1>2. /\ UNCHANGED <<tab, kept, closing, cutting, world>> /\ vw' = [vw EXCEPT ![v] = NoView]
      /\ Put(w, some) \/ Put(w, empty)
  BY DEF RemoveSubscriber
<1>3. \A t \in T : t.window = "this" => t.whole
  <2>1. \A t \in past : t.window = "past"
    BY <1>0, PastTimers
  <2>2. \A t \in started : t.whole
    OBVIOUS
  <2> QED
    BY <2>1, <2>2
<1>4. q.pc = "done" => T = {}
  BY <1>0 DEF Fit, Alive
<1> HIDE DEF T, rest
<1>5. Follows(some, q) /\ some.pc = q.pc /\ some.expired = q.expired /\ some.keeper = q.keeper
  BY <1>0, NoteFollows DEF WorkerType
<1>6. /\ Follows(empty, q) /\ empty.pc = q.pc /\ empty.expired = q.expired
      /\ empty.keeper = q.keeper
  BY <1>0, <1>3, <1>4, NoteFollows DEF WorkerType
<1> HIDE DEF some, empty, w
<1> QED
  BY <1>0, <1>1, <1>2, <1>5, <1>6, EndsMove, WorkerTidy DEF Findable

LEMMA FoundTidy ==
  ASSUME IInv, IInv', Tidy, NEW v \in Viewers, NEW k, NEW usable \in SUBSET Slots,
         NEW next \in {"opened", "reading"}, Found(v, k, usable, next),
         UNCHANGED <<kept, cutting, closing, world>>
  PROVE  Tidy'
<1>1. PICK w \in usable :
        /\ vw' = [vw EXCEPT ![v] = [NoView EXCEPT !.pc = next, !.w = w]]
        /\ wk' = [wk EXCEPT ![w].aged = FALSE]
        /\ UNCHANGED tab
  BY DEF Found
<1> DEFINE q == wk[w]
           r == [q EXCEPT !.aged = FALSE]
<1>0. /\ wk \in [Slots -> WorkerType] /\ q \in WorkerType /\ Fit(q)
      /\ w \in tab => Findable(q)
  BY WorkerFacts
<1>2. ViewsMove
  BY <1>1 DEF ViewsMove, IInv, Typed, Held, NoView
<1>3. /\ Follows(r, q) /\ r.pc = q.pc /\ r.expired = q.expired /\ r.keeper = q.keeper
      /\ wk' = [wk EXCEPT ![w] = r]
  BY <1>0, <1>1, NoteFollows DEF WorkerType
<1> HIDE DEF r
<1> QED
  BY <1>0, <1>1, <1>2, <1>3, WorkerTidy DEF Findable

\* A negotiation ends: nobody else negotiates for the session.
LEMMA OfferTidy ==
  ASSUME IInv, IInv', Tidy, NEW v \in Viewers, Answer(v) \/ OfferFails(v)
  PROVE  Tidy'
<1> DEFINE w == vw[v].w
           q == wk[w]
<1>1. w \in Slots /\ vw[v].pc = "offering" /\ q.pc = "offer"
  BY HeldSlot DEF Answer, OfferFails, Held, Tidy, Offered
<1>0. /\ wk \in [Slots -> WorkerType] /\ q \in WorkerType /\ Fit(q)
      /\ w \in tab => Findable(q)
  BY <1>1, WorkerFacts
<1>2. /\ UNCHANGED <<tab, kept, closing, cutting, world>> /\ vw' = [vw EXCEPT ![v] = NoView]
  BY DEF Answer, OfferFails
<1>3. PICK r \in {[q EXCEPT !.pc = "live"], [q EXCEPT !.pc = "cancelling"]} :
        wk' = [wk EXCEPT ![w] = r]
  BY DEF Answer, OfferFails
<1>4. Follows(r, q) /\ r.pc \in {"live", "cancelling"} /\ r.expired = q.expired
  BY <1>0, <1>1, RunFollows DEF WorkerType
<1>5. \A x \in Slots : x # w => wk'[x] = wk[x]
  BY <1>0, <1>3
<1>6. wk'[w] = r
  BY <1>0, <1>1, <1>3
<1>7. \A x \in Slots : Moves(x)
  <2>1. Moves(w)
    BY <1>0, <1>1, <1>2, <1>4, <1>6 DEF Moves, Findable
  <2>2. ASSUME NEW x \in Slots, x # w PROVE Moves(x)
    BY <1>2, <1>5, <2>2, SameFollows DEF Moves, Tidy, Lives, Listed
  <2> QED
    BY <2>1, <2>2
<1>8. /\ \A x \in Viewers : vw'[x] = IF x = v THEN NoView ELSE vw[x]
      /\ NoView.pc = "idle" /\ NoView.w = None
  BY <1>2 DEF IInv, Typed, NoView
<1>9. Offered'
  <2>1. ASSUME NEW x \in Viewers, vw[x].pc = "offering", x # v
        PROVE  vw[x].w \in Slots /\ vw[x].w # w
    <3>1. vw[x].w \in Slots
      BY <2>1, HeldSlot DEF Held
    <3>2. vw[x].w # vw[v].w
      BY <1>1, <2>1 DEF Tidy, Offered
    <3> QED
      BY <3>1, <3>2 DEF w
  <2> QED
    BY <1>5, <1>8, <2>1 DEF Offered, Tidy
<1>10. Rested'
  BY <1>8 DEF Rested, Tidy
<1>11. cutting' \subseteq Slots /\ (closing = "joined" => \A x \in Viewers : vw'[x].pc # "offering")
  BY <1>1, <1>2 DEF Tidy, Over
<1> QED
  BY <1>2, <1>7, <1>9, <1>10, <1>11, TidyStep

-----------------------------------------------------------------------------
(* A worker starts in a free slot. *)

LEMMA NewWorkerFits ==
  ASSUME NEW k, NEW s, NEW i, NEW pc \in {"live", "spawned", "offer"},
         pc = "live" => k \notin Files, pc = "spawned" => k \in Files,
         pc = "offer" => k = "webrtc"
  PROVE  LET n == NewWorker(k, s, i, pc)
         IN  /\ Fit(n) /\ n.pc = pc /\ n.kind = k /\ n.keeper = "none"
             /\ ~n.expired /\ ~n.completed
BY DEF NewWorker, Blank, Fit

\* The others move on, the new worker finds room.
LEMMA StartTidy ==
  ASSUME IInv, IInv', Tidy, NEW w \in Free, w \in Slots, NEW room, room \subseteq tab,
         Among(room) < world.limit, tab' = room \cup {w},
         NEW n, Fit(n), n.pc \in {"live", "spawned", "offer"}, n.keeper = "none",
         ~n.expired, ~n.completed, wk'[w] = n,
         \A x \in Slots : x # w => Moves(x),
         UNCHANGED <<kept, world, cutting, closing>>, closing = "open", Offered', Rested'
  PROVE  Tidy'
<1>1. wk[w] = Blank /\ w \notin tab
  BY DEF Free
<1>2. Lives'
  BY BlankFits DEF Lives, Moves, Follows
<1>3. IsFiniteSet(room)
  BY FS_Subset DEF Tidy, Listed
<1>4. Listed'
  <2>1. IsFiniteSet(tab')
    BY <1>3, FS_AddElement
  <2>2. ASSUME NEW x \in tab' PROVE Findable(wk'[x])
    <3>1. CASE x = w
      BY <3>1 DEF Findable
    <3>2. CASE x # w
      BY <3>2 DEF Moves, IInv, Typed
    <3> QED
      BY <3>1, <3>2
  <2> QED
    BY <2>1, <2>2 DEF Listed
<1>5. Queued'
  <2>1. ASSUME NEW i \in DOMAIN kept
        PROVE  /\ kept[i] \in Slots /\ wk'[kept[i]].keeper # "none"
               /\ SameAs(wk'[kept[i]], wk[kept[i]])
    <3>1. kept[i] \in Slots /\ wk[kept[i]].keeper # "none"
      BY ElementOfSeq DEF Tidy, Queued
    <3>2. kept[i] # w
      BY <1>1, <3>1, BlankFits
    <3>3. wk'[kept[i]].keeper # "none"
      BY <3>1, <3>2 DEF Moves, Follows
    <3> QED
      BY <3>1, <3>2, <3>3 DEF Moves, Follows
  <2> QED
    BY <2>1 DEF Tidy, Queued, SameKey, SameAs
<1>6. WithinLimits'
  <2> DEFINE B == {x \in room : ~wk'[x].completed}
  <2>1. Cardinality(B) <= world.limit - 1 /\ IsFiniteSet(B) /\ w \notin B
    <3>1. \A x \in room : wk[x].completed => wk'[x].completed
      BY <1>1 DEF Moves, Follows, IInv, Typed
    <3>2. world.limit - 1 \in Nat /\ Among(room) <= world.limit - 1
      <4>1. Among(room) \in Nat
        <5>1. IsFiniteSet({x \in room : ~wk[x].completed})
          BY <1>3, FS_Subset
        <5> QED
          BY <5>1, FS_CardinalityType DEF Among
      <4> QED
        BY <4>1, LimitType
    <3>3. Cardinality(B) <= world.limit - 1
      BY <1>3, <3>1, <3>2, FewerActive
    <3> QED
      BY <1>1, <1>3, <3>3, FS_Subset
  <2>2. {x \in tab' : ~wk'[x].completed} = B \cup {w}
    OBVIOUS
  <2> HIDE DEF B
  <2>3. Cardinality(B \cup {w}) = Cardinality(B) + 1 /\ Cardinality(B) \in Nat
    BY <2>1, FS_AddElement, FS_CardinalityType
  <2>4. Active' <= world'.limit
    <3>1. Cardinality(B \cup {w}) <= world.limit
      BY <2>1, <2>3, LimitType
    <3>2. Active' = Cardinality(B \cup {w})
      BY <2>2, Zenon DEF Active, Among
    <3> QED
      BY <3>1, <3>2
  <2>5. ASSUME NEW x \in Slots, wk'[x].keeper = "kept", ~wk'[x].expired
        PROVE  \E i \in DOMAIN kept : kept[i] = x
    BY <2>5, BlankFits DEF Moves, Follows, Tidy, WithinLimits
  <2> QED
    BY <2>4, <2>5 DEF Tidy, WithinLimits
<1>7. Over'
  BY DEF Tidy, Over
<1> QED
  BY <1>2, <1>4, <1>5, <1>6, <1>7 DEF Tidy

LEMMA CreateTidy ==
  ASSUME IInv, IInv', Tidy, NEW v \in Viewers, NEW k \in Kinds,
         NEW pc \in {"live", "spawned", "offer"}, NEW next \in Held,
         pc = "live" => k \notin Files, pc = "spawned" => k \in Files,
         pc = "offer" => k = "webrtc", next = "offering" => pc = "offer",
         Admitted(v), Create(v, k, pc, next), UNCHANGED <<kept, cutting, closing, world>>
  PROVE  Tidy'
<1> DEFINE s == vw[v].stream
           room == IF k = "webrtc" THEN tab ELSE tab \ ListedFor(k, s)
           g == Collected(wk)
           n == NewWorker(k, s, vw[v].input, pc)
<1>1. /\ wk \in [Slots -> WorkerType] /\ tab \subseteq Slots /\ room \subseteq tab
      /\ vw \in [Viewers -> ViewType] /\ closing = "open"
  BY DEF IInv, Typed, Admitted
<1>2. CASE tab' = room /\ vw' = [vw EXCEPT ![v] = NoView] /\ wk' = Collected(wk)
  <2>1. \A x \in Slots : Follows(wk[x], wk[x]) /\ (x \in tab' => Findable(wk[x]))
    BY <1>1, <1>2, SameFollows DEF Tidy, Lives, Listed
  <2> HIDE DEF room
  <2>2. \A x \in Slots : Moves(x) /\ (wk[x].pc = "offer" => wk'[x].pc = "offer")
    BY <1>1, <1>2, <2>1, CollectedMoves
  <2> QED
    BY <1>1, <1>2, <2>2, EndsMove, ViewTidy
<1>3. CASE /\ ~(Among(room) >= world.limit)
           /\ \E w \in Free :
             /\ tab' = room \cup {w}
             /\ vw' = [vw EXCEPT ![v] = [NoView EXCEPT !.pc = next, !.w = w]]
             /\ wk' = [g EXCEPT ![w] = n]
  <2>1. PICK w \in Free :
             /\ tab' = room \cup {w}
             /\ vw' = [vw EXCEPT ![v] = [NoView EXCEPT !.pc = next, !.w = w]]
             /\ wk' = [g EXCEPT ![w] = n]
    BY <1>3
  <2>2. w \in Slots
    BY WorldsAssumption DEF IInv, Typed, Free, WorldType
  <2>3. /\ Fit(n) /\ n.pc = pc /\ n.keeper = "none" /\ ~n.expired /\ ~n.completed
    BY NewWorkerFits
  <2>4. DOMAIN g = Slots /\ \A x \in Slots :
          g[x] = wk[x] \/ (g[x] = Blank /\ Quiet(wk[x]) /\ x \notin tab')
    BY DEF Collected
  <2> HIDE DEF g, n, room
  <2>5. wk'[w] = n /\ \A x \in Slots : x # w => wk'[x] = g[x]
    BY <2>1, <2>2, <2>4
  <2>6. ASSUME NEW x \in Slots, x # w PROVE Moves(x) /\ (wk[x].pc = "offer" => wk'[x] = wk[x])
    <3>1. CASE g[x] = wk[x]
      BY <1>1, <2>1, <2>5, <2>6, <3>1, SameFollows DEF Moves, Tidy, Lives, Listed
    <3>2. CASE g[x] = Blank /\ Quiet(wk[x]) /\ x \notin tab'
      BY <2>5, <2>6, <3>2 DEF Moves, Quiet
    <3> QED
      BY <2>4, <3>1, <3>2
  <2>7. /\ vw'[v].pc = next /\ vw'[v].w = w
        /\ \A x \in Viewers : x # v => vw'[x] = vw[x]
    BY <1>1, <2>1 DEF NoView
  <2>8. Rested'
    BY <2>7 DEF Tidy, Rested
  <2>9. Offered'
    <3>1. ASSUME NEW x \in Viewers, x # v, vw[x].pc = "offering"
          PROVE  vw[x].w \in Slots /\ vw[x].w # w /\ wk[vw[x].w].pc = "offer"
      <4>1. vw[x].w \in Slots /\ wk[vw[x].w].pc = "offer"
        BY <3>1, HeldSlot DEF Held, Tidy, Offered
      <4>2. vw[x].w # w
        BY DEF Free, Holders
      <4> QED
        BY <4>1, <4>2
    <3>2. ASSUME NEW x \in Viewers, vw'[x].pc = "offering"
          PROVE  /\ wk'[vw'[x].w].pc = "offer"
                 /\ \A y \in Viewers : vw'[y].pc = "offering" /\ vw'[y].w = vw'[x].w => y = x
      <4>1. CASE x = v
        BY <2>3, <2>5, <2>7, <3>1, <3>2, <4>1
      <4>2. CASE x # v
        <5>1. wk'[vw'[x].w].pc = "offer"
          BY <2>6, <2>7, <3>1, <3>2, <4>2
        <5>2. ASSUME NEW y \in Viewers, vw'[y].pc = "offering", vw'[y].w = vw'[x].w
              PROVE  y = x
          <6>1. y # v
            BY <2>7, <3>1, <3>2, <4>2, <5>2
          <6> QED
            BY <2>7, <3>2, <4>2, <5>2, <6>1 DEF Tidy, Offered
        <5> QED
          BY <5>1, <5>2
      <4> QED
        BY <4>1, <4>2
    <3> QED
      BY <3>2 DEF Offered
  <2>10. Among(room) < world.limit
    <3>1. IsFiniteSet({x \in room : ~wk[x].completed})
      BY <1>1, FS_Subset DEF Tidy, Listed
    <3>2. Among(room) \in Nat
      BY <3>1, FS_CardinalityType DEF Among
    <3> QED
      BY <1>3, <3>2, LimitType
  <2> QED
    BY <1>1, <2>1, <2>2, <2>3, <2>5, <2>6, <2>8, <2>9, <2>10, StartTidy
<1> QED
  BY <1>2, <1>3 DEF Create

LEMMA OpenTidy ==
  ASSUME IInv, IInv', Tidy, NEW v \in Viewers,
         OpenMJPEG(v) \/ OpenHLS(v) \/ OpenDASH(v) \/ OpenWebRTC(v)
  PROVE  Tidy'
<1>1. tab \subseteq Slots /\ Admitted(v) /\ UNCHANGED <<kept, cutting, closing, world>>
  BY DEF IInv, Typed, OpenMJPEG, OpenHLS, OpenDASH, OpenFiles, OpenWebRTC
<1>2. CASE OpenMJPEG(v)
  <2> DEFINE usable == {w \in ListedFor("mjpeg", vw[v].stream) : Alive(w)}
  <2>1. usable \in SUBSET Slots /\ "mjpeg" \in Kinds /\ "mjpeg" \notin Files
    BY <1>1 DEF ListedFor, Kinds, Files
  <2>2. Found(v, "mjpeg", usable, "opened") \/ Create(v, "mjpeg", "live", "opened")
    BY <1>2 DEF OpenMJPEG
  <2> HIDE DEF usable
  <2> QED
    BY <1>1, <2>1, <2>2, FoundTidy, CreateTidy DEF Held
<1>3. ASSUME NEW k \in {"hls", "dash"}, OpenFiles(v, k) PROVE Tidy'
  <2> DEFINE usable == {w \in ListedFor(k, vw[v].stream) : wk[w].completed \/ Alive(w)}
  <2>1. usable \in SUBSET Slots /\ k \in Kinds /\ k \in Files
    BY <1>1 DEF ListedFor, Kinds, Files
  <2>2. Found(v, k, usable, "reading") \/ Create(v, k, "spawned", "reading")
    BY <1>3 DEF OpenFiles
  <2> HIDE DEF usable
  <2> QED
    BY <1>1, <2>1, <2>2, FoundTidy, CreateTidy DEF Held
<1>4. CASE OpenWebRTC(v)
  <2>1. Create(v, "webrtc", "offer", "offering") /\ "webrtc" \in Kinds
    BY <1>4 DEF OpenWebRTC, Kinds
  <2> QED
    BY <1>1, <2>1, CreateTidy DEF Held
<1> QED
  BY <1>2, <1>3, <1>4 DEF OpenHLS, OpenDASH

-----------------------------------------------------------------------------
(* The other callers. *)

LEMMA StartClipTidy ==
  ASSUME IInv, IInv', Tidy, NEW s \in Streams, StartClip(s) PROVE Tidy'
<1> DEFINE n == NewWorker("clip", s, src[s], "live")
<1>1. PICK w \in Free : tab' = tab \cup {w} /\ wk' = [wk EXCEPT ![w] = n]
  BY DEF StartClip
<1>2. /\ UNCHANGED <<kept, cutting, closing, vw, world>> /\ closing = "open"
      /\ Among(tab) < world.limit
  BY DEF StartClip
<1>3. wk \in [Slots -> WorkerType] /\ tab \subseteq Slots /\ w \in Slots /\ w \notin tab
  BY WorldsAssumption DEF IInv, Typed, Free, WorldType
<1>4. Fit(n) /\ n.pc = "live" /\ n.keeper = "none" /\ ~n.expired /\ ~n.completed
  BY NewWorkerFits DEF Files
<1> HIDE DEF n
<1>5. wk'[w] = n /\ \A x \in Slots : x # w => wk'[x] = wk[x]
  BY <1>1, <1>3
<1>6. ASSUME NEW x \in Slots, x # w PROVE Moves(x)
  BY <1>1, <1>5, <1>6, SameFollows DEF Moves, Tidy, Lives, Listed
<1>7. Offered' /\ Rested'
  <2>1. ASSUME NEW x \in Viewers, vw[x].pc = "offering" PROVE vw[x].w \in Slots /\ vw[x].w # w
    BY <2>1, HeldSlot DEF Held, Free, Holders
  <2>2. Offered'
    BY <1>2, <1>5, <2>1 DEF Tidy, Offered
  <2> QED
    BY <1>2, <2>2 DEF Tidy, Rested
<1> QED
  BY <1>1, <1>2, <1>3, <1>4, <1>5, <1>6, <1>7, StartTidy

\* Callers that only take workers out of the tables, or change sources.
LEMMA CallerTidy ==
  ASSUME IInv, IInv', Tidy, NEW s \in Streams,
         Switch(s) \/ InvalidateStream(s) \/ StopIntercomSessions(s)
  PROVE  Tidy'
<1>1. /\ UNCHANGED <<wk, vw, kept, closing, world>> /\ tab' \subseteq tab /\ tab \subseteq Slots
      /\ cutting' \subseteq Slots
  BY DEF Switch, InvalidateStream, StopIntercomSessions, ListedFor, IInv, Typed, Tidy, Over
<1>2. Offered' /\ Rested' /\ (closing = "joined" => \A v \in Viewers : vw'[v].pc # "offering")
  BY <1>1 DEF Tidy, Offered, Rested, Over
<1> QED
  BY <1>1, <1>2, StillMoves, TidyStep

LEMMA CloseTidy == ASSUME IInv, IInv', Tidy, Close PROVE Tidy'
<1>1. /\ UNCHANGED <<tab, kept, cutting, vw, world>> /\ closing = "open" /\ closing' = "cancelled"
      /\ wk \in [Slots -> WorkerType] /\ tab \subseteq Slots
      /\ \A w \in Slots : wk'[w] = Cancel(wk[w])
  BY DEF Close, IInv, Typed
<1>2. ASSUME NEW q \in WorkerType
      PROVE  Cancel(q).pc = q.pc /\ Cancel(q).expired = q.expired /\ Cancel(q).keeper = q.keeper
  BY DEF Cancel, WorkerType
<1>3. ASSUME NEW x \in Slots PROVE Moves(x)
  <2>1. wk[x] \in WorkerType /\ Fit(wk[x])
    BY <1>1 DEF Tidy, Lives
  <2>2. Follows(wk'[x], wk[x])
    BY <1>1, <2>1, CancelFollows
  <2>3. x \in tab' => Findable(wk'[x])
    BY <1>1, <1>2, <2>1 DEF Findable, Tidy, Listed
  <2> QED
    BY <2>2, <2>3 DEF Moves
<1>4. Offered' /\ Rested'
  <2>1. \A v \in Viewers : vw[v].pc = "offering" => vw[v].w \in Slots
    BY HeldSlot DEF Held
  <2> QED
    BY <1>1, <1>2, <2>1 DEF Tidy, Offered, Rested
<1>5. cutting' \subseteq Slots
  BY <1>1 DEF Tidy, Over
<1> QED
  BY <1>1, <1>3, <1>4, <1>5, TidyStep

LEMMA CloseJoinsTidy == ASSUME IInv, Tidy, CloseJoins PROVE Tidy'
<1>1. UNCHANGED <<wk, tab, kept, cutting, vw, world>> /\ closing' = "joined"
  BY DEF CloseJoins, sources
<1>2. Lives' /\ Listed' /\ Offered' /\ Rested'
  BY <1>1 DEF Tidy, Lives, Listed, Offered, Rested
<1>3. Queued'
  BY <1>1 DEF Tidy, Queued, SameKey
<1>4. WithinLimits'
  BY <1>1 DEF Tidy, WithinLimits, Active, Among
<1>5. Over'
  BY <1>1 DEF CloseJoins, Working, Tidy, Over
<1> QED
  BY <1>2, <1>3, <1>4, <1>5 DEF Tidy

LEMMA StillTidy == ASSUME Tidy, UNCHANGED vars PROVE Tidy'
<1>1. UNCHANGED <<wk, tab, kept, cutting, closing, vw, world>>
  BY DEF vars
<1>2. Lives' /\ Listed' /\ Offered' /\ Rested'
  BY <1>1 DEF Tidy, Lives, Listed, Offered, Rested
<1>3. Queued'
  BY <1>1 DEF Tidy, Queued, SameKey
<1>4. WithinLimits'
  BY <1>1 DEF Tidy, WithinLimits, Active, Among
<1>5. Over'
  BY <1>1 DEF Tidy, Over
<1> QED
  BY <1>2, <1>3, <1>4, <1>5 DEF Tidy

-----------------------------------------------------------------------------
(* The queue of finished outputs. *)

\* u is s without what is in X, in the same order.
Drops(u, s, X) ==
    /\ Len(u) <= Len(s)
    /\ \A j \in DOMAIN u : u[j] \notin X
    /\ \A i \in DOMAIN s : s[i] \notin X => \E j \in DOMAIN u : u[j] = s[i]
    /\ \E p \in [DOMAIN u -> DOMAIN s] :
         /\ \A j \in DOMAIN u : u[j] = s[p[j]]
         /\ \A j, k \in DOMAIN u : p[j] = p[k] => j = k

\* retention.go: taking the one entry of a key out of the map.
LEMMA WithoutFacts ==
  ASSUME NEW S, NEW s \in Seq(S), NEW X,
         \A i, j \in DOMAIN s : s[i] \in X /\ s[j] \in X => i = j
  PROVE  Without(s, X) \in Seq(S) /\ Drops(Without(s, X), s, X)
<1> DEFINE hits == {i \in DOMAIN s : s[i] \in X}
           h == CHOOSE i \in hits : TRUE
           N == Len(s)
           u == Without(s, X)
<1>1. N \in Nat /\ DOMAIN s = 1..N /\ \A i \in 1..N : s[i] \in S
  BY LenProperties, ElementOfSeq
<1>2. CASE hits = {}
  <2>1. u = s
    BY <1>2 DEF Without
  <2>2. \A j \in DOMAIN s : s[j] \notin X
    BY <1>2
  <2> DEFINE p == [j \in DOMAIN s |-> j]
  <2>3. /\ p \in [DOMAIN s -> DOMAIN s] /\ \A j \in DOMAIN s : s[j] = s[p[j]]
        /\ \A j, k \in DOMAIN s : p[j] = p[k] => j = k
    OBVIOUS
  <2> HIDE DEF u, p
  <2> QED
    BY <1>1, <2>1, <2>2, <2>3 DEF u, Drops
<1>3. CASE hits # {}
  <2>1. h \in hits
    BY <1>3
  <2> HIDE DEF h
  <2>2. h \in 1..N /\ s[h] \in X /\ \A i \in 1..N : i # h => s[i] \notin X
    BY <1>1, <2>1
  <2>3. u = [j \in 1..(N - 1) |-> IF j < h THEN s[j] ELSE s[j + 1]]
    BY <1>3 DEF Without, h
  <2>4. N - 1 \in Nat
    BY <1>1, <2>2
  <2> HIDE DEF u, N
  <2>5. \A j \in 1..(N - 1) : u[j] = IF j < h THEN s[j] ELSE s[j + 1]
    BY <2>3
  <2>6. \A j \in 1..(N - 1) : u[j] \in S
    BY <1>1, <2>2, <2>5
  <2>7. u \in Seq(S) /\ Len(u) = N - 1 /\ DOMAIN u = 1..(N - 1)
    <3>1. u \in [1..(N - 1) -> S]
      BY <2>3, <2>6
    <3> QED
      BY <2>4, <3>1, IsASeq, LenProperties
  <2> DEFINE p == [j \in 1..(N - 1) |-> IF j < h THEN j ELSE j + 1]
  <2>8. /\ p \in [1..(N - 1) -> 1..N]
        /\ \A j \in 1..(N - 1) : p[j] # h /\ u[j] = s[p[j]]
        /\ \A j, k \in 1..(N - 1) : p[j] = p[k] => j = k
    BY <1>1, <2>2, <2>5
  <2>9. ASSUME NEW i \in 1..N, s[i] \notin X PROVE \E j \in 1..(N - 1) : u[j] = s[i]
    <3>1. CASE i < h
      <4>1. i \in 1..(N - 1)
        BY <1>1, <2>2, <3>1
      <4> QED
        BY <2>5, <3>1, <4>1
    <3>2. CASE i > h
      <4>1. i - 1 \in 1..(N - 1) /\ ~(i - 1 < h) /\ (i - 1) + 1 = i
        BY <1>1, <2>2, <3>2
      <4> QED
        BY <2>5, <4>1
    <3> QED
      BY <2>2, <2>9, <3>1, <3>2
  <2> HIDE DEF p
  <2>10. \A j \in 1..(N - 1) : u[j] \notin X
    BY <1>1, <2>2, <2>8
  <2>11. DOMAIN s = 1..N /\ N = Len(s) /\ Len(u) <= Len(s)
    BY <1>1, <2>7 DEF N
  <2>12. \E f \in [DOMAIN u -> DOMAIN s] :
           /\ \A j \in DOMAIN u : u[j] = s[f[j]]
           /\ \A j, k \in DOMAIN u : f[j] = f[k] => j = k
    <3>1. p \in [DOMAIN u -> DOMAIN s]
      BY <2>7, <2>8, <2>11
    <3>2. /\ \A j \in DOMAIN u : u[j] = s[p[j]]
          /\ \A j, k \in DOMAIN u : p[j] = p[k] => j = k
      BY <2>7, <2>8
    <3> QED
      BY <3>1, <3>2
  <2>13. \A i \in DOMAIN s : s[i] \notin X => \E j \in DOMAIN u : u[j] = s[i]
    BY <2>7, <2>9, <2>11
  <2>14. u \in Seq(S) /\ \A j \in DOMAIN u : u[j] \notin X
    BY <2>7, <2>10
  <2> QED
    BY <2>11, <2>12, <2>13, <2>14 DEF u, Drops
<1> QED
  BY <1>2, <1>3

LEMMA ReleaseTidy ==
  ASSUME IInv, Tidy, NEW w \in Slots, KeeperReleases(w) PROVE Tidy'
<1> DEFINE q == wk[w]
           r == [q EXCEPT !.keeper = "none"]
           u == Without(kept, {w})
           f == [wk EXCEPT ![w] = r]
<1>0. /\ wk \in [Slots -> WorkerType] /\ q \in WorkerType /\ Fit(q)
      /\ w \in tab => Findable(q)
  BY WorkerFacts
<1>1. /\ q.keeper = "release" /\ kept' = u /\ wk' = Collected(f)
      /\ UNCHANGED <<tab, cutting, closing, vw, world>>
  BY DEF KeeperReleases, Put
<1>2. q.pc = "done" /\ q.dir # "made" /\ w \notin tab /\ closing # "joined"
  BY <1>0, <1>1 DEF Fit, Findable, Tidy, Over, Quiet
<1>3. Fit(r) /\ r.keeper = "none"
  BY <1>0, <1>2 DEF Fit, WorkerType
<1>4. \A x \in Slots : f[x] = IF x = w THEN r ELSE wk[x]
  BY <1>0
<1> HIDE DEF r, f
<1>5. /\ wk'[w] \in {r, Blank}
      /\ \A x \in Slots : x # w => wk'[x] = wk[x] \/ (wk'[x] = Blank /\ Quiet(wk[x]) /\ x \notin tab')
  BY <1>1, <1>4 DEF Collected
<1>6. /\ u \in Seq(Slots) /\ Len(u) <= Len(kept)
      /\ \A j \in DOMAIN u : u[j] # w
      /\ \A i \in DOMAIN kept : kept[i] # w => \E j \in DOMAIN u : u[j] = kept[i]
      /\ \E p \in [DOMAIN u -> DOMAIN kept] :
           /\ \A j \in DOMAIN u : u[j] = kept[p[j]]
           /\ \A j, k \in DOMAIN u : p[j] = p[k] => j = k
  <2>1. kept \in Seq(Slots) /\ \A i, j \in DOMAIN kept : kept[i] = w /\ kept[j] = w => i = j
    BY DEF Tidy, Queued, SameKey
  <2> DEFINE X == {w}
  <2>2. \A y : y \in X <=> y = w
    OBVIOUS
  <2>3. u = Without(kept, X)
    OBVIOUS
  <2> HIDE DEF X, u
  <2>4. \A i, j \in DOMAIN kept : kept[i] \in X /\ kept[j] \in X => i = j
    BY <2>1, <2>2
  <2>5. u \in Seq(Slots) /\ Drops(u, kept, X)
    BY <2>1, <2>3, <2>4, WithoutFacts
  <2>6. /\ \A j \in DOMAIN u : u[j] # w
        /\ \A i \in DOMAIN kept : kept[i] # w => \E j \in DOMAIN u : u[j] = kept[i]
    BY <2>2, <2>5, Zenon DEF Drops
  <2> QED
    BY <2>5, <2>6, Zenon DEF Drops
<1> HIDE DEF u
<1>7. Lives'
  BY <1>3, <1>5, BlankFits DEF Lives, Tidy
<1>8. tab \subseteq Slots /\ \A x \in tab : wk'[x] = wk[x]
  BY <1>1, <1>2, <1>5 DEF IInv, Typed
<1>9. Listed'
  BY <1>1, <1>8 DEF Tidy, Listed
<1>10. Offered' /\ Rested'
  <2>1. ASSUME NEW v \in Viewers, vw[v].pc = "offering"
        PROVE  wk'[vw[v].w] = wk[vw[v].w]
    <3>1. vw[v].w \in Slots /\ wk[vw[v].w].pc = "offer"
      BY <2>1, HeldSlot DEF Held, Tidy, Offered
    <3> QED
      BY <1>2, <1>5, <3>1 DEF Quiet
  <2> QED
    BY <1>1, <2>1 DEF Tidy, Offered, Rested
<1>11. Queued'
  <2>1. PICK p \in [DOMAIN u -> DOMAIN kept] :
           /\ \A j \in DOMAIN u : u[j] = kept[p[j]]
           /\ \A j, k \in DOMAIN u : p[j] = p[k] => j = k
    BY <1>6
  <2>2. ASSUME NEW j \in DOMAIN u
        PROVE  p[j] \in DOMAIN kept /\ wk'[u[j]] = wk[kept[p[j]]] /\ wk'[u[j]].keeper # "none"
    <3>1. p[j] \in DOMAIN kept /\ u[j] = kept[p[j]] /\ u[j] # w
      BY <1>6, <2>1
    <3>2. u[j] \in Slots /\ wk[u[j]].keeper # "none"
      BY <3>1, ElementOfSeq DEF Tidy, Queued
    <3> QED
      BY <1>5, <3>1, <3>2 DEF Quiet
  <2>3. ASSUME NEW j \in DOMAIN u, NEW k \in DOMAIN u,
               wk'[u[j]].kind = wk'[u[k]].kind, wk'[u[j]].stream = wk'[u[k]].stream
        PROVE  j = k
    <3>1. p[j] = p[k]
      BY <2>2, <2>3 DEF Tidy, Queued, SameKey
    <3> QED
      BY <2>1, <3>1
  <2> QED
    BY <1>1, <1>6, <2>2, <2>3 DEF Queued, SameKey
<1>12. WithinLimits'
  <2>1. Active' <= world'.limit
    <3>1. {x \in tab : ~wk'[x].completed} = {x \in tab : ~wk[x].completed}
      BY <1>8
    <3> QED
      BY <1>1, <3>1 DEF Active, Among, Tidy, WithinLimits
  <2>2. Len(kept') <= world'.limit
    BY <1>1, <1>6, LimitType, LenProperties DEF Tidy, WithinLimits, Queued
  <2>3. ASSUME NEW x \in Slots, wk'[x].keeper = "kept", ~wk'[x].expired
        PROVE  \E i \in DOMAIN kept' : kept'[i] = x
    <3>1. x # w /\ wk'[x] = wk[x]
      BY <1>3, <1>5, <2>3, BlankFits
    <3> QED
      BY <1>1, <1>6, <2>3, <3>1 DEF Tidy, WithinLimits
  <2> QED
    BY <2>1, <2>2, <2>3 DEF WithinLimits
<1>13. Over'
  BY <1>1, <1>2 DEF Tidy, Over
<1> QED
  BY <1>7, <1>9, <1>10, <1>11, <1>12, <1>13 DEF Tidy

\* retainOutputLocked: the output under the same key goes, and the oldest if there
\* are too many.
LEMMA QueueFacts ==
  ASSUME IInv, Tidy, NEW w \in Slots, wk[w].keeper = "none",
         LET added == Append(Without(kept, {x \in Slots : SameKey(w, x)}), w)
         IN  kept' = IF Len(added) > world.limit THEN Tail(added) ELSE added
  PROVE  /\ kept' \in Seq(Slots) /\ Len(kept') <= world.limit
         /\ \E i \in DOMAIN kept' : kept'[i] = w
         /\ \A i \in DOMAIN kept' : kept'[i] \in Slots /\
              (kept'[i] # w => wk[kept'[i]].keeper # "none")
         /\ \A i, j \in DOMAIN kept' : SameKey(kept'[i], kept'[j]) => i = j
         /\ \A i \in DOMAIN kept : kept[i] # w
<1> DEFINE X == {x \in Slots : SameKey(w, x)}
           u == Without(kept, X)
           added == Append(u, w)
           N == Len(u)
<1>0. N = Len(u)
  OBVIOUS
<1>1. /\ kept \in Seq(Slots) /\ \A i \in DOMAIN kept : kept[i] \in Slots /\ kept[i] # w
      /\ \A i, j \in DOMAIN kept : SameKey(kept[i], kept[j]) => i = j
      /\ \A i \in DOMAIN kept : wk[kept[i]].keeper # "none"
      /\ Len(kept) \in Nat /\ Len(kept) <= world.limit /\ world.limit \in Nat /\ world.limit > 0
  BY LimitType, ElementOfSeq, LenProperties DEF Tidy, Queued, WithinLimits
<1>a. Len(kept) \in Nat /\ Len(kept) <= world.limit /\ world.limit \in Nat /\ world.limit > 0
  BY <1>1
<1>2. \A i, j \in DOMAIN kept : kept[i] \in X /\ kept[j] \in X => i = j
  BY <1>1 DEF SameKey
<1>3. /\ u \in Seq(Slots) /\ N <= Len(kept)
      /\ \A j \in DOMAIN u : u[j] \notin X
      /\ \E p \in [DOMAIN u -> DOMAIN kept] :
           /\ \A j \in DOMAIN u : u[j] = kept[p[j]]
           /\ \A j, k \in DOMAIN u : p[j] = p[k] => j = k
  <2>1. kept \in Seq(Slots) /\ N = Len(u) /\ u = Without(kept, X)
    BY <1>1
  <2> HIDE DEF X, u, N
  <2>2. u \in Seq(Slots) /\ Drops(u, kept, X)
    BY <1>2, <2>1, WithoutFacts
  <2> QED
    BY <2>1, <2>2, Zenon DEF Drops
<1> HIDE DEF u
<1>4. N \in Nat /\ DOMAIN u = 1..N
  BY <1>3, LenProperties
<1>5. \A j \in 1..N : u[j] \in Slots /\ wk[u[j]].keeper # "none" /\ ~SameKey(w, u[j])
  BY <1>1, <1>3, <1>4
<1>6. ASSUME NEW j \in 1..N, NEW k \in 1..N, SameKey(u[j], u[k]) PROVE j = k
  <2>1. PICK p \in [DOMAIN u -> DOMAIN kept] :
           /\ \A i \in DOMAIN u : u[i] = kept[p[i]]
           /\ \A i, h \in DOMAIN u : p[i] = p[h] => i = h
    BY <1>3
  <2>2. p[j] \in DOMAIN kept /\ p[k] \in DOMAIN kept /\ SameKey(kept[p[j]], kept[p[k]])
    BY <1>4, <1>6, <2>1
  <2>3. p[j] = p[k]
    BY <1>1, <2>2
  <2> QED
    BY <1>4, <2>1, <2>3
<1>7. /\ added \in Seq(Slots) /\ Len(added) = N + 1 /\ DOMAIN added = 1..(N + 1)
      /\ added[N + 1] = w /\ \A j \in 1..N : added[j] = u[j]
  <2>1. added \in Seq(Slots) /\ Len(added) = N + 1 /\ added[N + 1] = w
    BY <1>3, AppendProperties
  <2>2. \A j \in 1..N : added[j] = u[j]
    BY <1>3, AppendProperties
  <2> QED
    BY <2>1, <2>2, LenProperties
<1> HIDE DEF N
<1>8. ASSUME NEW j \in 1..(N + 1), NEW k \in 1..(N + 1), SameKey(added[j], added[k]) PROVE j = k
  <2>1. \A i \in 1..(N + 1) : i = N + 1 \/ i \in 1..N
    BY <1>4
  <2>2. ASSUME NEW i \in 1..N PROVE ~SameKey(added[i], w) /\ ~SameKey(w, added[i])
    BY <1>5, <1>7 DEF SameKey
  <2> QED
    BY <1>6, <1>7, <1>8, <2>1, <2>2
<1>9. ASSUME NEW j \in 1..(N + 1) PROVE added[j] = w \/ wk[added[j]].keeper # "none"
  BY <1>4, <1>5, <1>7
<1>10. kept' = IF Len(added) > world.limit THEN Tail(added) ELSE added
  BY DEF u
<1> HIDE DEF added
<1>11. CASE ~(Len(added) > world.limit)
  <2>1. kept' = added /\ Len(kept') <= world.limit
    <3>1. kept' = added
      BY <1>10, <1>11
    <3>2. Len(added) \in Nat
      BY <1>4, <1>7
    <3>3. Len(added) <= world.limit
      BY <1>a, <1>11, <3>2
    <3> QED
      BY <3>1, <3>3
  <2>2. N + 1 \in 1..(N + 1)
    BY <1>4
  <2>3. \A i \in DOMAIN added : added[i] \in Slots
    BY <1>7, ElementOfSeq
  <2> QED
    BY <1>1, <1>7, <1>8, <1>9, <2>1, <2>2, <2>3
<1>12. CASE Len(added) > world.limit
  <2>1. kept' = Tail(added) /\ N >= 1 /\ N <= world.limit
    <3>1. kept' = Tail(added)
      BY <1>10, <1>12
    <3>2. Len(added) = N + 1 /\ N <= Len(kept)
      BY <1>3, <1>7
    <3>3. N >= 1 /\ N <= world.limit
      BY <1>a, <1>4, <1>12, <3>2
    <3> QED
      BY <3>1, <3>3
  <2>2. /\ kept' \in Seq(Slots) /\ Len(kept') = N /\ DOMAIN kept' = 1..N
        /\ \A i \in 1..N : kept'[i] = added[i + 1]
    <3>1. added # << >>
      BY <1>4, <1>7
    <3>2. /\ Tail(added) \in Seq(Slots) /\ Len(Tail(added)) = Len(added) - 1
          /\ \A i \in 1..Len(Tail(added)) : Tail(added)[i] = added[i + 1]
      <4>1. added \in Seq(Slots)
        BY <1>7
      <4> QED
        BY <3>1, <4>1, HeadTailProperties
    <3>3. Len(kept') = N
      <4>1. Len(added) = N + 1 /\ Len(kept') = Len(added) - 1
        BY <1>7, <2>1, <3>2
      <4> QED
        BY <1>4, <4>1
    <3> QED
      BY <2>1, <3>2, <3>3, LenProperties
  <2>3. \A i \in 1..N : i + 1 \in 1..(N + 1)
    BY <1>4
  <2>4. N \in 1..N /\ kept'[N] = w
    BY <1>4, <1>7, <2>1, <2>2
  <2>5. \A i \in DOMAIN kept' : kept'[i] \in Slots /\ (kept'[i] # w => wk[kept'[i]].keeper # "none")
    BY <1>9, <2>2, <2>3, ElementOfSeq
  <2>6. ASSUME NEW i \in 1..N, NEW j \in 1..N, SameKey(kept'[i], kept'[j]) PROVE i = j
    <3>1. i + 1 = j + 1
      BY <1>8, <2>2, <2>3, <2>6
    <3> QED
      BY <3>1
  <2> QED
    BY <1>1, <2>1, <2>2, <2>4, <2>5, <2>6
<1> QED
  BY <1>11, <1>12

LEMMA RetainTidy ==
  ASSUME IInv, Tidy, NEW w \in Slots, Retain(w) PROVE Tidy'
<1> DEFINE q == wk[w]
           K == {kept[i] : i \in DOMAIN kept}
           out == K \ {kept'[i] : i \in DOMAIN kept'}
           ended == [q EXCEPT !.expired = @ \/ w \in out]
           r == [Cancel(ended) EXCEPT !.pc = "done", !.completed = TRUE, !.keeper = "kept"]
<1>0. /\ wk \in [Slots -> WorkerType] /\ q \in WorkerType /\ Fit(q)
      /\ w \in tab => Findable(q)
  BY WorkerFacts
<1>1. /\ q.pc = "retaining" /\ tab' = tab \ out
      /\ UNCHANGED <<cutting, closing, vw, world>>
      /\ \A x \in Slots : wk'[x] = IF x = w THEN r ELSE [wk[x] EXCEPT !.expired = @ \/ x \in out]
      /\ LET added == Append(Without(kept, {x \in Slots : SameKey(w, x)}), w)
         IN  kept' = IF Len(added) > world.limit THEN Tail(added) ELSE added
  BY DEF Retain
<1>2. q.dir = "made" /\ ~q.completed /\ q.keeper = "none" /\ closing # "joined"
  BY <1>0, <1>1 DEF Fit, Tidy, Over, Quiet
<1>3. /\ kept' \in Seq(Slots) /\ Len(kept') <= world.limit
      /\ \E i \in DOMAIN kept' : kept'[i] = w
      /\ \A i \in DOMAIN kept' : kept'[i] \in Slots /\
           (kept'[i] # w => wk[kept'[i]].keeper # "none")
      /\ \A i, j \in DOMAIN kept' : SameKey(kept'[i], kept'[j]) => i = j
      /\ \A i \in DOMAIN kept : kept[i] # w
  <2>1. LET added == Append(Without(kept, {x \in Slots : SameKey(w, x)}), w)
        IN  kept' = IF Len(added) > world.limit THEN Tail(added) ELSE added
    BY <1>1
  <2> QED
    BY <1>2, <2>1, QueueFacts, Zenon
<1>4. w \notin out
  BY <1>3
<1>5. /\ Fit(r) /\ SameAs(r, q) /\ r.keeper = "kept" /\ r.pc = "done"
      /\ r.completed /\ r.expired = q.expired
  <2> HIDE DEF out
  <2>1. ended \in WorkerType /\ Fit(ended) /\ SameAs(ended, q) /\ ended.dir = "made"
        /\ ended.expired = q.expired
    BY <1>0, <1>2, <1>4 DEF Fit, WorkerType, SameAs
  <2> HIDE DEF ended
  <2> QED
    BY <2>1 DEF Fit, WorkerType, SameAs, Cancel
<1>6. ASSUME NEW x \in Slots, x # w
      PROVE  /\ Fit(wk'[x]) /\ SameAs(wk'[x], wk[x]) /\ wk'[x].pc = wk[x].pc
             /\ wk'[x].keeper = wk[x].keeper /\ wk'[x].completed = wk[x].completed
             /\ wk'[x].expired = (wk[x].expired \/ x \in out)
  <2> DEFINE e == wk[x].expired \/ x \in out
  <2>1. wk[x] \in WorkerType /\ Fit(wk[x]) /\ wk'[x] = [wk[x] EXCEPT !.expired = e]
    BY <1>0, <1>1, <1>6 DEF Tidy, Lives
  <2> HIDE DEF e, out
  <2>2. /\ Fit(wk'[x]) /\ SameAs(wk'[x], wk[x]) /\ wk'[x].pc = wk[x].pc
        /\ wk'[x].keeper = wk[x].keeper /\ wk'[x].completed = wk[x].completed
        /\ wk'[x].expired = e
    BY <2>1 DEF Fit, WorkerType, SameAs
  <2> QED
    BY <2>2 DEF e
<1>7. wk'[w] = r
  BY <1>1
<1> HIDE DEF r, ended
<1>8. Lives'
  BY <1>5, <1>6, <1>7 DEF Lives
<1>9. tab' \subseteq tab /\ tab \subseteq Slots
  BY <1>1 DEF IInv, Typed
<1>10. Listed'
  <2>1. IsFiniteSet(tab')
    BY <1>9, FS_Subset DEF Tidy, Listed
  <2>2. ASSUME NEW x \in tab' PROVE Findable(wk'[x])
    <3>1. CASE x = w
      BY <1>0, <1>5, <1>7, <1>9, <3>1 DEF Findable
    <3>2. CASE x # w
      <4>1. x \in Slots /\ x \notin out /\ Findable(wk[x])
        BY <1>1, <1>9 DEF Tidy, Listed
      <4> QED
        BY <1>6, <3>2, <4>1 DEF Findable
    <3> QED
      BY <3>1, <3>2
  <2> QED
    BY <2>1, <2>2 DEF Listed
<1>11. Offered' /\ Rested'
  <2>1. ASSUME NEW v \in Viewers, vw[v].pc = "offering"
        PROVE  wk'[vw[v].w].pc = "offer"
    <3>1. vw[v].w \in Slots /\ wk[vw[v].w].pc = "offer"
      BY <2>1, HeldSlot DEF Held, Tidy, Offered
    <3> QED
      BY <1>1, <1>6, <3>1
  <2> QED
    BY <1>1, <2>1 DEF Tidy, Offered, Rested
<1>12. Queued'
  <2>1. ASSUME NEW i \in DOMAIN kept'
        PROVE  kept'[i] \in Slots /\ wk'[kept'[i]].keeper # "none" /\ SameAs(wk'[kept'[i]], wk[kept'[i]])
    BY <1>3, <1>5, <1>6, <1>7
  <2> QED
    BY <1>3, <2>1 DEF Queued, SameKey, SameAs
<1>13. WithinLimits'
  <2>1. Active' <= world'.limit
    <3>1. \A x \in tab' : wk[x].completed => wk'[x].completed
      BY <1>2, <1>6, <1>9
    <3>2. Cardinality({x \in tab' : ~wk'[x].completed}) <= world.limit
      BY <1>9, <3>1, LimitType, FewerActive DEF Tidy, Listed, WithinLimits, Active
    <3> QED
      BY <1>1, <3>2 DEF Active, Among
  <2>2. ASSUME NEW x \in Slots, wk'[x].keeper = "kept", ~wk'[x].expired
        PROVE  \E i \in DOMAIN kept' : kept'[i] = x
    <3>1. CASE x = w
      BY <1>3, <3>1
    <3>2. CASE x # w
      <4>1. wk[x].keeper = "kept" /\ ~wk[x].expired /\ x \notin out
        BY <1>6, <2>2, <3>2
      <4>2. x \in K
        BY <4>1 DEF Tidy, WithinLimits
      <4> QED
        BY <4>1, <4>2
    <3> QED
      BY <3>1, <3>2
  <2> QED
    BY <1>1, <1>3, <2>1, <2>2 DEF WithinLimits
<1>14. Over'
  BY <1>1, <1>2 DEF Tidy, Over
<1> QED
  BY <1>8, <1>10, <1>11, <1>12, <1>13, <1>14 DEF Tidy

-----------------------------------------------------------------------------
(* The theorems. *)

LEMMA TidyHolds == Init => Tidy
<1> SUFFICES ASSUME Init PROVE Tidy
  OBVIOUS
<1>1. wk = [w \in Slots |-> Blank] /\ tab = {} /\ kept = <<>> /\ cutting = {} /\ closing = "open"
  BY DEF Init
<1>2. \A v \in Viewers : vw[v].pc = "idle" /\ vw[v].w = None
  BY DEF Init, NoView
<1>3. Lives /\ Offered /\ Rested /\ Over
  BY <1>1, <1>2, BlankFits DEF Lives, Offered, Rested, Over
<1>4. Listed
  BY <1>1, FS_EmptySet DEF Listed
<1>5. Queued
  BY <1>1, EmptySeq DEF Queued
<1>6. WithinLimits
  <2>1. Active = 0
    <3>1. {w \in tab : ~wk[w].completed} = {}
      BY <1>1
    <3> QED
      BY <3>1, FS_EmptySet DEF Active, Among
  <2>2. Len(kept) = 0
    BY <1>1
  <2>3. \A w \in Slots : wk[w].keeper # "kept"
    BY <1>1, BlankFits
  <2>4. world.limit \in Nat
    BY IInvHolds, LimitType
  <2> QED
    BY <2>1, <2>2, <2>3, <2>4 DEF WithinLimits
<1> QED
  BY <1>3, <1>4, <1>5, <1>6 DEF Tidy

LEMMA TidyRequest ==
  ASSUME IInv, IInv', Tidy, NEW v \in Viewers, Request(v) \/ Leave(v) PROVE Tidy'
<1>1. CASE Resolve(v) \/ Refuse(v) \/ Ready(v)
  BY <1>1, LookTidy
<1>2. CASE OpenMJPEG(v) \/ OpenHLS(v) \/ OpenDASH(v) \/ OpenWebRTC(v)
  BY <1>2, OpenTidy
<1>3. CASE AddSubscriber(v)
  BY <1>3, AddSubscriberTidy
<1>4. CASE GiveUp(v) \/ Leave(v)
  BY <1>4, RemoveSubscriberTidy DEF GiveUp, Leave, Held
<1>5. CASE Served(v) \/ NotServed(v) \/ Answer(v) \/ OfferFails(v)
  BY <1>5, ReadTidy, OfferTidy
<1> QED
  BY <1>1, <1>2, <1>3, <1>4, <1>5 DEF Request

LEMMA TidyNext == ASSUME IInv, Tidy, [Next]_vars PROVE Tidy'
<1>0. IInv'
  BY IInvNext
<1>1. ASSUME NEW v \in Viewers, NEW k \in Kinds, NEW s \in Streams, Ask(v, k, s) PROVE Tidy'
  BY <1>0, <1>1, LookTidy
<1>2. ASSUME NEW v \in Viewers, Request(v) \/ Leave(v) PROVE Tidy'
  BY <1>0, <1>2, TidyRequest
<1>3. ASSUME NEW w \in Slots, Run(w) PROVE Tidy'
  BY <1>0, <1>3, RunTidy, RetainTidy DEF Run
<1>4. ASSUME NEW w \in Slots, Keeper(w) \/ Elapses(w) \/ IdleTimer(w) PROVE Tidy'
  BY <1>0, <1>4, KeeperTidy, ReleaseTidy, TimerTidy DEF Keeper
<1>5. ASSUME NEW w \in Slots,
             \/ Ages(w) \/ Tick(w) \/ Produces(w) \/ Retries(w) \/ Fails(w) \/ Completes(w)
             \/ PeerGone(w) \/ CutNext(w)
      PROVE Tidy'
  BY <1>0, <1>5, EventTidy
<1>6. ASSUME NEW s \in Streams,
             StartClip(s) \/ Switch(s) \/ InvalidateStream(s) \/ StopIntercomSessions(s)
      PROVE Tidy'
  BY <1>0, <1>6, StartClipTidy, CallerTidy
<1>7. CASE Close \/ CloseJoins \/ UNCHANGED vars
  BY <1>0, <1>7, CloseTidy, CloseJoinsTidy, StillTidy
<1> QED
  BY <1>1, <1>2, <1>3, <1>4, <1>5, <1>6, <1>7 DEF Next

LEMMA TidyAlways == Spec => [](IInv /\ Tidy)
BY IInvHolds, IInvNext, TidyHolds, TidyNext, PTL DEF Spec

\* The structures of the manager keep their types, and a request holds a worker
\* exactly while it is past its lookup (the getOrCreate functions, removeSubscriber).
THEOREM MediaTypeOK == Spec => []TypeOK
<1>1. IInv /\ Tidy => TypeOK
  BY DEF IInv, Typed, Tidy, Over, Queued, Rested, Held, TypeOK
<1> QED
  BY <1>1, TidyAlways, PTL

\* However requests, endings and invalidations interleave, MaxWorkers bounds the
\* registered workers that run and the outputs that are kept, and no output waits for
\* its time without being counted (getOrCreateHLSWorker, startClipJob, retainOutputLocked).
THEOREM LimitsHold == Spec => []WithinLimits
<1>1. Tidy => WithinLimits
  BY DEF Tidy
<1> QED
  BY <1>1, TidyAlways, PTL

\* An output that a request finds is on the disk and in the retention queue:
\* unregistering precedes the removal of the directory and every expiry
\* (getOrCreateHLSWorker against retainOutputLocked and the cleanup task).
THEOREM KeptStaysReadable == Spec => []KeptIsReadable
<1>1. IInv /\ Tidy => KeptIsReadable
  <2> SUFFICES ASSUME IInv, Tidy, NEW w \in tab, wk[w].completed
               PROVE  wk[w].dir = "made" /\ \E i \in DOMAIN kept : kept[i] = w
    BY DEF KeptIsReadable
  <2>1. w \in Slots /\ Fit(wk[w]) /\ Findable(wk[w])
    BY DEF IInv, Typed, Tidy, Lives, Listed
  <2>2. wk[w].keeper = "kept" /\ ~wk[w].expired /\ wk[w].dir = "made"
    BY <2>1 DEF Fit, Findable
  <2> QED
    BY <2>1, <2>2 DEF Tidy, WithinLimits
<1> QED
  BY <1>1, TidyAlways, PTL

\* Close returns only when all that m.wg counts is over, and that leaves no worker in
\* a table, no finished output, and no directory but those whose removal has failed
\* (Manager.Close, run and the cleanup task).
THEOREM ClosedLeavesNothingHolds == Spec => []ClosedLeavesNothing
<1>1. IInv /\ Tidy => ClosedLeavesNothing
  <2> SUFFICES ASSUME IInv, Tidy, closing = "joined"
               PROVE  /\ tab = {} /\ kept = <<>>
                      /\ \A w \in Slots : Quiet(wk[w]) /\ wk[w].dir # "made"
    BY DEF ClosedLeavesNothing
  <2>1. ASSUME NEW w \in Slots PROVE Quiet(wk[w]) /\ wk[w].dir # "made" /\ w \notin tab
    BY DEF Tidy, Over, Lives, Listed, Fit, Findable, Quiet
  <2>2. tab = {}
    BY <2>1 DEF IInv, Typed
  <2>3. kept = <<>>
    <3>1. kept \in Seq(Slots) /\ DOMAIN kept = {}
      <4>1. \A i \in DOMAIN kept : kept[i] \in Slots /\ wk[kept[i]].keeper # "none"
        BY ElementOfSeq DEF Tidy, Queued
      <4> QED
        BY <2>1, <4>1 DEF Quiet, Tidy, Queued
    <3>2. Len(kept) \in Nat /\ DOMAIN kept = 1..Len(kept)
      BY <3>1, LenProperties
    <3>3. Len(kept) = 0
      BY <3>1, <3>2
    <3> QED
      BY <3>1, <3>3, EmptySeq
  <2> QED
    BY <2>1, <2>2, <2>3
<1> QED
  BY <1>1, TidyAlways, PTL

-----------------------------------------------------------------------------
(* Who stops an MJPEG worker. *)

\* A running worker is not collected, and only the step's own worker changes.
LEMMA RunningStays ==
  ASSUME wk \in [Slots -> WorkerType], NEW w \in Slots, wk[w].pc = "live",
         NEW x \in Slots, NEW r, Put(x, r) \/ wk' = [wk EXCEPT ![x] = r],
         x = w => r.cancelled = wk[w].cancelled /\ r.pc # "done"
  PROVE  wk'[w].cancelled = wk[w].cancelled
<1> DEFINE f == [wk EXCEPT ![x] = r]
<1>1. f[w].cancelled = wk[w].cancelled /\ f[w].pc # "done"
  BY DEF f
<1>2. wk' = f \/ wk' = Collected(f)
  BY DEF Put
<1> HIDE DEF f
<1> QED
  BY <1>1, <1>2 DEF Collected, Quiet

\* The steps that leave the context of every running MJPEG worker alone.
Running(w) == wk[w].kind = "mjpeg" /\ wk[w].pc = "live" /\ ~wk[w].cancelled
Spared(w) == ~wk'[w].cancelled

LEMMA CreateSpares ==
  ASSUME IInv, NEW w \in Slots, Running(w), NEW v, NEW k, NEW pc, NEW next,
         Create(v, k, pc, next)
  PROVE  Spared(w)
<1> DEFINE g == Collected(wk)
<1>1. DOMAIN g = Slots /\ g[w] = wk[w]
  BY DEF Collected, Running, Quiet
<1>2. \A x \in Free : x # w
  BY DEF Free, Running, Blank
<1> HIDE DEF g
<1>3. \/ wk' = g
      \/ \E x \in Free, n \in {NewWorker(k, vw[v].stream, vw[v].input, pc)} : wk' = [g EXCEPT ![x] = n]
  BY DEF Create, g
<1> QED
  BY <1>1, <1>2, <1>3 DEF Running, Spared

LEMMA RequestSpares ==
  ASSUME IInv, NEW w \in Slots, Running(w), NEW v \in Viewers, Request(v) \/ Leave(v)
  PROVE  Spared(w)
<1>1. wk \in [Slots -> WorkerType] /\ wk[w] \in WorkerType
  BY DEF IInv, Typed
<1>2. CASE Resolve(v) \/ Refuse(v) \/ Ready(v)
  BY <1>2 DEF Resolve, Refuse, Ready, Running, Spared
<1>3. CASE \E k, usable, next : Found(v, k, usable, next)
  BY <1>1, <1>3 DEF Found, WorkerType, Running, Spared
<1>4. CASE \E k, pc, next : Create(v, k, pc, next)
  BY <1>4, CreateSpares
<1>5. CASE vw[v].pc \in Held /\ ~(\E k, pc, next : Create(v, k, pc, next)) /\
           ~(\E k, usable, next : Found(v, k, usable, next))
  <2> DEFINE x == vw[v].w
  <2>1. x \in Slots /\ wk[x] \in WorkerType
    BY <1>5, HeldSlot
  <2>2. CASE AddSubscriber(v)
    BY <1>1, <2>1, <2>2 DEF AddSubscriber, WorkerType, Running, Spared
  <2>3. CASE Answer(v) \/ OfferFails(v)
    BY <1>1, <2>1, <2>3 DEF Answer, OfferFails, WorkerType, Running, Spared
  <2>4. CASE RemoveSubscriber(v)
    <3> DEFINE started == IF Alive(x) THEN {[window |-> "this", due |-> FALSE, whole |-> TRUE]}
                          ELSE {}
               S == wk[x].subs \ {v}
               T == {Past(t) : t \in wk[x].timers} \cup started
    <3>1. PICK r \in {[wk[x] EXCEPT !.subs = S], [wk[x] EXCEPT !.subs = S, !.timers = T]} :
            Put(x, r)
      BY <2>4 DEF RemoveSubscriber
    <3> HIDE DEF S, T
    <3>2. r.cancelled = wk[x].cancelled /\ r.pc = wk[x].pc
      BY <2>1, <3>1 DEF WorkerType
    <3> QED
      BY <1>1, <2>1, <3>1, <3>2, RunningStays DEF Running, Spared
  <2>5. CASE Served(v) \/ NotServed(v)
    <3>1. PICK r : /\ Put(x, r) /\ r.cancelled = wk[x].cancelled /\ r.pc = wk[x].pc
      BY <2>1, <2>5 DEF Served, NotServed, WorkerType
    <3> QED
      BY <1>1, <2>1, <3>1, RunningStays DEF Running, Spared
  <2> QED
    BY <1>2, <1>5, <2>2, <2>3, <2>4, <2>5
       DEF Request, GiveUp, Leave, OpenMJPEG, OpenHLS, OpenDASH, OpenFiles, OpenWebRTC, Held
<1> QED
  BY <1>2, <1>3, <1>4, <1>5
     DEF Request, Leave, GiveUp, AddSubscriber, Served, NotServed, Answer, OfferFails,
         OpenMJPEG, OpenHLS, OpenDASH, OpenFiles, OpenWebRTC, Held

LEMMA WorkerSpares ==
  ASSUME IInv, Tidy, NEW w \in Slots, Running(w), NEW x \in Slots,
         \/ Run(x) \/ Keeper(x) \/ Elapses(x) \/ Ages(x) \/ Tick(x) \/ Produces(x)
         \/ Retries(x) \/ Fails(x) \/ Completes(x) \/ PeerGone(x) \/ CutNext(x) \/ IdleTimer(x),
         w \notin cutting, ~IdleTimer(w)
  PROVE  Spared(w)
<1>1. /\ wk \in [Slots -> WorkerType] /\ wk[x] \in WorkerType /\ Fit(wk[x])
      /\ "mjpeg" \notin Files
  BY WorkerFacts DEF Files
<1>2. CASE Retain(x)
  <2>1. x # w
    BY <1>2 DEF Retain, Running
  <2>2. PICK e : wk'[w] = [wk[w] EXCEPT !.expired = e]
    BY <1>2, <2>1 DEF Retain
  <2> QED
    BY <1>1, <2>2 DEF Running, Spared, WorkerType
<1>3. CASE ~Retain(x)
  <2>1. PICK r : /\ Put(x, r) \/ wk' = [wk EXCEPT ![x] = r]
                 /\ x = w => r.cancelled = wk[w].cancelled /\ r.pc # "done"
    <3>1. CASE CutNext(x) \/ IdleTimer(x) \/ Tick(x) \/ PeerGone(x)
      <4>1. x # w
        BY <1>1, <3>1 DEF CutNext, Tick, PeerGone, Running, Fit, IdleTimer
      <4>2. CASE CutNext(x) \/ Tick(x) \/ PeerGone(x)
        <5>1. Put(x, Cancel(wk[x])) \/ wk' = [wk EXCEPT ![x] = Cancel(wk[x])]
          BY <4>2 DEF CutNext, Tick, PeerGone
        <5> QED
          BY <4>1, <5>1
      <4>3. CASE IdleTimer(x)
        <5>1. PICK r : Put(x, r)
          BY <4>3 DEF IdleTimer
        <5> QED
          BY <4>1, <5>1
      <4> QED
        BY <3>1, <4>2, <4>3
    <3>2. CASE Run(x)
      <4>1. CASE Killed(x)
        <5> DEFINE r == [wk[x] EXCEPT !.pc = Ending(wk[x].kind)]
        <5>1. r.cancelled = wk[x].cancelled /\ r.pc # "done"
          BY <1>1, <4>1 DEF WorkerType, Ending
        <5> QED
          BY <4>1, <5>1 DEF Killed
      <4>2. CASE x # w
        BY <1>3, <3>2, <4>2
           DEF Run, Prepare, Killed, CloseSubscribers, RemoveWorker, Sweep, CancelSession
      <4> QED
        BY <1>3, <3>2, <4>1, <4>2
           DEF Run, Prepare, CloseSubscribers, RemoveWorker, Sweep, CancelSession, Running
    <3>3. CASE Keeper(x)
      <4>1. x # w
        BY <1>1, <3>3 DEF Keeper, KeeperUnlists, KeeperSweeps, KeeperReleases, Fit, Running
      <4> QED
        BY <3>3, <4>1 DEF Keeper, KeeperUnlists, KeeperSweeps, KeeperReleases
    <3>4. CASE Elapses(x)
      <4>1. PICK t \in wk[x].timers :
              wk' = [wk EXCEPT ![x].timers = (@ \ {t}) \cup {[t EXCEPT !.due = TRUE]}]
        BY <3>4 DEF Elapses
      <4> DEFINE r == [wk[x] EXCEPT !.timers = (@ \ {t}) \cup {[t EXCEPT !.due = TRUE]}]
      <4>2. wk' = [wk EXCEPT ![x] = r] /\ r.cancelled = wk[x].cancelled /\ r.pc = wk[x].pc
        BY <1>1, <4>1 DEF WorkerType
      <4> HIDE DEF r
      <4> QED
        BY <4>2 DEF Running
    <3>5. CASE Ages(x) \/ Produces(x) \/ Retries(x)
      BY <1>1, <3>5 DEF Ages, Produces, Retries, Running, WorkerType
    <3>6. CASE Fails(x) \/ Completes(x)
      <4> DEFINE e == Ending(wk[x].kind)
                 lost == wk[x].kind \in Files
      <4>1. wk[x] \in WorkerType /\ e # "done"
        BY <1>1 DEF Ending
      <4>2. \/ wk' = [wk EXCEPT ![x] = [wk[x] EXCEPT !.pc = e, !.failed = lost]]
            \/ wk' = [wk EXCEPT ![x] = [wk[x] EXCEPT !.pc = e]]
            \/ wk' = [wk EXCEPT ![x] = [wk[x] EXCEPT !.pc = "retaining"]]
        BY <3>6 DEF Fails, Completes
      <4> HIDE DEF e, lost
      <4>3. /\ [wk[x] EXCEPT !.pc = e, !.failed = lost].cancelled = wk[x].cancelled
            /\ [wk[x] EXCEPT !.pc = e, !.failed = lost].pc = e
        BY <4>1, Zenon DEF WorkerType
      <4>4. /\ [wk[x] EXCEPT !.pc = e].cancelled = wk[x].cancelled
            /\ [wk[x] EXCEPT !.pc = e].pc = e
        BY <4>1, Zenon DEF WorkerType
      <4>5. /\ [wk[x] EXCEPT !.pc = "retaining"].cancelled = wk[x].cancelled
            /\ [wk[x] EXCEPT !.pc = "retaining"].pc = "retaining"
        BY <4>1, Zenon DEF WorkerType
      <4> QED
        BY <4>1, <4>2, <4>3, <4>4, <4>5
    <3> QED
      BY <3>1, <3>2, <3>3, <3>4, <3>5, <3>6
  <2> QED
    BY <1>1, <2>1, RunningStays DEF Running, Spared
<1> QED
  BY <1>2, <1>3

LEMMA CallerSpares ==
  ASSUME IInv, NEW w \in Slots, Running(w), NEW s \in Streams,
         StartClip(s) \/ Switch(s) \/ InvalidateStream(s) \/ StopIntercomSessions(s)
  PROVE  Spared(w)
<1>1. CASE StartClip(s)
  <2>1. PICK x \in Free : \E n : wk' = [wk EXCEPT ![x] = n]
    BY <1>1 DEF StartClip
  <2>2. x # w
    BY DEF Free, Running, Blank
  <2> QED
    BY <2>1, <2>2 DEF Running, Spared, IInv, Typed
<1>2. CASE Switch(s) \/ InvalidateStream(s) \/ StopIntercomSessions(s)
  BY <1>2 DEF Switch, InvalidateStream, StopIntercomSessions, Running, Spared
<1> QED
  BY <1>1, <1>2

LEMMA StopEarned ==
  ASSUME IInv, Tidy, [Next]_vars, NEW w \in Slots, StoppedIdle(w)
  PROVE  \E t \in wk[w].timers : t.due /\ t.whole
<1>1. Running(w) /\ ~Spared(w) /\ w \notin cutting /\ closing' = closing
  BY DEF StoppedIdle, Alive, Running, Spared
<1>2. IdleTimer(w)
  <2> SUFFICES ASSUME ~IdleTimer(w) PROVE FALSE
    OBVIOUS
  <2>1. ASSUME NEW v \in Viewers, NEW k \in Kinds, NEW s \in Streams, Ask(v, k, s) PROVE FALSE
    BY <1>1, <2>1 DEF Ask, Running, Spared
  <2>2. ASSUME NEW v \in Viewers, Request(v) \/ Leave(v) PROVE FALSE
    BY <1>1, <2>2, RequestSpares
  <2>3. ASSUME NEW x \in Slots,
               \/ Run(x) \/ Keeper(x) \/ Elapses(x) \/ Ages(x) \/ Tick(x) \/ Produces(x)
               \/ Retries(x) \/ Fails(x) \/ Completes(x) \/ PeerGone(x) \/ CutNext(x)
               \/ IdleTimer(x)
        PROVE FALSE
    BY <1>1, <2>3, WorkerSpares
  <2>4. ASSUME NEW s \in Streams,
               StartClip(s) \/ Switch(s) \/ InvalidateStream(s) \/ StopIntercomSessions(s)
        PROVE FALSE
    BY <1>1, <2>4, CallerSpares
  <2>5. ~Close /\ ~CloseJoins /\ ~UNCHANGED vars
    BY <1>1 DEF Close, CloseJoins, vars, Running, Spared
  <2> QED
    BY <2>1, <2>2, <2>3, <2>4, <2>5 DEF Next
<1>3. wk \in [Slots -> WorkerType] /\ wk[w] \in WorkerType /\ Fit(wk[w])
  BY WorkerFacts
<1>4. PICK t \in wk[w].timers :
        LET r == [wk[w] EXCEPT !.timers = @ \ {t}]
        IN  /\ t.window = "past" \/ t.due
            /\ Put(w, IF t.window = "this" /\ wk[w].subs = {} THEN Cancel(r) ELSE r)
  BY <1>2 DEF IdleTimer
<1>5. t.window = "this"
  <2> SUFFICES ASSUME t.window # "this" PROVE FALSE
    OBVIOUS
  <2> DEFINE r == [wk[w] EXCEPT !.timers = @ \ {t}]
  <2>1. Put(w, r) /\ r.cancelled = wk[w].cancelled /\ r.pc = wk[w].pc
    BY <1>3, <1>4 DEF WorkerType
  <2> HIDE DEF r
  <2> QED
    BY <1>1, <1>3, <2>1, RunningStays DEF Running, Spared
<1> QED
  BY <1>3, <1>4, <1>5 DEF Fit

\* No order of subscriptions, departures and late timers stops a running MJPEG worker
\* before a window of its own ran out undisturbed (removeSubscriber, stopWhenIdle).
THEOREM IdleStopEarned == Spec => IdleStopIsEarned
<1>1. IInv /\ Tidy /\ [Next]_vars =>
        [\A w \in Slots : StoppedIdle(w) => \E t \in wk[w].timers : t.due /\ t.whole]_vars
  BY StopEarned
<1> QED
  BY <1>1, TidyAlways, PTL DEF Spec, IdleStopIsEarned
=============================================================================
