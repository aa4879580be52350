-------------------------- MODULE LiveSourceProofs --------------------------
(***************************************************************************)
(* Every safety property of LiveSource, for any number of streams, workers *)
(* and requests: a stream is checked by one worker at a time               *)
(* (OneCheckEach), a published selection belongs to the operator's last    *)
(* word (SelectionIsCurrent), every variable keeps its type (TypeOK), what *)
(* viewers and snapshots show follows the catalog (ViewFollows,            *)
(* SnapshotFollows), and no check switches blindly (NoBlindSwitch).        *)
(*                                                                         *)
(* IInv: h.queued covers the queue and the streams under a check, so what  *)
(* is queued is neither twice in the queue nor in a worker's hands; a      *)
(* worker publishes under the lock and only if the revision it began with  *)
(* is still the stream's, and whoever moves a revision clears the          *)
(* selection.                                                              *)
(*                                                                         *)
(* Follow, on top of it: nothing stores the source of a stream, so what a  *)
(* reader found stays right only while preference, routes and selection    *)
(* name it still.  A selection is for the stored preference (Signed), a    *)
(* check starts from the source that is named (Aimed), and the operator's  *)
(* call has read the source that was named when it took the lock (Told):   *)
(* so whoever changes what is named holds the lock and knows the stream he *)
(* has to cut, and until then readers show one of the two (Finds).         *)
(*                                                                         *)
(* Fresh: a flight that is still the channel's own saw no invalidation,    *)
(* which is all that can be said of the image a recorder serves itself.    *)
(***************************************************************************)
EXTENDS LiveSource, TLAPS

MaybeUrl == Urls \cup {None}

HealthType ==
    [phase : {"new", "on", "off"}, queue : Seq(Streams), queued : SUBSET Streams,
     failures : [Streams -> MaybeUrl], states : [Streams -> Selections \cup {None}],
     revisions : [Streams -> 0..MaxEvents]]

Taken == [pc : {"taken"}, stream : Streams, failed : MaybeUrl]
Check == [pc : {"current", "other", "decided"}, stream : Streams, revision : 0..MaxEvents,
          signature : Sources \X Layouts, current : Sources, skips : SUBSET Sources,
          failed : SUBSET Sources, good : SUBSET Sources]
Ending == [pc : {"done", "cutting", "requeue"}, stream : Streams]
JobType == {Idle} \cup Taken \cup Check \cup Ending

Asked == [pc : {"read", "saved", "cleared"}, target : Streams \cup {"all"},
          choice : Sources \cup {None}, changes : SUBSET Streams,
          old : [Streams -> Sources \cup {None}]]
Each == [pc : {"each"}, left : SUBSET Streams, cuts : SUBSET Streams]
CallType == {Idle} \cup Asked \cup Each

ReaderType ==
    {Idle} \cup [pc : {"settings"}, stream : Streams, torn : BOOLEAN]
    \cup [pc : {"probes"}, stream : Streams, torn : BOOLEAN, preferred : Sources]
    \cup [pc : {"selections"}, stream : Streams, torn : BOOLEAN, preferred : Sources,
          routes : Layouts]
    \cup [pc : {"found", "open"}, stream : Streams, torn : BOOLEAN, source : Sources, url : Urls]

-----------------------------------------------------------------------------
(* The invariant, by the variables its parts are about. *)

SettingsTyped == default \in Sources /\ override \in [Streams -> Sources \cup {None}]
WorldTyped ==
    urls \in [Streams -> Layouts \cup {None}] /\ alive \subseteq Urls /\ moved \subseteq Streams
HealthTyped == h \in HealthType /\ Len(h.queue) <= QueueCap
JobsTyped == job \in [Workers -> JobType]
ViewsTyped ==
    /\ view \in [Streams -> ReaderType] /\ late \subseteq Streams \X Urls
    /\ \A s \in Streams : view[s].pc \in {"settings", "probes"} => Present(view[s].stream)
FlightsTyped == flight \in [Streams -> Requests \cup {None}] /\ dropped \subseteq Requests
CallTyped ==
    /\ call \in CallType
    /\ call.pc = "read" /\ call.target = "all" => call.choice \in Sources
CutTyped == cut = None \/ cut \in [stream : Streams, at : {"snapshot", "view"}]

\* liveSourceMu has a holder exactly while somebody is in its critical section.
Locked ==
    /\ lock = "operator" <=> call # Idle
    /\ \A w \in Workers : lock = w <=> job[w].pc = "cutting"
    /\ cut # None => lock # None
    /\ call.pc \in {"read", "saved", "cleared"} => cut = None

\* Every revision is one of the changes that were counted.
Due == IF call.pc \in {"read", "saved"} THEN 1 ELSE 0
Counted == events \in 0..MaxEvents /\ \A s \in Streams : h.revisions[s] + Due <= events

\* A stream in the queue or under a check counts as queued, and is there once.
Checking(w) == job[w].pc \notin {"idle", "requeue"}
Once ==
    /\ \A i, j \in 1..Len(h.queue) : h.queue[i] = h.queue[j] => i = j
    /\ \A i \in 1..Len(h.queue) : h.queue[i] \in h.queued
    /\ \A w \in Workers : Checking(w) =>
         /\ job[w].stream \in h.queued
         /\ \A i \in 1..Len(h.queue) : h.queue[i] # job[w].stream
         /\ \A v \in Workers : Checking(v) /\ job[v].stream = job[w].stream => v = w

Typed == SettingsTyped /\ WorldTyped /\ HealthTyped /\ JobsTyped /\ ViewsTyped /\ FlightsTyped
         /\ CallTyped /\ CutTyped
IInv == Typed /\ Locked /\ Counted /\ Once /\ SelectionIsCurrent

LEMMA Stays ==
  ASSUME IInv
  PROVE  /\ UNCHANGED settings => SettingsTyped'
         /\ UNCHANGED world => WorldTyped'
         /\ UNCHANGED h => HealthTyped' /\ SelectionIsCurrent'
         /\ UNCHANGED job => JobsTyped'
         /\ UNCHANGED <<watching, urls>> => ViewsTyped'
         /\ UNCHANGED <<flight, dropped>> => FlightsTyped'
         /\ UNCHANGED call => CallTyped'
         /\ UNCHANGED cut => CutTyped'
         /\ UNCHANGED control => Locked'
         /\ UNCHANGED <<events, call, h>> => Counted'
         /\ UNCHANGED <<h, job>> => Once'
<1>1. UNCHANGED settings => SettingsTyped'
  BY DEF IInv, Typed, SettingsTyped, settings
<1>2. UNCHANGED world => WorldTyped'
  BY DEF IInv, Typed, WorldTyped, world
<1>3. UNCHANGED h => HealthTyped' /\ SelectionIsCurrent'
  BY DEF IInv, Typed, HealthTyped, SelectionIsCurrent
<1>4. (UNCHANGED job => JobsTyped') /\ (UNCHANGED <<flight, dropped>> => FlightsTyped')
  BY DEF IInv, Typed, JobsTyped, FlightsTyped
<1>5. UNCHANGED <<watching, urls>> => ViewsTyped'
  BY DEF IInv, Typed, ViewsTyped, Present, watching
<1>6. (UNCHANGED call => CallTyped') /\ (UNCHANGED cut => CutTyped')
  BY DEF IInv, Typed, CallTyped, CutTyped
<1>7. UNCHANGED control => Locked'
  BY DEF IInv, Locked, control
<1>8. UNCHANGED <<events, call, h>> => Counted'
  BY DEF IInv, Counted, Due
<1>9. UNCHANGED <<h, job>> => Once'
  BY DEF IInv, Once, Checking
<1> QED
  BY <1>1, <1>2, <1>3, <1>4, <1>5, <1>6, <1>7, <1>8, <1>9

\* Routes lead somewhere, whatever is chosen.
LEMMA Routes ==
  ASSUME NEW p \in Sources, NEW l \in Layouts, NEW x \in Selections \cup {None}
  PROVE  Effective(p, l, x) \in Sources /\ l[Effective(p, l, x)] \in Urls
<1>1. ASSUME NEW u \in {l.nvr, l.camera}, u # None PROVE u \in Urls
  <2>1. {l.nvr, l.camera} \in {{k.nvr, k.camera} : k \in Layouts}
    OBVIOUS
  <2>2. u \in UNION {{k.nvr, k.camera} : k \in Layouts}
    BY <2>1
  <2> QED
    BY <1>1, <2>2 DEF Urls
<1>2. l.nvr # None /\ l.nvr \in Urls /\ (l.camera = None \/ l.camera \in Urls)
  BY <1>1, LayoutsAssumption
<1>3. Effective(p, l, x) \in Sources /\ l[Effective(p, l, x)] # None
  BY <1>2 DEF Effective, Sources, Selections
<1> QED
  BY <1>2, <1>3 DEF Sources

LEMMA Chosen ==
  ASSUME IInv, NEW s \in Streams
  PROVE  /\ Preferred(s) \in Sources
         /\ Present(s) => urls[s] \in Layouts /\ Source(s) \in Sources
                          /\ Signature(s) \in Sources \X Layouts /\ Url(s) \in Urls
<1>1. Preferred(s) \in Sources
  BY DEF IInv, Typed, SettingsTyped, Preferred, PreferredUnder
<1>2. h.states[s] \in Selections \cup {None}
  BY DEF IInv, Typed, HealthTyped, HealthType
<1>3. Present(s) => urls[s] \in Layouts
  BY DEF IInv, Typed, WorldTyped, Present
<1> QED
  BY <1>1, <1>2, <1>3, Routes DEF Source, Signature, Url

-----------------------------------------------------------------------------
(* The queue, and which workers hold a stream. *)

\* Nobody takes up a stream in this step.
Keeps == \A w \in Workers : Checking(w)' => Checking(w) /\ job'[w].stream = job[w].stream

LEMMA Calm ==
  ASSUME IInv, Keeps, h'.queue = h.queue, h'.queued = h.queued
  PROVE  Once'
BY DEF IInv, Once, Keeps, Checking

LEMMA QueueingTyped ==
  ASSUME IInv, NEW s \in Streams, NEW url \in MaybeUrl
  PROVE  /\ Queued(h, s, url) \in HealthType /\ Len(Queued(h, s, url).queue) <= QueueCap
         /\ Queued(h, s, url).states = h.states /\ Queued(h, s, url).revisions = h.revisions
         /\ \/ Queued(h, s, url).queue = h.queue /\ Queued(h, s, url).queued = h.queued
            \/ /\ s \notin h.queued
               /\ Queued(h, s, url).queue = Append(h.queue, s)
               /\ Queued(h, s, url).queued = h.queued \cup {s}
<1>1. h \in HealthType /\ Len(h.queue) <= QueueCap
  BY DEF IInv, Typed, HealthTyped
<1> DEFINE noted == IF url = None THEN h ELSE [h EXCEPT !.failures[s] = url]
<1>2. /\ noted \in HealthType
      /\ noted.states = h.states /\ noted.revisions = h.revisions
      /\ noted.queue = h.queue /\ noted.queued = h.queued
  BY <1>1 DEF HealthType, MaybeUrl
<1> DEFINE joined == [noted EXCEPT !.queue = Append(@, s), !.queued = @ \cup {s}]
<1>3. Len(h.queue) < QueueCap =>
        /\ joined \in HealthType /\ Len(joined.queue) <= QueueCap
        /\ joined.states = h.states /\ joined.revisions = h.revisions
        /\ joined.queue = Append(h.queue, s) /\ joined.queued = h.queued \cup {s}
  <2> HIDE DEF noted
  <2>1. noted.queue \in Seq(Streams) /\ Append(noted.queue, s) \in Seq(Streams)
        /\ Len(Append(noted.queue, s)) = Len(noted.queue) + 1
    BY <1>2 DEF HealthType
  <2>2. joined \in HealthType
    BY <1>2, <2>1 DEF HealthType
  <2>3. /\ joined.queue = Append(noted.queue, s) /\ joined.queued = noted.queued \cup {s}
        /\ joined.states = noted.states /\ joined.revisions = noted.revisions
    BY <1>2 DEF HealthType
  <2> QED
    BY <1>1, <1>2, <2>1, <2>2, <2>3, QueueAssumption DEF HealthType
<1> DEFINE forgotten == [noted EXCEPT !.failures[s] = None]
<1>4. /\ forgotten \in HealthType
      /\ forgotten.states = h.states /\ forgotten.revisions = h.revisions
      /\ forgotten.queue = h.queue /\ forgotten.queued = h.queued
  <2> HIDE DEF noted
  <2> QED
    BY <1>2 DEF HealthType, MaybeUrl
<1>5. \/ Queued(h, s, url) = h \/ Queued(h, s, url) = noted \/ Queued(h, s, url) = forgotten
      \/ s \notin h.queued /\ Len(h.queue) < QueueCap /\ Queued(h, s, url) = joined
  BY DEF Queued
<1> HIDE DEF noted, joined, forgotten
<1> QED
  BY <1>1, <1>2, <1>3, <1>4, <1>5

LEMMA Queueing ==
  ASSUME IInv, NEW s \in Streams, NEW url \in MaybeUrl, h' = Queued(h, s, url), Keeps
  PROVE  HealthTyped' /\ SelectionIsCurrent' /\ Once' /\ h'.revisions = h.revisions
<1>1. h' \in HealthType /\ Len(h'.queue) <= QueueCap /\ h'.states = h.states
      /\ h'.revisions = h.revisions
  BY QueueingTyped
<1>2. CASE h'.queue = h.queue /\ h'.queued = h.queued
  BY <1>1, <1>2, Calm DEF HealthTyped, SelectionIsCurrent, IInv
<1>3. CASE /\ s \notin h.queued /\ h'.queue = Append(h.queue, s)
           /\ h'.queued = h.queued \cup {s}
  <2>1. h.queue \in Seq(Streams)
    BY DEF IInv, Typed, HealthTyped, HealthType
  <2>2. /\ Len(h'.queue) = Len(h.queue) + 1 /\ h'.queue[Len(h.queue) + 1] = s
        /\ \A i \in 1..Len(h.queue) : h'.queue[i] = h.queue[i]
    BY <1>3, <2>1
  <2>3. \A i \in 1..Len(h.queue) : h.queue[i] \in h.queued /\ h.queue[i] # s
    BY <1>3 DEF IInv, Once
  <2>4. \A i, j \in 1..Len(h'.queue) : h'.queue[i] = h'.queue[j] => i = j
    <3>1. \A i, j \in 1..Len(h.queue) : h.queue[i] = h.queue[j] => i = j
      BY DEF IInv, Once
    <3>2. \A i \in 1..Len(h'.queue) : i \in 1..Len(h.queue) \/ i = Len(h.queue) + 1
      BY <2>1, <2>2
    <3> QED
      BY <2>2, <2>3, <3>1, <3>2
  <2>5. \A i \in 1..Len(h'.queue) : h'.queue[i] \in h'.queued
                                    /\ (i \in 1..Len(h.queue) \/ h'.queue[i] = s)
    BY <1>3, <2>1, <2>2, <2>3
  <2>6. ASSUME NEW w \in Workers, Checking(w)'
        PROVE  /\ job'[w].stream \in h'.queued
               /\ \A i \in 1..Len(h'.queue) : h'.queue[i] # job'[w].stream
               /\ \A v \in Workers : Checking(v)' /\ job'[v].stream = job'[w].stream => v = w
    BY <1>3, <2>2, <2>5, <2>6 DEF IInv, Once, Keeps
  <2> QED
    BY <1>1, <2>4, <2>5, <2>6 DEF HealthTyped, SelectionIsCurrent, IInv, Once
<1> QED
  BY <1>2, <1>3, QueueingTyped

-----------------------------------------------------------------------------
(* One lemma for each group of actions. *)

LEMMA HealthSteps ==
  ASSUME IInv, StartHealth \/ StopHealth
               \/ \E s \in Streams : Tick(s) \/ \E source \in Sources : CooldownEnds(s, source)
  PROVE  IInv'
<1>1. UNCHANGED <<settings, world, control, watching, snapshots>>
  BY DEF StartHealth, StopHealth, Tick, CooldownEnds
<1>2. /\ SettingsTyped' /\ WorldTyped' /\ JobsTyped' /\ ViewsTyped' /\ FlightsTyped'
      /\ CallTyped' /\ CutTyped' /\ Locked'
  BY <1>1, Stays DEF control, snapshots, world
<1>3. Keeps
  BY <1>1 DEF Keeps, Checking, control
<1>4. h \in HealthType /\ Len(h.queue) <= QueueCap
  BY DEF IInv, Typed, HealthTyped
<1>5. h'.revisions = h.revisions => Counted'
  <2>1. events' = events \/ (events < MaxEvents /\ events' = events + 1)
    BY DEF StartHealth, StopHealth, Tick, CooldownEnds, Spent
  <2> QED
    BY <1>1, <1>4, <2>1, EventsAssumption DEF IInv, Counted, Due, control, HealthType
<1>6. CASE StartHealth \/ StopHealth
  <2>1. /\ h' \in HealthType /\ h'.queue = h.queue /\ h'.queued = h.queued
        /\ h'.states = h.states /\ h'.revisions = h.revisions
    BY <1>4, <1>6 DEF StartHealth, StopHealth, HealthType
  <2> QED
    BY <1>2, <1>3, <1>4, <1>5, <2>1, Calm DEF IInv, Typed, HealthTyped, SelectionIsCurrent
<1>7. ASSUME NEW s \in Streams, Tick(s) PROVE IInv'
  <2>1. h' = Queued(h, s, None) /\ None \in MaybeUrl
    BY <1>7 DEF Tick, MaybeUrl
  <2> QED
    BY <1>2, <1>3, <1>5, <2>1, Queueing DEF IInv, Typed
<1>8. ASSUME NEW s \in Streams, NEW source \in Sources, CooldownEnds(s, source) PROVE IInv'
  <2>1. h.states[s] \in Selections
    BY <1>4, <1>8 DEF CooldownEnds, HealthType
  <2> DEFINE x == [h.states[s] EXCEPT !.cooling = @ \ {source}]
  <2>2. x \in Selections /\ x.madeAt = h.states[s].madeAt
    BY <2>1 DEF Selections
  <2>3. h' = [h EXCEPT !.states[s] = x]
    BY <1>4, <1>8, <2>1 DEF CooldownEnds, HealthType, Selections
  <2> HIDE DEF x
  <2>4. /\ h' \in HealthType /\ h'.queue = h.queue /\ h'.queued = h.queued
        /\ h'.states = [h.states EXCEPT ![s] = x] /\ h'.revisions = h.revisions
    BY <1>4, <2>2, <2>3 DEF HealthType
  <2>5. SelectionIsCurrent'
    <3>1. h.states[s] # None
      BY <1>8 DEF CooldownEnds
    <3>2. h.states \in [Streams -> Selections \cup {None}]
      BY <1>4 DEF HealthType
    <3> QED
      BY <2>2, <2>4, <3>1, <3>2 DEF IInv, SelectionIsCurrent
  <2> QED
    BY <1>2, <1>3, <1>4, <1>5, <2>4, <2>5, Calm DEF IInv, Typed, HealthTyped
<1> QED
  BY <1>6, <1>7, <1>8

LEMMA JobSet ==
  ASSUME IInv, NEW w \in Workers, NEW x, job' = [job EXCEPT ![w] = x]
  PROVE  /\ x \in JobType => JobsTyped'
         /\ job'[w] = x /\ \A v \in Workers : v # w => job'[v] = job[v]
         /\ x.pc \in {"idle", "requeue"} \/ (Checking(w) /\ x.stream = job[w].stream) => Keeps
         /\ x.pc # "cutting" /\ job[w].pc # "cutting" /\ UNCHANGED <<lock, call, cut>> => Locked'
<1>1. job \in [Workers -> JobType]
  BY DEF IInv, Typed, JobsTyped
<1>2. job'[w] = x /\ \A v \in Workers : v # w => job'[v] = job[v]
  BY <1>1
<1>3. x \in JobType => JobsTyped'
  BY <1>1 DEF JobsTyped
<1>4. x.pc \in {"idle", "requeue"} \/ (Checking(w) /\ x.stream = job[w].stream) => Keeps
  BY <1>2 DEF Keeps, Checking
<1>5. x.pc # "cutting" /\ job[w].pc # "cutting" /\ UNCHANGED <<lock, call, cut>> => Locked'
  BY <1>2 DEF IInv, Locked
<1> QED
  BY <1>2, <1>3, <1>4, <1>5

LEMMA TakeStep == ASSUME IInv, NEW w \in Workers, Take(w) PROVE IInv'
<1> DEFINE s == Head(h.queue)
           x == [pc |-> "taken", stream |-> s, failed |-> h.failures[s]]
<1>1. h \in HealthType /\ Len(h.queue) <= QueueCap /\ h.queue # <<>> /\ job[w] = Idle
  BY DEF IInv, Typed, HealthTyped, Take
<1>2. h.queue \in Seq(Streams) /\ s \in Streams /\ s = h.queue[1] /\ Len(h.queue) \in Nat \ {0}
  BY <1>1 DEF HealthType
<1>3. /\ Tail(h.queue) \in Seq(Streams) /\ Len(Tail(h.queue)) = Len(h.queue) - 1
      /\ \A i \in 1..Len(h.queue) - 1 : Tail(h.queue)[i] = h.queue[i + 1]
  BY <1>1, <1>2
<1>4. h' = [h EXCEPT !.queue = Tail(@), !.failures[s] = None] /\ job' = [job EXCEPT ![w] = x]
  BY DEF Take
<1> HIDE DEF s
<1>5. /\ h' \in HealthType /\ h'.queue = Tail(h.queue) /\ h'.queued = h.queued
      /\ h'.states = h.states /\ h'.revisions = h.revisions
  BY <1>1, <1>2, <1>3, <1>4 DEF HealthType, MaybeUrl
<1>6. x \in JobType /\ x.pc = "taken" /\ x.stream = s
  BY <1>1, <1>2 DEF HealthType, JobType, Taken
<1> HIDE DEF x
<1>7. UNCHANGED <<settings, world, lock, call, cut, watching, snapshots, events>>
  BY DEF Take
<1>8. Once'
  <2>1. /\ job'[w] = x /\ \A v \in Workers : v # w => job'[v] = job[v]
    BY <1>4, JobSet
  <2>2. /\ \A i, j \in 1..Len(h.queue) : h.queue[i] = h.queue[j] => i = j
        /\ \A i \in 1..Len(h.queue) : h.queue[i] \in h.queued
        /\ \A v \in Workers : Checking(v) => h.queue[1] # job[v].stream
    BY <1>2 DEF IInv, Once
  <2>3. /\ \A i \in 1..Len(h'.queue) : i + 1 \in 1..Len(h.queue) /\ h'.queue[i] = h.queue[i + 1]
                                       /\ i + 1 # 1 /\ h'.queue[i] # s
    BY <1>2, <1>3, <1>5, <2>2
  <2>4. /\ \A i, j \in 1..Len(h'.queue) : h'.queue[i] = h'.queue[j] => i = j
        /\ \A i \in 1..Len(h'.queue) : h'.queue[i] \in h'.queued
    BY <1>2, <1>5, <2>2, <2>3
  <2>5. ASSUME NEW v \in Workers, Checking(v)'
        PROVE  /\ job'[v].stream \in h'.queued
               /\ \A i \in 1..Len(h'.queue) : h'.queue[i] # job'[v].stream
               /\ \A u \in Workers : Checking(u)' /\ job'[u].stream = job'[v].stream => u = v
    <3>1. CASE v = w
      BY <1>2, <1>5, <1>6, <2>1, <2>2, <2>3, <3>1 DEF Checking
    <3>2. CASE v # w
      <4>1. Checking(v) /\ job'[v] = job[v]
        BY <2>1, <2>5, <3>2 DEF Checking
      <4>2. job[v].stream \in h.queued /\ \A i \in 1..Len(h.queue) : h.queue[i] # job[v].stream
            /\ \A u \in Workers : Checking(u) /\ job[u].stream = job[v].stream => u = v
        BY <4>1 DEF IInv, Once
      <4>3. \A u \in Workers : Checking(u)' /\ job'[u].stream = job[v].stream => u = v
        BY <1>2, <1>6, <2>1, <4>1, <4>2, <2>2 DEF Checking
      <4> QED
        BY <1>5, <2>3, <4>1, <4>2, <4>3
    <3> QED
      BY <3>1, <3>2
  <2> QED
    BY <2>4, <2>5 DEF Once
<1>9. JobsTyped' /\ Locked'
  <2>1. job[w].pc # "cutting" /\ x.pc # "cutting"
    BY <1>1, <1>6 DEF Idle
  <2> QED
    BY <1>4, <1>6, <1>7, <2>1, JobSet
<1>10. HealthTyped' /\ SelectionIsCurrent' /\ Counted'
  <2>1. Len(h'.queue) <= QueueCap
    BY <1>1, <1>2, <1>3, <1>5, QueueAssumption
  <2> QED
    BY <1>5, <1>7, <2>1 DEF HealthTyped, SelectionIsCurrent, Counted, Due, IInv
<1> QED
  BY <1>7, <1>8, <1>9, <1>10, Stays DEF IInv, Typed, snapshots, world

LEMMA LocalStep ==
  ASSUME IInv, NEW w \in Workers, NEW x \in JobType, job' = [job EXCEPT ![w] = x],
         Checking(w), job[w].pc # "cutting", x.pc # "cutting", x.stream = job[w].stream,
         UNCHANGED <<settings, world, h, lock, call, cut, watching, snapshots, events>>
  PROVE  IInv'
<1>1. JobsTyped' /\ Keeps /\ Locked'
  BY JobSet
<1> QED
  BY <1>1, Calm, Stays DEF IInv, Typed, snapshots, world

LEMMA CheckedTyped ==
  ASSUME NEW j \in Check, NEW source \in Sources
  PROVE  /\ Checked(j, source) \in Check
         /\ Checked(j, source).stream = j.stream /\ Checked(j, source).current = j.current
         /\ \A pc \in {"other", "decided"} :
              LET x == [Checked(j, source) EXCEPT !.pc = pc] IN
              x \in Check /\ x.pc = pc /\ x.stream = j.stream
<1>1. Checked(j, source) \in {j, [j EXCEPT !.good = @ \cup {source}],
                              [j EXCEPT !.failed = @ \cup {source}]}
  BY DEF Checked
<1>2. /\ Checked(j, source) \in Check
      /\ Checked(j, source).stream = j.stream /\ Checked(j, source).current = j.current
  BY <1>1 DEF Check
<1> QED
  BY <1>2 DEF Check

LEMMA CheckSteps ==
  ASSUME IInv, NEW w \in Workers, Snapshot(w) \/ ProbeCurrent(w) \/ ProbeOther(w)
  PROVE  IInv'
<1>1. UNCHANGED <<settings, world, h, lock, call, cut, watching, snapshots, events>>
  BY DEF Snapshot, ProbeCurrent, ProbeOther
<1>2. job[w] \in JobType /\ job[w].pc \in {"taken", "current", "other"}
  BY DEF IInv, Typed, JobsTyped, Snapshot, ProbeCurrent, ProbeOther
<1>3. Checking(w) /\ job[w].pc # "cutting"
  BY <1>2 DEF Checking
<1>4. CASE Snapshot(w)
  <2> DEFINE s == job[w].stream
             ends == [pc |-> "done", stream |-> s]
             fresh == [pc |-> "current", stream |-> s, revision |-> h.revisions[s],
                       signature |-> Signature(s), current |-> Source(s),
                       skips |-> Cooling(s), failed |-> {}, good |-> {}]
             second == [fresh EXCEPT !.pc = "other", !.failed = {Source(s)}]
  <2>1. s \in Streams
    BY <1>2, <1>4 DEF Snapshot, JobType, Taken, Check, Ending, Idle
  <2>2. ends \in JobType /\ ends.pc # "cutting" /\ ends.stream = s
    BY <2>1 DEF JobType, Ending
  <2>3. Present(s) => fresh \in Check /\ fresh.pc = "current" /\ fresh.stream = s
    <3>1. h.revisions[s] \in 0..MaxEvents /\ h.states[s] \in Selections \cup {None}
      BY <2>1 DEF IInv, Typed, HealthTyped, HealthType
    <3>2. Cooling(s) \subseteq Sources
      BY <3>1 DEF Cooling, Selections
    <3> QED
      BY <2>1, <3>1, <3>2, Chosen DEF Check
  <2>4. Present(s) => second \in Check /\ second.pc = "other" /\ second.stream = s
    <3>1. Present(s) => Source(s) \in Sources
      BY <2>1, Chosen
    <3> HIDE DEF fresh
    <3> QED
      BY <2>3, <3>1 DEF Check
  <2>5. \/ job' = [job EXCEPT ![w] = ends]
        \/ Present(s) /\ job' = [job EXCEPT ![w] = fresh]
        \/ Present(s) /\ job' = [job EXCEPT ![w] = second]
    BY <1>4 DEF Snapshot
  <2> HIDE DEF ends, fresh, second
  <2>6. PICK x \in JobType : /\ job' = [job EXCEPT ![w] = x]
                             /\ x.pc # "cutting" /\ x.stream = s
    BY <2>2, <2>3, <2>4, <2>5 DEF JobType
  <2> QED
    BY <1>1, <1>3, <2>6, LocalStep
<1>5. CASE ProbeCurrent(w) \/ ProbeOther(w)
  <2>1. job[w] \in Check
    BY <1>2, <1>5 DEF ProbeCurrent, ProbeOther, JobType, Taken, Check, Ending, Idle
  <2>2. PICK source \in Sources, pc \in {"other", "decided"} :
          job' = [job EXCEPT ![w] = [Checked(job[w], source) EXCEPT !.pc = pc]]
    <3>1. job[w].current \in Sources /\ Other(job[w].current) \in Sources
      BY <2>1 DEF Check, Other, Sources
    <3> QED
      BY <1>5, <3>1 DEF ProbeCurrent, ProbeOther
  <2> DEFINE x == [Checked(job[w], source) EXCEPT !.pc = pc]
  <2>3. x \in JobType /\ x.pc # "cutting" /\ x.stream = job[w].stream
    <3>1. \A p \in {"other", "decided"} :
            LET y == [Checked(job[w], source) EXCEPT !.pc = p]
            IN  y \in Check /\ y.pc = p /\ y.stream = job[w].stream
      BY <2>1, CheckedTyped
    <3> QED
      BY <3>1, Zenon DEF JobType
  <2>4. job' = [job EXCEPT ![w] = x]
    BY <2>2
  <2> HIDE DEF x
  <2> QED
    BY <1>1, <1>3, <2>3, <2>4, LocalStep
<1> QED
  BY <1>4, <1>5

LEMMA ApplyStep == ASSUME IInv, NEW w \in Workers, Apply(w) PROVE IInv'
<1> DEFINE j == job[w]
           s == job[w].stream
           done == [pc |-> "done", stream |-> s]
           cutting == [pc |-> "cutting", stream |-> s]
<1>1. j \in Check /\ j.pc = "decided" /\ s \in Streams /\ Checking(w) /\ lock = None
  <2>1. j \in JobType /\ j.pc = "decided" /\ lock = None
    BY DEF IInv, Typed, JobsTyped, Apply
  <2>2. j \in Check
    BY <2>1 DEF JobType, Taken, Check, Ending, Idle
  <2> QED
    BY <2>1, <2>2 DEF Check, Checking
<1>2. /\ done \in JobType /\ done.pc = "done" /\ done.stream = s
      /\ cutting \in JobType /\ cutting.pc = "cutting" /\ cutting.stream = s
  BY <1>1 DEF JobType, Ending
<1>3. UNCHANGED <<settings, world, call, watching, snapshots, events>>
  BY DEF Apply
<1>4. CASE Outdated(j)
  <2>1. job' = [job EXCEPT ![w] = done] /\ UNCHANGED <<h, lock, cut>>
    BY <1>4 DEF Apply
  <2> QED
    BY <1>1, <1>2, <1>3, <2>1, LocalStep
<1>5. CASE ~Outdated(j)
  <2> DEFINE y == [source |-> Decision(j), signature |-> j.signature,
                   cooling |-> Cooling(s) \cup j.failed, madeAt |-> j.revision]
  <2>1. h' = [h EXCEPT !.states[s] = y]
    BY <1>5 DEF Apply
  <2>2. h \in HealthType /\ Len(h.queue) <= QueueCap
    BY DEF IInv, Typed, HealthTyped
  <2>3. y \in Selections /\ y.madeAt = h.revisions[s]
    <3>1. Decision(j) \in Sources
      BY <1>1 DEF Decision, Check, Other, Sources
    <3>2. Cooling(s) \subseteq Sources
      <4>1. h.states[s] \in Selections \cup {None}
        BY <1>1, <2>2 DEF HealthType
      <4> QED
        BY <4>1 DEF Cooling, Selections
    <3> QED
      BY <1>1, <1>5, <3>1, <3>2 DEF Selections, Check, Outdated
  <2> HIDE DEF y
  <2>4. /\ h' \in HealthType /\ h'.queue = h.queue /\ h'.queued = h.queued
        /\ h'.states = [h.states EXCEPT ![s] = y] /\ h'.revisions = h.revisions
    BY <1>1, <2>1, <2>2, <2>3 DEF HealthType
  <2>5. HealthTyped' /\ SelectionIsCurrent'
    <3>1. h.states \in [Streams -> Selections \cup {None}]
      BY <2>2 DEF HealthType
    <3> QED
      BY <1>1, <2>2, <2>3, <2>4, <3>1 DEF HealthTyped, SelectionIsCurrent, IInv
  <2>6. Counted'
    BY <1>3, <2>4 DEF IInv, Counted, Due
  <2>7. PICK x \in {done, cutting} : job' = [job EXCEPT ![w] = x]
    BY <1>5 DEF Apply
  <2>8. JobsTyped' /\ Once'
    <3>1. x \in JobType /\ x.stream = j.stream
      BY <1>2, <2>7
    <3>2. JobsTyped' /\ Keeps
      BY <1>1, <2>7, <3>1, JobSet
    <3> QED
      BY <2>4, <3>2, Calm
  <2>9. Locked' /\ CutTyped'
    <3>1. cut = None /\ call = Idle /\ \A v \in Workers : job[v].pc # "cutting"
      BY <1>1, NamesAssumption DEF IInv, Locked
    <3>2. CASE lock' = w /\ cut' = [stream |-> s, at |-> "snapshot"]
               /\ job' = [job EXCEPT ![w] = cutting]
      <4>1. job'[w] = cutting /\ \A v \in Workers : v # w => job'[v] = job[v]
        BY <3>2, JobSet
      <4>2. w # None /\ w # "operator"
        BY NamesAssumption
      <4> QED
        BY <1>1, <1>2, <1>3, <3>1, <3>2, <4>1, <4>2 DEF Locked, CutTyped, Idle
    <3>3. CASE job' = [job EXCEPT ![w] = done] /\ UNCHANGED <<lock, cut>>
      BY <1>1, <1>2, <1>3, <3>1, <3>3, JobSet DEF CutTyped
    <3> QED
      BY <1>5, <3>2, <3>3 DEF Apply
  <2> QED
    BY <1>3, <2>5, <2>6, <2>8, <2>9, Stays DEF IInv, Typed, snapshots, world
<1> QED
  BY <1>4, <1>5

LEMMA FinishSteps ==
  ASSUME IInv, NEW w \in Workers, FinishCut(w) \/ Finish(w) \/ Requeue(w)
  PROVE  IInv'
<1>1. UNCHANGED <<settings, world, call, cut, watching, snapshots, events>>
  BY DEF FinishCut, Finish, Requeue
<1>2. job[w] \in Ending
  BY DEF IInv, Typed, JobsTyped, FinishCut, Finish, Requeue, JobType, Taken, Check, Ending, Idle
<1>3. h \in HealthType /\ Len(h.queue) <= QueueCap
  BY DEF IInv, Typed, HealthTyped
<1>4. CASE FinishCut(w)
  <2> DEFINE x == [job[w] EXCEPT !.pc = "done"]
  <2>1. job' = [job EXCEPT ![w] = x] /\ x \in JobType /\ x.pc = "done"
        /\ x.stream = job[w].stream /\ Checking(w) /\ UNCHANGED h
    BY <1>2, <1>4 DEF FinishCut, JobType, Ending, Checking
  <2> HIDE DEF x
  <2>2. JobsTyped' /\ Once'
    BY <2>1, JobSet, Calm
  <2>3. Locked'
    <3>1. lock = w /\ call = Idle /\ \A v \in Workers : v # w => job[v].pc # "cutting"
      BY <1>4, NamesAssumption DEF IInv, Locked, FinishCut
    <3>2. lock' = None /\ cut' = None
      BY <1>1, <1>4 DEF FinishCut
    <3>3. job'[w] = x /\ \A v \in Workers : v # w => job'[v] = job[v]
      BY <2>1, JobSet
    <3> QED
      BY <1>1, <2>1, <3>1, <3>2, <3>3, NamesAssumption DEF Locked
  <2> QED
    BY <1>1, <2>1, <2>2, <2>3, Stays DEF IInv, Typed, snapshots, world
<1>5. CASE Finish(w)
  <2> DEFINE s == job[w].stream
             x == IF h.failures[s] = None THEN Idle ELSE [pc |-> "requeue", stream |-> s]
  <2>1. /\ h' = [h EXCEPT !.queued = @ \ {s}] /\ job' = [job EXCEPT ![w] = x]
        /\ UNCHANGED lock /\ job[w].pc = "done" /\ Checking(w)
    BY <1>5 DEF Finish, Checking
  <2>2. x \in JobType /\ x.pc \in {"idle", "requeue"}
    BY <1>2 DEF JobType, Ending, Idle
  <2> HIDE DEF x
  <2>3. /\ h' \in HealthType /\ h'.queue = h.queue /\ h'.queued = h.queued \ {s}
        /\ h'.states = h.states /\ h'.revisions = h.revisions
    BY <1>3, <2>1 DEF HealthType
  <2>4. JobsTyped' /\ Locked'
    BY <1>1, <2>1, <2>2, JobSet
  <2>5. Once'
    <3>1. job'[w] = x /\ \A v \in Workers : v # w => job'[v] = job[v]
      BY <2>1, JobSet
    <3>2. \A i \in 1..Len(h.queue) : h.queue[i] # s
      BY <2>1 DEF IInv, Once
    <3>3. \A v \in Workers : Checking(v)' => v # w /\ Checking(v) /\ job'[v] = job[v]
                                             /\ job[v].stream # s
      BY <2>1, <2>2, <3>1 DEF IInv, Once, Checking
    <3> QED
      BY <2>3, <3>2, <3>3 DEF IInv, Once
  <2> QED
    BY <1>1, <1>3, <2>3, <2>4, <2>5, Stays
       DEF IInv, Typed, HealthTyped, SelectionIsCurrent, Counted, Due, snapshots, world
<1>6. CASE Requeue(w)
  <2>1. /\ h' = Queued(h, job[w].stream, None) /\ job' = [job EXCEPT ![w] = Idle]
        /\ UNCHANGED lock /\ job[w].pc = "requeue"
    BY <1>6 DEF Requeue
  <2>2. JobsTyped' /\ Locked' /\ Keeps
    <3>1. Idle \in JobType /\ Idle.pc = "idle"
      BY DEF Idle, JobType
    <3> QED
      BY <1>1, <2>1, <3>1, JobSet
  <2>3. job[w].stream \in Streams /\ None \in MaybeUrl
    BY <1>2 DEF Ending, MaybeUrl
  <2>4. HealthTyped' /\ SelectionIsCurrent' /\ Once' /\ h'.revisions = h.revisions
    BY <2>1, <2>2, <2>3, Queueing
  <2> QED
    BY <1>1, <2>2, <2>4, Stays DEF IInv, Typed, Counted, Due, snapshots, world
<1> QED
  BY <1>4, <1>5, <1>6

-----------------------------------------------------------------------------
(* Invalidation and the operator's call. *)

LEMMA CutSteps == ASSUME IInv, Cuts PROVE IInv'
<1>1. UNCHANGED <<settings, world, h, job, lock, call, late, request, events>>
  BY DEF Cuts, CutSnapshot, CutView, snapshots, watching
<1>2. cut \in [stream : Streams, at : {"snapshot", "view"}] /\ cut # None
  BY DEF IInv, Typed, CutTyped, Cuts, CutSnapshot, CutView
<1>3. CASE CutSnapshot
  <2>1. CutTyped'
    BY <1>2, <1>3 DEF CutSnapshot, CutTyped
  <2>2. FlightsTyped'
    BY <1>2, <1>3 DEF CutSnapshot, IInv, Typed, FlightsTyped
  <2>3. Locked'
    BY <1>1, <1>2 DEF IInv, Locked
  <2> QED
    BY <1>1, <1>3, <2>1, <2>2, <2>3, Stays DEF CutSnapshot, IInv, Typed, world, watching
<1>4. CASE CutView
  <2>1. CutTyped' /\ Locked'
    BY <1>1, <1>4 DEF CutView, CutTyped, IInv, Locked
  <2>2. ViewsTyped'
    <3>1. view \in [Streams -> ReaderType] /\ Idle \in ReaderType
      BY DEF IInv, Typed, ViewsTyped, ReaderType
    <3>2. view' = [view EXCEPT ![cut.stream] = Idle]
      BY <1>4 DEF CutView
    <3> QED
      BY <1>1, <3>1, <3>2 DEF IInv, Typed, ViewsTyped, Present, Idle, world
  <2> QED
    BY <1>1, <1>4, <2>1, <2>2, Stays DEF CutView, IInv, Typed, world, snapshots
<1> QED
  BY <1>3, <1>4 DEF Cuts

\* The operator's call moves on under the lock it has.
LEMMA CallMoves ==
  ASSUME IInv, UNCHANGED <<job, lock, cut>>, call # Idle, call' # Idle,
         call'.pc \in {"read", "saved", "cleared"} => call.pc \in {"read", "saved", "cleared"}
  PROVE  Locked'
BY DEF IInv, Locked

LEMMA SetBeginsStep ==
  ASSUME IInv, NEW t \in Streams \cup {"all"}, NEW choice \in Choices, SetBegins(t, choice)
  PROVE  IInv'
<1>1. UNCHANGED <<settings, world, h, job, cut, watching, snapshots>>
  BY DEF SetBegins
<1> DEFINE stored == IF choice = "default" THEN None ELSE choice
           old == [s \in Streams |-> IF Present(s) THEN Source(s) ELSE None]
<1>2. /\ call' = [pc |-> "read", target |-> t, choice |-> stored, changes |-> Changes(t, stored),
                  old |-> old]
      /\ call = Idle /\ lock = None /\ lock' = "operator"
      /\ events < MaxEvents /\ events' = events + 1
      /\ t = "all" => choice # "default"
  BY DEF SetBegins, Spent
<1>3. stored \in Sources \cup {None} /\ (t = "all" => stored \in Sources)
  BY <1>2, ChoicesAssumption
<1>4. old \in [Streams -> Sources \cup {None}]
  BY Chosen
<1>5. Changes(t, stored) \subseteq Streams
  BY DEF Changes
<1> HIDE DEF stored, old
<1>6. call' \in Asked /\ call'.pc = "read"
  BY <1>2, <1>3, <1>4, <1>5 DEF Asked
<1>7. CallTyped'
  BY <1>2, <1>3, <1>6 DEF CallTyped, CallType
<1>8. Locked'
  <2>1. cut = None /\ \A w \in Workers : job[w].pc # "cutting" /\ w # "operator"
    BY <1>2, NamesAssumption DEF IInv, Locked
  <2> QED
    BY <1>1, <1>2, <1>6, <2>1, NamesAssumption DEF Locked, Idle
<1>9. Counted'
  BY <1>1, <1>2, <1>6, EventsAssumption DEF IInv, Counted, Due, Idle, Typed, HealthTyped, HealthType
<1> QED
  BY <1>1, <1>7, <1>8, <1>9, Stays DEF IInv, Typed, world, snapshots

LEMMA TornTyped ==
  ASSUME NEW r \in ReaderType, NEW d, NEW o
  PROVE  Torn(r, d, o) \in ReaderType /\ Torn(r, d, o).pc = r.pc
         /\ (r # Idle => Torn(r, d, o).stream = r.stream)
<1>1. CASE Torn(r, d, o) = r
  BY <1>1
<1>2. CASE r.pc \in {"probes", "selections"} /\ Torn(r, d, o) = [r EXCEPT !.torn = TRUE]
  <2>1. CASE r.pc = "probes"
    <3>1. r \in [pc : {"probes"}, stream : Streams, torn : BOOLEAN, preferred : Sources]
      BY <2>1 DEF ReaderType, Idle
    <3>2. [r EXCEPT !.torn = TRUE]
            \in [pc : {"probes"}, stream : Streams, torn : BOOLEAN, preferred : Sources]
      BY <3>1
    <3> QED
      BY <1>2, <3>1, <3>2 DEF ReaderType
  <2>2. CASE r.pc = "selections"
    <3>1. r \in [pc : {"selections"}, stream : Streams, torn : BOOLEAN, preferred : Sources,
                 routes : Layouts]
      BY <2>2 DEF ReaderType, Idle
    <3>2. [r EXCEPT !.torn = TRUE]
            \in [pc : {"selections"}, stream : Streams, torn : BOOLEAN, preferred : Sources,
                 routes : Layouts]
      BY <3>1
    <3> QED
      BY <1>2, <3>1, <3>2 DEF ReaderType
  <2> QED
    BY <1>2, <2>1, <2>2
<1> QED
  BY <1>1, <1>2 DEF Torn

LEMMA AskedSteps == ASSUME IInv, SaveFails \/ Save \/ Clear \/ Relist PROVE IInv'
<1>1. /\ UNCHANGED <<world, job, cut, late, flight, dropped, events>>
      /\ call \in Asked /\ call.pc \in {"read", "saved", "cleared"}
      /\ call.pc = "read" /\ call.target = "all" => call.choice \in Sources
  BY DEF SaveFails, Save, Clear, Relist, watching, snapshots, IInv, Typed, CallTyped, CallType,
         Asked, Each, Idle
<1>2. call # Idle /\ lock = "operator" /\ cut = None /\ h \in HealthType
  BY <1>1 DEF Idle, IInv, Locked, Typed, HealthTyped
<1>3. CASE SaveFails
  <2>1. CallTyped' /\ Due' = 0
    BY <1>3 DEF SaveFails, CallTyped, CallType, Idle, Due
  <2>2. Locked'
    <3>1. \A w \in Workers : w # None /\ job[w].pc # "cutting"
      BY <1>2, NamesAssumption DEF IInv, Locked
    <3> QED
      BY <1>1, <1>2, <1>3, <3>1, NamesAssumption DEF SaveFails, Locked
  <2>3. Counted'
    BY <1>1, <1>2, <1>3, <2>1 DEF IInv, Counted, Due, SaveFails, HealthType
  <2> QED
    BY <1>1, <1>3, <2>1, <2>2, <2>3, Stays DEF SaveFails, IInv, Typed, snapshots, world
<1>4. CASE Save
  <2> DEFINE d == IF call.target = "all" THEN call.choice ELSE default
             o == IF call.target = "all" THEN override
                  ELSE [override EXCEPT ![call.target] = call.choice]
  <2>1. default' = d /\ override' = o /\ call' = [call EXCEPT !.pc = "saved"] /\ call.pc = "read"
        /\ UNCHANGED <<h, lock>>
    BY <1>4 DEF Save
  <2>2. SettingsTyped'
    <3>1. default \in Sources /\ override \in [Streams -> Sources \cup {None}]
      BY DEF IInv, Typed, SettingsTyped
    <3>2. call.target \in Streams \cup {"all"} /\ call.choice \in Sources \cup {None}
      BY <1>1 DEF Asked
    <3> QED
      BY <1>1, <2>1, <3>1, <3>2 DEF SettingsTyped
  <2> HIDE DEF d, o
  <2>3. ViewsTyped'
    <3>1. view \in [Streams -> ReaderType]
      BY DEF IInv, Typed, ViewsTyped
    <3>2. view' = [s \in Streams |-> Torn(view[s], d, o)]
      BY <1>4 DEF Save, d, o
    <3>3. \A s \in Streams : /\ view'[s] \in ReaderType /\ view'[s].pc = view[s].pc
                             /\ view[s] # Idle => view'[s].stream = view[s].stream
      BY <3>1, <3>2, TornTyped
    <3> QED
      BY <1>1, <3>1, <3>2, <3>3 DEF IInv, Typed, ViewsTyped, Present, Idle, world
  <2>4. call' \in Asked /\ call'.pc = "saved"
    BY <1>1, <2>1 DEF Asked
  <2>5. CallTyped' /\ Counted' /\ Locked'
    BY <1>1, <1>2, <2>1, <2>4, CallMoves DEF CallTyped, CallType, IInv, Counted, Due, Idle
  <2> QED
    BY <1>1, <1>4, <2>1, <2>2, <2>3, <2>5, Stays DEF Save, IInv, Typed
<1>5. CASE Clear
  <2>1. h' = Cleared(h, call.changes) /\ call' = [call EXCEPT !.pc = "cleared"] /\ call.pc = "saved"
        /\ UNCHANGED <<settings, lock, watching, snapshots>>
    BY <1>5 DEF Clear
  <2>2. call' \in Asked /\ call'.pc = "cleared"
    BY <1>1, <2>1 DEF Asked
  <2>3. CallTyped' /\ Locked'
    BY <1>1, <1>2, <2>1, <2>2, CallMoves DEF CallTyped, CallType, Idle
  <2>4. \A s \in Streams : h.revisions[s] \in Nat /\ h.revisions[s] + 1 <= events
    BY <1>2, <2>1 DEF IInv, Counted, Due, HealthType
  <2>5. /\ h'.phase = h.phase /\ h'.queue = h.queue /\ h'.queued = h.queued
        /\ h'.failures = [s \in Streams |-> IF s \in call.changes THEN None ELSE h.failures[s]]
        /\ h'.states = [s \in Streams |-> IF s \in call.changes THEN None ELSE h.states[s]]
        /\ h'.revisions = [s \in Streams |-> IF s \in call.changes THEN h.revisions[s] + 1
                                             ELSE h.revisions[s]]
        /\ h' = [phase |-> h'.phase, queue |-> h'.queue, queued |-> h'.queued,
                 failures |-> h'.failures, states |-> h'.states, revisions |-> h'.revisions]
    BY <1>2, <2>1 DEF Cleared, HealthType
  <2>6. events \in 0..MaxEvents
    BY DEF IInv, Counted
  <2>7. Counted'
    BY <1>1, <2>2, <2>4, <2>5, <2>6 DEF Counted, Due
  <2>8. HealthTyped' /\ SelectionIsCurrent'
    <3>1. h'.revisions \in [Streams -> 0..MaxEvents]
      BY <2>4, <2>5, <2>6, EventsAssumption
    <3>2. h'.failures \in [Streams -> MaybeUrl] /\ h'.states \in [Streams -> Selections \cup {None}]
      BY <1>2, <2>5 DEF HealthType, MaybeUrl
    <3>3. h' \in HealthType
      BY <1>2, <2>5, <3>1, <3>2 DEF HealthType
    <3> QED
      BY <2>5, <3>3 DEF IInv, Typed, HealthTyped, SelectionIsCurrent
  <2>9. Once'
    BY <1>1, <2>5, Calm DEF Keeps, Checking
  <2> QED
    BY <1>1, <2>1, <2>3, <2>7, <2>8, <2>9, Stays DEF IInv, Typed, world
<1>6. CASE Relist
  <2> DEFINE left == {s \in Scope(call.target) : Present(s)}
             cuts == {s \in left : call.old[s] # None /\ call.old[s] # Source(s)}
  <2>1. call' = [pc |-> "each", left |-> left, cuts |-> cuts] /\ call.pc = "cleared"
        /\ UNCHANGED <<settings, h, lock, watching, snapshots>>
    BY <1>6 DEF Relist
  <2>2. left \subseteq Streams
    BY <1>1 DEF Scope, Asked
  <2>3. call' \in Each /\ call'.pc = "each"
    BY <2>1, <2>2 DEF Each
  <2>4. CallTyped' /\ Counted' /\ Locked'
    BY <1>1, <1>2, <2>1, <2>3, CallMoves DEF CallTyped, CallType, IInv, Counted, Due, Idle
  <2> QED
    BY <1>1, <2>1, <2>4, Stays DEF IInv, Typed, world
<1> QED
  BY <1>3, <1>4, <1>5, <1>6

LEMMA EachSteps ==
  ASSUME IInv, SetReturns \/ \E s \in Streams : CutEach(s) \/ QueueEach(s)
  PROVE  IInv'
<1>1. /\ UNCHANGED <<settings, world, job, watching, snapshots, events>>
      /\ call \in Each /\ call # Idle /\ lock = "operator"
  BY DEF SetReturns, CutEach, QueueEach, IInv, Typed, CallTyped, CallType, Asked, Each, Idle, Locked
<1>2. h \in HealthType
  BY DEF IInv, Typed, HealthTyped
<1>3. CASE SetReturns
  <2>1. CallTyped' /\ Due' = 0
    BY <1>3 DEF SetReturns, CallTyped, CallType, Idle, Due
  <2>2. Locked'
    <3>1. \A w \in Workers : w # None /\ job[w].pc # "cutting"
      BY <1>1, NamesAssumption DEF IInv, Locked
    <3> QED
      BY <1>1, <1>3, <3>1, NamesAssumption DEF SetReturns, Locked, Idle
  <2>3. Counted'
    BY <1>1, <1>2, <1>3, <2>1 DEF IInv, Counted, Due, SetReturns, HealthType
  <2> QED
    BY <1>1, <1>3, <2>1, <2>2, <2>3, Stays DEF SetReturns, IInv, Typed, world, snapshots
<1>4. ASSUME NEW s \in Streams, CutEach(s) PROVE IInv'
  <2>1. /\ call' = [call EXCEPT !.cuts = @ \ {s}] /\ cut' = [stream |-> s, at |-> "snapshot"]
        /\ UNCHANGED <<h, lock>>
    BY <1>4 DEF CutEach
  <2>2. call' \in Each /\ call'.pc = "each"
    BY <1>1, <2>1 DEF Each
  <2>3. CallTyped' /\ CutTyped' /\ Counted' /\ Locked'
    BY <1>1, <2>1, <2>2, NamesAssumption
       DEF CallTyped, CallType, CutTyped, IInv, Counted, Due, Locked, Idle, Each
  <2> QED
    BY <1>1, <2>1, <2>3, Stays DEF IInv, Typed, world, snapshots
<1>5. ASSUME NEW s \in Streams, QueueEach(s) PROVE IInv'
  <2>1. /\ call' = [call EXCEPT !.left = @ \ {s}] /\ h' = Queued(h, s, None)
        /\ UNCHANGED <<cut, lock>>
    BY <1>5 DEF QueueEach
  <2>2. call' \in Each /\ call'.pc = "each"
    BY <1>1, <2>1 DEF Each
  <2>3. HealthTyped' /\ SelectionIsCurrent' /\ Once' /\ h'.revisions = h.revisions
    BY <1>1, <2>1, Queueing DEF MaybeUrl, Keeps, Checking
  <2>4. CallTyped' /\ Counted' /\ Locked'
    BY <1>1, <2>1, <2>2, <2>3, CallMoves
       DEF CallTyped, CallType, IInv, Counted, Due, Idle, Each
  <2> QED
    BY <1>1, <2>1, <2>3, <2>4, Stays DEF IInv, Typed, world, snapshots
<1> QED
  BY <1>3, <1>4, <1>5

-----------------------------------------------------------------------------
(* Viewers, snapshots, the world. *)

LEMMA AdvanceTyped ==
  ASSUME IInv, NEW r \in ReaderType, Midway(r),
         r.pc \in {"settings", "probes"} => Present(r.stream)
  PROVE  /\ Advance(r) \in ReaderType
         /\ Advance(r).pc \in {"settings", "probes"} => Present(Advance(r).stream)
<1>1. CASE r.pc = "settings"
  <2>1. r.stream \in Streams /\ r.torn \in BOOLEAN
    BY <1>1 DEF ReaderType, Idle
  <2>2. Advance(r) = SawSettings(r)
    BY <1>1 DEF Advance
  <2> QED
    BY <1>1, <2>1, <2>2, Chosen DEF SawSettings, ReaderType
<1>2. CASE r.pc = "probes"
  <2>1. r.stream \in Streams /\ r.torn \in BOOLEAN /\ r.preferred \in Sources
    BY <1>2 DEF ReaderType, Idle
  <2>2. Advance(r) = SawProbes(r)
    BY <1>2 DEF Advance
  <2>3. urls[r.stream] \in Layouts
    BY <1>2, <2>1, Chosen
  <2> QED
    BY <2>1, <2>2, <2>3 DEF SawProbes, ReaderType
<1>3. CASE r.pc = "selections"
  <2>1. r.stream \in Streams /\ r.torn \in BOOLEAN /\ r.preferred \in Sources
        /\ r.routes \in Layouts
    BY <1>3 DEF ReaderType, Idle
  <2>2. Advance(r) = SawSelections(r)
    BY <1>3 DEF Advance
  <2>3. h.states[r.stream] \in Selections \cup {None}
    BY <2>1 DEF IInv, Typed, HealthTyped, HealthType
  <2> DEFINE e == Effective(r.preferred, r.routes, h.states[r.stream])
  <2>4. e \in Sources /\ r.routes[e] \in Urls
    BY <2>1, <2>3, Routes
  <2>5. SawSelections(r) = [pc |-> "found", stream |-> r.stream, torn |-> r.torn, source |-> e,
                            url |-> r.routes[e]]
    BY DEF SawSelections
  <2> HIDE DEF e
  <2> QED
    BY <2>1, <2>2, <2>4, <2>5 DEF ReaderType
<1>4. CASE r.pc = "found"
  <2>1. r \in [pc : {"found", "open"}, stream : Streams, torn : BOOLEAN, source : Sources,
               url : Urls]
    BY <1>4 DEF ReaderType, Idle
  <2>2. Advance(r) = [r EXCEPT !.pc = "open"]
    BY <1>4 DEF Advance
  <2> QED
    BY <2>1, <2>2 DEF ReaderType
<1> QED
  BY <1>1, <1>2, <1>3, <1>4 DEF Midway

LEMMA ViewSteps ==
  ASSUME IInv, NEW s \in Streams, Open(s) \/ Resolve(s) \/ Fail(s) \/ Leave(s)
  PROVE  IInv'
<1>1. UNCHANGED <<settings, world, h, control, snapshots>>
  BY DEF Open, Resolve, Fail, Leave
<1>2. view \in [Streams -> ReaderType] /\ late \subseteq Streams \X Urls
      /\ \A z \in Streams : view[z].pc \in {"settings", "probes"} => Present(view[z].stream)
  BY DEF IInv, Typed, ViewsTyped
<1>3. PICK x \in ReaderType : /\ view' = [view EXCEPT ![s] = x]
                              /\ x.pc \in {"settings", "probes"} => Present(x.stream)
  <2>1. Idle \in ReaderType /\ Idle.pc = "idle"
    BY DEF Idle, ReaderType
  <2>2. CASE Open(s)
    <3>1. Reading(s) \in ReaderType /\ Reading(s).stream = s
      BY DEF Reading, ReaderType
    <3> QED
      BY <2>2, <3>1 DEF Open
  <2>3. CASE Resolve(s)
    BY <1>2, <2>3, AdvanceTyped DEF Resolve
  <2> QED
    BY <2>1, <2>2, <2>3 DEF Fail, Leave
<1>4. late' \subseteq Streams \X Urls
  <2>1. Fail(s) => view[s].url \in Urls
    BY <1>2 DEF Fail, ReaderType, Idle
  <2> QED
    BY <1>2, <2>1 DEF Open, Resolve, Fail, Leave
<1>5. ViewsTyped'
  BY <1>1, <1>2, <1>3, <1>4 DEF ViewsTyped, Present, world
<1>6. Counted'
  <2>1. events' = events \/ (events < MaxEvents /\ events' = events + 1)
    BY DEF Open, Resolve, Fail, Leave, Spent
  <2> QED
    BY <1>1, <2>1, EventsAssumption
       DEF IInv, Typed, HealthTyped, HealthType, Counted, Due, control
<1> QED
  BY <1>1, <1>5, <1>6, Stays DEF IInv, Typed, control, snapshots

LEMMA ReportStep ==
  ASSUME IInv, NEW s \in Streams, NEW url \in Urls, ReportLiveSourceFailure(s, url)
  PROVE  IInv'
<1>1. /\ UNCHANGED <<settings, world, control, view, snapshots, events>>
      /\ h' = Queued(h, s, url) /\ late' \subseteq late /\ url \in MaybeUrl
  BY DEF ReportLiveSourceFailure, MaybeUrl
<1>2. HealthTyped' /\ SelectionIsCurrent' /\ Once' /\ h'.revisions = h.revisions
  BY <1>1, Queueing DEF Keeps, Checking, control
<1>3. ViewsTyped' /\ Counted'
  BY <1>1, <1>2 DEF IInv, Typed, ViewsTyped, Present, Counted, Due, world, control
<1> QED
  BY <1>1, <1>2, <1>3, Stays DEF IInv, Typed, control, snapshots

LEMMA SnapshotSteps ==
  ASSUME IInv, NEW q \in Requests,
         \/ \E s \in Streams : SnapshotBegins(q, s)
         \/ SnapshotResolves(q) \/ SnapshotStores(q) \/ SnapshotFallsBack(q) \/ SnapshotEnds(q)
  PROVE  IInv'
<1>1. UNCHANGED <<settings, world, h, control, watching, events>>
  BY DEF SnapshotBegins, SnapshotResolves, SnapshotStores, SnapshotFallsBack, SnapshotEnds
<1>2. FlightsTyped'
  BY DEF SnapshotBegins, SnapshotResolves, SnapshotStores, SnapshotFallsBack, SnapshotEnds, IInv,
         Typed, FlightsTyped
<1> QED
  BY <1>1, <1>2, Stays DEF IInv, Typed, control, world

LEMMA WorldSteps ==
  ASSUME IInv, \/ \E s \in Streams, l \in Layouts : RoutesChange(s, l)
               \/ \E url \in Urls : Flip(url)
  PROVE  IInv'
<1>1. /\ UNCHANGED <<settings, h, control, watching, snapshots>>
      /\ events < MaxEvents /\ events' = events + 1
  BY DEF RoutesChange, Flip, Spent
<1>2. WorldTyped' /\ \A s \in Streams : Present(s) => Present(s)'
  BY NamesAssumption DEF IInv, Typed, WorldTyped, Present, RoutesChange, Flip
<1>3. ViewsTyped'
  <2>1. \A s \in Streams : view[s].pc \in {"settings", "probes"} => view[s].stream \in Streams
    BY DEF IInv, Typed, ViewsTyped, ReaderType, Idle
  <2> QED
    BY <1>1, <1>2, <2>1 DEF IInv, Typed, ViewsTyped, watching
<1>4. Counted'
  BY <1>1, EventsAssumption DEF IInv, Typed, HealthTyped, HealthType, Counted, Due, control
<1> QED
  BY <1>1, <1>2, <1>3, <1>4, Stays DEF IInv, Typed, control, snapshots

-----------------------------------------------------------------------------
LEMMA IInvInit == Init => IInv
<1> SUFFICES ASSUME Init PROVE IInv
  OBVIOUS
<1>1. h \in HealthType /\ Len(h.queue) = 0
  BY EventsAssumption DEF Init, HealthType, MaybeUrl
<1>2. SettingsTyped /\ WorldTyped /\ JobsTyped /\ FlightsTyped /\ CallTyped /\ CutTyped
  BY DEF Init, SettingsTyped, WorldTyped, JobsTyped, JobType, FlightsTyped, CallTyped, CallType,
         CutTyped, Idle
<1>3. ViewsTyped
  BY DEF Init, ViewsTyped, ReaderType, Idle
<1>4. Locked
  BY NamesAssumption DEF Init, Locked, Idle
<1>5. Counted /\ Once /\ SelectionIsCurrent
  BY <1>1, EventsAssumption DEF Init, Counted, Due, Once, Checking, SelectionIsCurrent, Idle
<1> QED
  BY <1>1, <1>2, <1>3, <1>4, <1>5, QueueAssumption DEF IInv, Typed, HealthTyped

LEMMA IInvNext == IInv /\ [Next]_vars => IInv'
<1> SUFFICES ASSUME IInv, [Next]_vars PROVE IInv'
  OBVIOUS
<1>1. ASSUME NEW w \in Workers, WorkerStep(w) PROVE IInv'
  BY <1>1, TakeStep, CheckSteps, ApplyStep, FinishSteps DEF WorkerStep
<1>2. CASE CallStep
  BY <1>2, AskedSteps, EachSteps DEF CallStep
<1>3. CASE UNCHANGED vars
  BY <1>3, Stays DEF vars, IInv, Typed, settings, world, watching, control
<1> QED
  BY <1>1, <1>2, <1>3, HealthSteps, CutSteps, SetBeginsStep, ViewSteps, ReportStep, SnapshotSteps,
     WorldSteps DEF Next

-----------------------------------------------------------------------------
(* What readers find: a second invariant, on top of IInv. *)

Captured == [pc : {"open"}, stream : Streams, torn : BOOLEAN, source : Sources, url : Urls]
Own == [pc : {"own"}, stream : Streams, stale : BOOLEAN]
RequestType == ReaderType \cup [pc : {"stored"}, stream : Streams]
CaptureTyped ==
    /\ request \in [Requests -> RequestType] /\ cache \in [Streams -> Captured \cup Own \cup {None}]
    /\ \A q \in Requests : request[q] # Idle => Present(request[q].stream)

\* A reader, a flight or a cached snapshot is of the stream it is kept for.
Owned ==
    \A s \in Streams :
        /\ view[s] # Idle => view[s].stream = s /\ Present(s)
        /\ flight[s] # None => request[flight[s]] # Idle /\ request[flight[s]].stream = s
        /\ cache[s] # None => cache[s].stream = s /\ Present(s)

\* A check knows which routes there were when it began, and unless the operator has spoken since
\* its stream is still where it found it.
Aimed ==
    \A w \in Workers : job[w] \in Check =>
        LET j == job[w] IN
        /\ j.revision <= h.revisions[j.stream]
        /\ j.signature[2][j.current] # None
        /\ \A source \in j.good : j.signature[2][source] # None
        /\ j.revision = h.revisions[j.stream] =>
              Effective(j.signature[1], j.signature[2], h.states[j.stream]) = j.current

\* The streams with the routes they had at first.
Still(s) == s \notin moved /\ Present(s)

\* A selection is for the preference of its stream, or about to be dropped.
Signed ==
    \A s \in Streams : Still(s) /\ h.states[s] # None =>
        \/ h.states[s].signature = Signature(s)
        \/ call.pc = "saved" /\ s \in call.changes

\* What the operator's call has read, and what it has done to each stream since.
Asking == call.pc \in {"read", "saved", "cleared"}
Plain(s) == Effective(Preferred(s), urls[s], None)
Saved(s) ==
    PreferredUnder(IF call.target = "all" THEN call.choice ELSE default,
                   IF call.target = "all" THEN override
                   ELSE [override EXCEPT ![call.target] = call.choice], s)
Told(s) ==
    /\ call.old[s] \in Sources
    /\ call.pc = "read" => /\ call.old[s] = Source(s)
                           /\ s \in call.changes \/ Saved(s) = Preferred(s)
    /\ call.pc = "saved" => Source(s) \in {call.old[s], Plain(s)}
    /\ s \in call.changes \/ call.old[s] = Source(s)
CallFits ==
    /\ Asking => /\ call.changes \subseteq Scope(call.target)
                 /\ \A s \in Streams : Still(s) => Told(s)
    /\ call.pc = "each" => call.cuts \subseteq call.left

\* A reader in the middle of its readings has read nothing that is no longer so, unless it is torn.
Reads(r, preferred, routes, still) ==
    /\ r.pc \in {"probes", "selections"} /\ ~r.torn => r.preferred = preferred
    /\ r.pc = "selections" /\ still => r.routes = routes
ReadsTrue ==
    /\ \A s \in Streams : Reads(view[s], Preferred(s), urls[s], s \notin moved)
    /\ \A q \in Requests :
         request[q] # Idle => LET s == request[q].stream IN
                              Reads(request[q], Preferred(s), urls[s], s \notin moved)

\* A reader that has found its source found the one the catalog names, or named when the
\* operator's call began; otherwise somebody is going to cut it.
Found(r, good) == r.pc \in {"found", "open"} /\ ~r.torn => r.url \in good
Named(s) == {Url(s)} \cup (IF Asking THEN {urls[s][call.old[s]]} ELSE {})
Excused(s, before) ==
    \/ s \in moved
    \/ call.pc = "each" /\ s \in call.cuts
    \/ cut # None /\ cut.stream = s /\ cut.at \in before
Finds ==
    \A s \in Streams :
        /\ Excused(s, {"snapshot", "view"}) \/ Found(view[s], Named(s))
        /\ \/ Excused(s, {"snapshot"})
           \/ /\ flight[s] # None => Found(request[flight[s]], Named(s))
              /\ cache[s] # None => Found(cache[s], Named(s))

Follow == CaptureTyped /\ Owned /\ Aimed /\ Signed /\ CallFits /\ ReadsTrue /\ Finds

-----------------------------------------------------------------------------
(* Steps that change neither a preference nor a selection. *)

Alike(x, y) ==
    \/ x = y
    \/ x # None /\ y # None /\ x.signature = y.signature /\ x.source = y.source
Even ==
    /\ UNCHANGED settings /\ h'.revisions = h.revisions /\ moved \subseteq moved'
    /\ \A s \in Streams : /\ Alike(h'.states[s], h.states[s]) /\ (Present(s) => Present(s)')
                          /\ s \in moved' \/ urls'[s] = urls[s]

LEMMA SameEven ==
  ASSUME UNCHANGED <<settings, urls, moved>>, h'.states = h.states, h'.revisions = h.revisions
  PROVE  Even
BY DEF Even, Alike, Present, settings

LEMMA AlikeSame ==
  ASSUME NEW p, NEW l, NEW x, NEW y, Alike(x, y)
  PROVE  Effective(p, l, x) = Effective(p, l, y)
BY DEF Alike, Effective

LEMMA EvenSame ==
  ASSUME Even, NEW s \in Streams
  PROVE  /\ Preferred(s)' = Preferred(s)
         /\ \A p, l : Effective(p, l, h'.states[s]) = Effective(p, l, h.states[s])
         /\ s \notin moved' =>
              /\ s \notin moved /\ urls'[s] = urls[s]
              /\ Source(s)' = Source(s) /\ Url(s)' = Url(s) /\ Plain(s)' = Plain(s)
              /\ Signature(s)' = Signature(s) /\ (Present(s)' <=> Present(s))
<1>1. Preferred(s)' = Preferred(s)
  BY DEF Even, Preferred, settings
<1>2. \A p, l : Effective(p, l, h'.states[s]) = Effective(p, l, h.states[s])
  BY AlikeSame DEF Even
<1>3. s \notin moved' => s \notin moved /\ urls'[s] = urls[s]
  BY DEF Even
<1>4. s \notin moved' => Source(s)' = Source(s) /\ Plain(s)' = Plain(s)
  BY <1>1, <1>2, <1>3 DEF Source, Plain
<1> QED
  BY <1>1, <1>2, <1>3, <1>4 DEF Url, Signature, Present

LEMMA EvenAimed == ASSUME IInv, Aimed, Even, UNCHANGED job PROVE Aimed'
<1> SUFFICES ASSUME NEW w \in Workers, job'[w] \in Check
             PROVE  LET j == job'[w] IN
                    /\ j.revision <= h'.revisions[j.stream]
                    /\ j.signature[2][j.current] # None
                    /\ \A source \in j.good : j.signature[2][source] # None
                    /\ j.revision = h'.revisions[j.stream] =>
                         Effective(j.signature[1], j.signature[2], h'.states[j.stream]) = j.current
  BY DEF Aimed
<1>1. job'[w].stream \in Streams
  BY DEF Check
<1> QED
  BY <1>1, EvenSame DEF Aimed, Even

LEMMA EvenSigned ==
  ASSUME Signed, Even, UNCHANGED call \/ call.pc # "saved" PROVE Signed'
<1> SUFFICES ASSUME NEW s \in Streams, Still(s)', h'.states[s] # None
             PROVE  \/ h'.states[s].signature = Signature(s)'
                    \/ call'.pc = "saved" /\ s \in call'.changes
  BY DEF Signed
<1>1. Still(s) /\ Signature(s)' = Signature(s)
  BY EvenSame DEF Still
<1>2. h.states[s] # None /\ h'.states[s].signature = h.states[s].signature
  BY DEF Even, Alike
<1> QED
  BY <1>1, <1>2 DEF Signed

LEMMA EvenCall == ASSUME CallFits, Even, UNCHANGED call PROVE CallFits'
<1>1. Asking' => Asking /\ call'.changes \subseteq Scope(call'.target)
  BY DEF CallFits, Asking, Scope
<1>2. ASSUME NEW s \in Streams, Still(s)', Asking PROVE Told(s)'
  <2>1. /\ Still(s) /\ Source(s)' = Source(s) /\ Plain(s)' = Plain(s)
        /\ Preferred(s)' = Preferred(s)
    BY <1>2, EvenSame DEF Still
  <2>2. Saved(s)' = Saved(s)
    BY DEF Saved, Even, settings
  <2>3. Told(s)
    BY <1>2, <2>1 DEF CallFits
  <2> QED
    BY <2>1, <2>2, <2>3 DEF Told
<1> QED
  BY <1>1, <1>2 DEF CallFits, Asking

\* Readers that do not move on.
LEMMA EvenReads ==
  ASSUME Even, NEW s \in Streams, NEW r, Reads(r, Preferred(s), urls[s], s \notin moved)
  PROVE  Reads(r, Preferred(s)', urls'[s], s \notin moved')
BY EvenSame DEF Reads

LEMMA EvenNamed ==
  ASSUME Even, UNCHANGED call, NEW s \in Streams, s \notin moved'
  PROVE  Named(s)' = Named(s)
BY EvenSame DEF Named, Asking

LEMMA EvenFinds ==
  ASSUME Finds, Even, UNCHANGED <<call, cut, view, request, flight, cache>>
  PROVE  Finds'
<1> SUFFICES ASSUME NEW s \in Streams
             PROVE  /\ Excused(s, {"snapshot", "view"})' \/ Found(view'[s], Named(s)')
                    /\ \/ Excused(s, {"snapshot"})'
                       \/ /\ flight'[s] # None => Found(request'[flight'[s]], Named(s)')
                          /\ cache'[s] # None => Found(cache'[s], Named(s)')
  BY DEF Finds
<1>1. CASE s \in moved'
  BY <1>1 DEF Excused
<1>2. CASE s \notin moved'
  <2>1. Named(s)' = Named(s) /\ s \notin moved
    BY <1>2, EvenNamed, EvenSame
  <2>2. \A x : Excused(s, x) => Excused(s, x)'
    BY <1>2, <2>1 DEF Excused
  <2> QED
    BY <2>1, <2>2 DEF Finds
<1> QED
  BY <1>1, <1>2

LEMMA EvenOwned ==
  ASSUME CaptureTyped, Owned, IInv, Even, UNCHANGED <<view, request, flight, cache>>
  PROVE  CaptureTyped' /\ Owned'
<1>1. \A s \in Streams : Present(s) => Present(s)'
  BY DEF Even
<1>2. \A q \in Requests : request[q] # Idle => request[q].stream \in Streams
  BY DEF CaptureTyped, RequestType, ReaderType
<1> QED
  BY <1>1, <1>2 DEF CaptureTyped, Owned

LEMMA EvenReadsTrue ==
  ASSUME CaptureTyped, ReadsTrue, Even, UNCHANGED <<view, request>>
  PROVE  ReadsTrue'
<1>1. \A q \in Requests : request[q] # Idle => request[q].stream \in Streams
  BY DEF CaptureTyped, RequestType, ReaderType
<1>2. ASSUME NEW s \in Streams PROVE Reads(view'[s], Preferred(s)', urls'[s], s \notin moved')
  BY EvenReads DEF ReadsTrue
<1>3. ASSUME NEW q \in Requests, request'[q] # Idle, NEW s \in Streams, s = request[q].stream
      PROVE  Reads(request'[q], Preferred(s)', urls'[s], s \notin moved')
  <2>1. Reads(request[q], Preferred(s), urls[s], s \notin moved)
    BY <1>3 DEF ReadsTrue
  <2> QED
    BY <2>1, EvenReads
<1> QED
  BY <1>1, <1>2, <1>3 DEF ReadsTrue

\* Steps of the checks and of the queue.
LEMMA EvenStep ==
  ASSUME IInv, Follow, Even, UNCHANGED <<call, cut, view, request, flight, cache>>, Aimed'
  PROVE  Follow'
BY EvenOwned, EvenSigned, EvenCall, EvenReadsTrue, EvenFinds DEF Follow

-----------------------------------------------------------------------------
(* The health workers. *)

LEMMA QueuedSame ==
  ASSUME IInv, NEW s \in Streams, NEW url \in MaybeUrl, h' = Queued(h, s, url)
  PROVE  h'.states = h.states /\ h'.revisions = h.revisions
BY QueueingTyped

LEMMA HealthFollows ==
  ASSUME IInv, Follow, StartHealth \/ StopHealth
               \/ \E s \in Streams : Tick(s) \/ \E source \in Sources : CooldownEnds(s, source)
  PROVE  Follow'
<1>1. UNCHANGED <<settings, world, control, watching, snapshots>>
  BY DEF StartHealth, StopHealth, Tick, CooldownEnds
<1>2. UNCHANGED <<urls, moved, call, cut, job, view, request, flight, cache>>
  BY <1>1 DEF world, control, watching, snapshots
<1>3. h \in HealthType
  BY DEF IInv, Typed, HealthTyped
<1>4. Even
  <2>1. CASE StartHealth \/ StopHealth
    <3>1. h'.states = h.states /\ h'.revisions = h.revisions
      BY <1>3, <2>1 DEF StartHealth, StopHealth, HealthType
    <3> QED
      BY <1>1, <1>2, <3>1, SameEven
  <2>2. ASSUME NEW s \in Streams, Tick(s) PROVE Even
    <3>1. h' = Queued(h, s, None) /\ None \in MaybeUrl
      BY <2>2 DEF Tick, MaybeUrl
    <3>2. h'.states = h.states /\ h'.revisions = h.revisions
      BY <3>1, QueuedSame
    <3> QED
      BY <1>1, <1>2, <3>2, SameEven
  <2>3. ASSUME NEW s \in Streams, NEW source \in Sources, CooldownEnds(s, source) PROVE Even
    <3>1. h.states[s] \in Selections /\ h.states \in [Streams -> Selections \cup {None}]
      BY <1>3, <2>3 DEF CooldownEnds, HealthType
    <3> DEFINE x == [h.states[s] EXCEPT !.cooling = @ \ {source}]
    <3>2. x \in Selections /\ Alike(x, h.states[s])
      BY <3>1, NoneAssumption DEF Selections, Alike
    <3>3. h' = [h EXCEPT !.states[s] = x]
      BY <1>3, <2>3, <3>1 DEF CooldownEnds, HealthType, Selections
    <3> HIDE DEF x
    <3>4. h'.states = [h.states EXCEPT ![s] = x] /\ h'.revisions = h.revisions
      BY <1>3, <3>3 DEF HealthType
    <3>5. \A z \in Streams : Alike(h'.states[z], h.states[z])
      BY <3>1, <3>2, <3>4 DEF Alike
    <3> QED
      BY <1>1, <1>2, <3>4, <3>5 DEF Even, Present
  <2> QED
    BY <2>1, <2>2, <2>3
<1> QED
  BY <1>2, <1>4, EvenStep, EvenAimed DEF Follow

LEMMA AimedSet ==
  ASSUME IInv, Aimed, Even, NEW w \in Workers, NEW x, job' = [job EXCEPT ![w] = x],
         x \in Check =>
           /\ x.stream \in Streams /\ x.revision <= h.revisions[x.stream]
           /\ x.signature[2][x.current] # None
           /\ \A source \in x.good : x.signature[2][source] # None
           /\ x.revision = h.revisions[x.stream] =>
                Effective(x.signature[1], x.signature[2], h.states[x.stream]) = x.current
  PROVE  Aimed'
<1>1. job'[w] = x /\ \A v \in Workers : v # w => job'[v] = job[v]
  BY JobSet
<1>2. ASSUME NEW v \in Workers, job'[v] \in Check
      PROVE  LET j == job'[v] IN
             /\ j.revision <= h'.revisions[j.stream]
             /\ j.signature[2][j.current] # None
             /\ \A source \in j.good : j.signature[2][source] # None
             /\ j.revision = h'.revisions[j.stream] =>
                  Effective(j.signature[1], j.signature[2], h'.states[j.stream]) = j.current
  <2>1. job'[v].stream \in Streams
    BY <1>2 DEF Check
  <2>2. CASE v = w
    BY <1>1, <1>2, <2>1, <2>2, EvenSame DEF Even
  <2>3. CASE v # w
    BY <1>1, <1>2, <2>1, <2>3, EvenSame DEF Aimed, Even
  <2> QED
    BY <2>2, <2>3
<1> QED
  BY <1>2 DEF Aimed

LEMMA AimedAway ==
  ASSUME IInv, Aimed, Even, NEW w \in Workers, NEW x, job' = [job EXCEPT ![w] = x],
         x.pc \notin {"current", "other", "decided"}
  PROVE  Aimed'
<1>1. x \notin Check
  BY DEF Check
<1> QED
  BY <1>1, AimedSet

LEMMA JobFollows ==
  ASSUME IInv, Follow, NEW w \in Workers,
         Take(w) \/ Snapshot(w) \/ ProbeCurrent(w) \/ ProbeOther(w) \/ FinishCut(w) \/ Finish(w)
         \/ Requeue(w)
  PROVE  Follow'
<1>1. UNCHANGED <<settings, urls, moved, call, cut, view, request, flight, cache>>
  BY DEF Take, Snapshot, ProbeCurrent, ProbeOther, FinishCut, Finish, Requeue, settings, world,
         watching, snapshots
<1>2. job[w] \in JobType /\ h \in HealthType
  BY DEF IInv, Typed, JobsTyped, HealthTyped
<1>3. Even
  <2>1. h'.states = h.states /\ h'.revisions = h.revisions
    <3>1. CASE Requeue(w)
      <4>1. job[w].stream \in Streams /\ None \in MaybeUrl /\ h' = Queued(h, job[w].stream, None)
        BY <1>2, <3>1 DEF Requeue, JobType, Taken, Check, Ending, Idle, MaybeUrl
      <4> QED
        BY <4>1, QueuedSame
    <3>2. CASE Take(w) \/ Finish(w)
      BY <1>2, <3>2 DEF Take, Finish, HealthType
    <3> QED
      BY <3>1, <3>2 DEF Snapshot, ProbeCurrent, ProbeOther, FinishCut
  <2> QED
    BY <1>1, <2>1, SameEven
<1>4. Aimed'
  <2>1. CASE Take(w) \/ FinishCut(w) \/ Finish(w) \/ Requeue(w)
    <3>1. CASE Take(w)
      BY <1>3, <3>1, AimedAway DEF Take, Follow
    <3>2. CASE FinishCut(w)
      <4>1. job[w] \in Ending
        BY <1>2, <3>2 DEF FinishCut, JobType, Taken, Check, Ending, Idle
      <4>2. [job[w] EXCEPT !.pc = "done"].pc = "done"
        BY <4>1 DEF Ending
      <4>3. job' = [job EXCEPT ![w] = [job[w] EXCEPT !.pc = "done"]]
        BY <3>2 DEF FinishCut
      <4> QED
        BY <1>3, <4>2, <4>3, AimedAway DEF Follow
    <3>3. CASE Finish(w)
      <4> DEFINE x == IF h.failures[job[w].stream] = None THEN Idle
                      ELSE [pc |-> "requeue", stream |-> job[w].stream]
      <4>1. job' = [job EXCEPT ![w] = x]
        BY <3>3 DEF Finish
      <4>2. x.pc \in {"idle", "requeue"}
        BY DEF Idle
      <4> HIDE DEF x
      <4> QED
        BY <1>3, <4>1, <4>2, AimedAway DEF Follow
    <3>4. CASE Requeue(w)
      <4>1. Idle.pc = "idle" /\ job' = [job EXCEPT ![w] = Idle]
        BY <3>4 DEF Requeue, Idle
      <4> QED
        BY <1>3, <4>1, AimedAway DEF Follow
    <3> QED
      BY <2>1, <3>1, <3>2, <3>3, <3>4
  <2>2. CASE Snapshot(w)
    <3> DEFINE s == job[w].stream
               ends == [pc |-> "done", stream |-> s]
               fresh == [pc |-> "current", stream |-> s, revision |-> h.revisions[s],
                         signature |-> Signature(s), current |-> Source(s),
                         skips |-> Cooling(s), failed |-> {}, good |-> {}]
               second == [fresh EXCEPT !.pc = "other", !.failed = {Source(s)}]
    <3>1. PICK x \in {ends, fresh, second} :
            job' = [job EXCEPT ![w] = x] /\ (x = ends \/ Present(s))
      BY <2>2 DEF Snapshot
    <3>2. s \in Streams
      BY <1>2, <2>2 DEF Snapshot, JobType, Taken, Check, Ending, Idle
    <3>3. ends \notin Check
      BY DEF Check
    <3>4. x # ends =>
            /\ x.stream = s /\ x.revision = h.revisions[s] /\ x.signature = Signature(s)
            /\ x.current = Source(s) /\ x.good = {}
      <4>1. /\ fresh.stream = s /\ fresh.revision = h.revisions[s] /\ fresh.signature = Signature(s)
            /\ fresh.current = Source(s) /\ fresh.good = {}
        OBVIOUS
      <4>2. /\ second.stream = s /\ second.revision = h.revisions[s]
            /\ second.signature = Signature(s)
            /\ second.current = Source(s) /\ second.good = {}
        OBVIOUS
      <4> HIDE DEF fresh, second
      <4> QED
        BY <3>1, <4>1, <4>2
    <3>5. x # ends => Url(s) \in Urls
      BY <3>1, <3>2, Chosen
    <3>6. h.revisions[s] \in Nat
      BY <1>2, <3>2 DEF HealthType
    <3> HIDE DEF ends, fresh, second
    <3>7. x # ends => /\ x.signature[2][x.current] # None
                      /\ Effective(x.signature[1], x.signature[2], h.states[s]) = x.current
      BY <3>4, <3>5 DEF Signature, Url, Urls, Source
    <3>8. x \in Check =>
            /\ x.stream \in Streams /\ x.revision <= h.revisions[x.stream]
            /\ x.signature[2][x.current] # None
            /\ \A source \in x.good : x.signature[2][source] # None
            /\ x.revision = h.revisions[x.stream] =>
                 Effective(x.signature[1], x.signature[2], h.states[x.stream]) = x.current
      BY <3>2, <3>3, <3>4, <3>6, <3>7
    <3> QED
      BY <1>3, <3>1, <3>8, AimedSet DEF Follow
  <2>3. CASE ProbeCurrent(w) \/ ProbeOther(w)
    <3>1. job[w] \in Check
      BY <1>2, <2>3 DEF ProbeCurrent, ProbeOther, JobType, Taken, Check, Ending, Idle
    <3>2. PICK source \in Sources, pc \in {"other", "decided"} :
            job' = [job EXCEPT ![w] = [Checked(job[w], source) EXCEPT !.pc = pc]]
      <4>1. job[w].current \in Sources /\ Other(job[w].current) \in Sources
        BY <3>1 DEF Check, Other, Sources
      <4> QED
        BY <2>3, <4>1 DEF ProbeCurrent, ProbeOther
    <3> DEFINE x == [Checked(job[w], source) EXCEPT !.pc = pc]
    <3>3. /\ x.stream = job[w].stream /\ x.revision = job[w].revision
          /\ x.signature = job[w].signature /\ x.current = job[w].current
          /\ x.good \subseteq job[w].good \cup {source}
          /\ source \in x.good => source \in job[w].good \/ job[w].signature[2][source] # None
      BY <3>1 DEF Checked, Check
    <3>4. job[w].stream \in Streams
      BY <3>1 DEF Check
    <3>5. job' = [job EXCEPT ![w] = x]
      BY <3>2
    <3> HIDE DEF x
    <3>6. /\ x.stream \in Streams /\ x.revision <= h.revisions[x.stream]
          /\ x.signature[2][x.current] # None
          /\ \A z \in x.good : x.signature[2][z] # None
          /\ x.revision = h.revisions[x.stream] =>
               Effective(x.signature[1], x.signature[2], h.states[x.stream]) = x.current
      BY <3>1, <3>3, <3>4 DEF Follow, Aimed
    <3> QED
      BY <1>3, <3>5, <3>6, AimedSet DEF Follow
  <2> QED
    BY <2>1, <2>2, <2>3
<1> QED
  BY <1>1, <1>3, <1>4, EvenStep

\* What a check publishes: the stream is where the check found it, and goes where it decides.
LEMMA Published ==
  ASSUME IInv, Aimed, NEW w \in Workers, Apply(w), NEW j, j = job[w], NEW s, s = j.stream,
         ~Outdated(j)
  PROVE  /\ j \in Check /\ s \in Streams
         /\ Preferred(s)' = Preferred(s) /\ Source(s) = j.current /\ Source(s)' = Decision(j)
         /\ h'.states[s] # None => h'.states[s].signature = Signature(s)
         /\ h'.revisions = h.revisions
         /\ \A z \in Streams : z # s => h'.states[z] = h.states[z]
<1>1. j \in Check /\ s \in Streams
  <2>1. j \in JobType /\ j.pc = "decided"
    BY DEF IInv, Typed, JobsTyped, Apply
  <2>2. j \in Check
    BY <2>1 DEF JobType, Taken, Check, Ending, Idle
  <2> QED
    BY <2>2 DEF Check
<1>2. UNCHANGED <<settings, urls>> /\ h \in HealthType
  BY DEF Apply, world, settings, IInv, Typed, HealthTyped
<1> DEFINE y == [source |-> Decision(j), signature |-> j.signature,
                 cooling |-> Cooling(s) \cup j.failed, madeAt |-> j.revision]
<1>3. h' = [h EXCEPT !.states[s] = y]
  BY DEF Apply
<1>4. y \in Selections /\ y.signature = j.signature /\ y.source = Decision(j)
  <2>1. Decision(j) \in Sources
    BY <1>1 DEF Decision, Check, Other, Sources
  <2>2. Cooling(s) \subseteq Sources
    <3>1. h.states[s] \in Selections \cup {None}
      BY <1>1, <1>2 DEF HealthType
    <3> QED
      BY <3>1 DEF Cooling, Selections
  <2> QED
    BY <1>1, <2>1, <2>2 DEF Selections, Check
<1> HIDE DEF y
<1>5. h'.states = [h.states EXCEPT ![s] = y] /\ h'.revisions = h.revisions
  BY <1>2, <1>3 DEF HealthType
<1>6. h'.states[s] = y /\ \A z \in Streams : z # s => h'.states[z] = h.states[z]
  BY <1>1, <1>2, <1>5 DEF HealthType
<1>7. /\ j.signature = Signature(s) /\ j.revision = h.revisions[s]
      /\ j.signature[1] = Preferred(s) /\ j.signature[2] = urls[s]
  BY DEF Outdated, Signature
<1>8. Source(s) = j.current /\ urls[s][Decision(j)] # None
  BY <1>1, <1>7 DEF Aimed, Source, Decision
<1>9. Preferred(s)' = Preferred(s)
  BY <1>2 DEF Preferred, settings
<1>10. y # None
  BY <1>4, NoneAssumption
<1>11. Effective(Preferred(s), urls[s], y) = Decision(j)
  BY <1>4, <1>7, <1>8, <1>10 DEF Effective, Signature
<1>12. Source(s)' = Decision(j)
  BY <1>2, <1>6, <1>9, <1>11 DEF Source
<1> QED
  BY <1>1, <1>4, <1>5, <1>6, <1>7, <1>8, <1>9, <1>12

LEMMA ApplyFollows == ASSUME IInv, Follow, NEW w \in Workers, Apply(w) PROVE Follow'
<1> PICK j, s : j = job[w] /\ s = j.stream
  OBVIOUS
<1> DEFINE done == [pc |-> "done", stream |-> s]
           cutting == [pc |-> "cutting", stream |-> s]
<1>1. j \in Check /\ s \in Streams /\ Checking(w) /\ lock = None
  <2>1. j \in JobType /\ j.pc = "decided" /\ lock = None
    BY DEF IInv, Typed, JobsTyped, Apply
  <2>2. j \in Check
    BY <2>1 DEF JobType, Taken, Check, Ending, Idle
  <2> QED
    BY <2>1, <2>2 DEF Check, Checking
<1>2. /\ UNCHANGED <<settings, urls, moved, call, view, request, flight, cache>>
      /\ cut = None /\ call = Idle
  BY <1>1, NamesAssumption DEF Apply, world, watching, snapshots, settings, IInv, Locked
<1>3. done.pc = "done" /\ cutting.pc = "cutting"
  OBVIOUS
<1>4. CASE Outdated(j)
  <2>1. job' = [job EXCEPT ![w] = done] /\ UNCHANGED <<h, lock, cut>>
    BY <1>4 DEF Apply
  <2> HIDE DEF done
  <2>2. Even
    BY <1>2, <2>1, SameEven
  <2>3. Aimed'
    BY <1>3, <2>1, <2>2, AimedAway DEF Follow
  <2> QED
    BY <1>2, <2>1, <2>2, <2>3, EvenStep
<1>5. CASE ~Outdated(j)
  <2>1. \/ job' = [job EXCEPT ![w] = done] /\ Source(s) = Decision(j) /\ UNCHANGED cut
        \/ /\ job' = [job EXCEPT ![w] = cutting] /\ Source(s) # Decision(j)
           /\ cut' = [stream |-> s, at |-> "snapshot"]
    BY <1>5 DEF Apply
  <2> HIDE DEF done, cutting
  <2>2. /\ Preferred(s)' = Preferred(s) /\ Source(s)' = Decision(j)
        /\ h'.states[s] # None => h'.states[s].signature = Signature(s)
        /\ h'.revisions = h.revisions
        /\ \A z \in Streams : z # s => h'.states[z] = h.states[z]
    BY <1>5, Published DEF Follow
  <2>3. \A z \in Streams :
           /\ Preferred(z)' = Preferred(z) /\ Signature(z)' = Signature(z)
           /\ z # s \/ Source(s) = Decision(j) => Source(z)' = Source(z)
    <3>1. \A z \in Streams : Preferred(z)' = Preferred(z)
      BY <1>2 DEF Preferred, settings
    <3>2. \A z \in Streams : Signature(z)' = Signature(z)
      BY <1>2, <3>1 DEF Signature
    <3>3. \A z \in Streams : z # s => Source(z)' = Source(z)
      BY <1>2, <2>2, <3>1 DEF Source
    <3> QED
      BY <2>2, <3>1, <3>2, <3>3
  <2>4. CaptureTyped' /\ Owned' /\ ReadsTrue'
    <3>1. CaptureTyped' /\ Owned'
      BY <1>2 DEF Follow, CaptureTyped, Owned, Present
    <3>2. \A q \in Requests : request[q] # Idle => request[q].stream \in Streams
      BY DEF Follow, CaptureTyped, RequestType, ReaderType
    <3> QED
      BY <1>2, <2>3, <3>1, <3>2 DEF Follow, ReadsTrue
  <2>5. Aimed'
    <3>1. /\ \A v \in Workers : v # w => job'[v] = job[v]
          /\ job'[w] \in {done, cutting}
      BY <2>1, JobSet
    <3>2. job'[w] \notin Check
      BY <1>3, <3>1 DEF Check
    <3>3. ASSUME NEW v \in Workers, v # w, job[v] \in Check
          PROVE  job[v].stream \in Streams /\ job[v].stream # s
      <4>1. Checking(v)
        BY <3>3 DEF Check, Checking
      <4> QED
        BY <1>1, <3>3, <4>1 DEF IInv, Once, Check
    <3> QED
      BY <2>2, <3>1, <3>2, <3>3 DEF Follow, Aimed
  <2>6. Signed'
    <3> SUFFICES ASSUME NEW z \in Streams, Still(z)', h'.states[z] # None
                 PROVE  h'.states[z].signature = Signature(z)'
      BY DEF Signed
    <3>1. CASE z = s
      BY <2>2, <2>3, <3>1
    <3>2. CASE z # s
      BY <1>2, <2>2, <2>3, <3>2 DEF Follow, Signed, Still, Present, Idle
    <3> QED
      BY <3>1, <3>2
  <2>7. CallFits'
    BY <1>2 DEF CallFits, Asking, Idle
  <2>8. Finds'
    <3> SUFFICES ASSUME NEW z \in Streams, z \notin moved', cut' = None \/ z # s
                 PROVE  /\ Found(view'[z], Named(z)')
                        /\ flight'[z] # None => Found(request'[flight'[z]], Named(z)')
                        /\ cache'[z] # None => Found(cache'[z], Named(z)')
      <4>1. cut' # None => cut'.stream = s /\ cut'.at = "snapshot"
        BY <1>2, <2>1
      <4> QED
        BY <4>1 DEF Finds, Excused
    <3>1. Named(z)' = {Url(z)'} /\ Named(z) = {Url(z)}
      BY <1>2 DEF Named, Asking, Idle
    <3>2. cut' = None => Source(s) = Decision(j)
      BY <1>1, <2>1, NoneAssumption
    <3>3. Named(z)' = Named(z)
      BY <1>2, <2>3, <3>1, <3>2 DEF Url
    <3>4. ~Excused(z, {"snapshot", "view"}) /\ ~Excused(z, {"snapshot"})
      BY <1>2 DEF Excused, Idle
    <3> QED
      BY <1>2, <3>3, <3>4 DEF Follow, Finds
  <2> QED
    BY <2>4, <2>5, <2>6, <2>7, <2>8 DEF Follow
<1> QED
  BY <1>4, <1>5

-----------------------------------------------------------------------------
(* Invalidation and the operator's call. *)

LEMMA CutFollows == ASSUME IInv, Follow, Cuts PROVE Follow'
<1>1. UNCHANGED <<settings, urls, moved, h, job, call, request>>
  BY DEF Cuts, CutSnapshot, CutView, world, settings, snapshots
<1>2. cut \in [stream : Streams, at : {"snapshot", "view"}] /\ cut # None
  BY DEF IInv, Typed, CutTyped, Cuts, CutSnapshot, CutView
<1>3. Even
  BY <1>1, SameEven
<1>4. Aimed' /\ Signed' /\ CallFits'
  BY <1>1, <1>3, EvenAimed, EvenSigned, EvenCall DEF Follow
<1>5. \A s \in Streams : s \notin moved' => Named(s)' = Named(s)
  BY <1>1, <1>3, EvenNamed
<1>6. \A s \in Streams : /\ view'[s] = Idle \/ view'[s] = view[s]
                         /\ flight'[s] = None \/ flight'[s] = flight[s]
                         /\ cache'[s] = None \/ cache'[s] = cache[s]
  <2>1. /\ view \in [Streams -> ReaderType] /\ flight \in [Streams -> Requests \cup {None}]
        /\ cache \in [Streams -> Captured \cup Own \cup {None}]
    BY DEF IInv, Typed, ViewsTyped, FlightsTyped, Follow, CaptureTyped
  <2>2. CASE CutSnapshot
    BY <2>1, <2>2 DEF CutSnapshot, watching
  <2>3. CASE CutView
    BY <2>1, <2>3 DEF CutView, snapshots
  <2> QED
    BY <2>2, <2>3 DEF Cuts
<1>7. CaptureTyped' /\ Owned'
  <2>1. cache' \in [Streams -> Captured \cup Own \cup {None}]
    BY DEF Cuts, CutSnapshot, CutView, Follow, CaptureTyped, snapshots
  <2> QED
    BY <1>1, <1>6, <2>1 DEF Follow, CaptureTyped, Owned, Present
<1>8. ReadsTrue'
  <2>1. \A s \in Streams : Reads(Idle, Preferred(s)', urls'[s], s \notin moved')
    BY DEF Reads, Idle
  <2>2. \A q \in Requests : request[q] # Idle => request[q].stream \in Streams
    BY DEF Follow, CaptureTyped, RequestType, ReaderType
  <2>3. \A s \in Streams : Reads(view[s], Preferred(s)', urls'[s], s \notin moved')
    BY <1>3, EvenReads DEF Follow, ReadsTrue
  <2>4. ASSUME NEW q \in Requests, request'[q] # Idle, NEW s \in Streams, s = request[q].stream
        PROVE  Reads(request'[q], Preferred(s)', urls'[s], s \notin moved')
    <3>1. Reads(request[q], Preferred(s), urls[s], s \notin moved)
      BY <1>1, <2>4 DEF Follow, ReadsTrue
    <3> QED
      BY <1>1, <1>3, <3>1, EvenReads
  <2> QED
    BY <1>1, <1>6, <2>1, <2>2, <2>3, <2>4 DEF ReadsTrue
<1>9. Finds'
  <2> SUFFICES ASSUME NEW s \in Streams, s \notin moved'
               PROVE  /\ Excused(s, {"snapshot", "view"})' \/ Found(view'[s], Named(s)')
                      /\ \/ Excused(s, {"snapshot"})'
                         \/ /\ flight'[s] # None => Found(request'[flight'[s]], Named(s)')
                            /\ cache'[s] # None => Found(cache'[s], Named(s)')
    BY DEF Finds, Excused
  <2>1. Found(Idle, Named(s)')
    BY DEF Found, Idle
  <2>2. Excused(s, {"snapshot", "view"})' \/ Found(view'[s], Named(s)')
    <3>1. CASE CutSnapshot
      <4>1. view' = view /\ cut' = [cut EXCEPT !.at = "view"]
        BY <3>1 DEF CutSnapshot, watching
      <4>2. cut' \in [stream : Streams, at : {"snapshot", "view"}] /\ cut'.stream = cut.stream
            /\ cut'.at = "view"
        BY <1>2, <4>1
      <4>3. Excused(s, {"snapshot", "view"}) => Excused(s, {"snapshot", "view"})'
        BY <1>1, <4>2, NoneAssumption DEF Excused
      <4> QED
        BY <1>5, <4>1, <4>3 DEF Follow, Finds
    <3>2. CASE CutView
      <4>1. view' = [view EXCEPT ![cut.stream] = Idle] /\ view \in [Streams -> ReaderType]
        BY <3>2 DEF CutView, IInv, Typed, ViewsTyped
      <4>2. s # cut.stream =>
              (Excused(s, {"snapshot", "view"}) => Excused(s, {"snapshot", "view"})')
        BY <1>1 DEF Excused
      <4> QED
        BY <1>5, <2>1, <4>1, <4>2 DEF Follow, Finds
    <3> QED
      BY <3>1, <3>2 DEF Cuts
  <2>3. \/ Excused(s, {"snapshot"})'
        \/ /\ flight'[s] # None => Found(request'[flight'[s]], Named(s)')
           /\ cache'[s] # None => Found(cache'[s], Named(s)')
    <3>1. CASE CutSnapshot
      <4>1. /\ cache' = [cache EXCEPT ![cut.stream] = None]
            /\ flight' = [flight EXCEPT ![cut.stream] = None]
        BY <3>1 DEF CutSnapshot
      <4>2. s # cut.stream => flight'[s] = flight[s] /\ cache'[s] = cache[s]
        BY <4>1 DEF IInv, Typed, FlightsTyped, Follow, CaptureTyped
      <4>3. s = cut.stream => flight'[s] = None /\ cache'[s] = None
        BY <4>1 DEF IInv, Typed, FlightsTyped, Follow, CaptureTyped
      <4>4. s # cut.stream => (Excused(s, {"snapshot"}) => Excused(s, {"snapshot"})')
        BY <1>1 DEF Excused
      <4> QED
        BY <1>1, <1>5, <4>2, <4>3, <4>4 DEF Follow, Finds
    <3>2. CASE CutView
      <4>1. flight' = flight /\ cache' = cache /\ cut.at = "view"
        BY <3>2 DEF CutView, snapshots
      <4>2. Excused(s, {"snapshot"}) => Excused(s, {"snapshot"})'
        BY <1>1, <4>1 DEF Excused
      <4> QED
        BY <1>1, <1>5, <4>1, <4>2 DEF Follow, Finds
    <3> QED
      BY <3>1, <3>2 DEF Cuts
  <2> QED
    BY <2>2, <2>3
<1> QED
  BY <1>4, <1>7, <1>8, <1>9 DEF Follow

\* The parts of the argument that a step of the operator's call leaves to others.
LEMMA CallStays ==
  ASSUME IInv, Follow, Even, UNCHANGED <<job, view, request, flight, cache>>
  PROVE  CaptureTyped' /\ Owned' /\ Aimed' /\ ReadsTrue'
BY EvenOwned, EvenAimed, EvenReadsTrue DEF Follow

\* What is excused or named goes on to be, whatever the call does.
LEMMA CallFinds ==
  ASSUME IInv, Follow, UNCHANGED <<moved, view, request, flight, cache>>,
         \A s \in Streams : Still(s) =>
            \/ Excused(s, {"snapshot"})'
            \/ /\ Excused(s, {"snapshot", "view"}) => Excused(s, {"snapshot", "view"})'
               /\ Excused(s, {"snapshot"}) => Excused(s, {"snapshot"})'
               /\ Named(s) \subseteq Named(s)'
  PROVE  Finds'
<1> SUFFICES ASSUME NEW s \in Streams, s \notin moved
             PROVE  /\ Excused(s, {"snapshot", "view"})' \/ Found(view[s], Named(s)')
                    /\ \/ Excused(s, {"snapshot"})'
                       \/ /\ flight[s] # None => Found(request[flight[s]], Named(s)')
                          /\ cache[s] # None => Found(cache[s], Named(s)')
  BY DEF Finds, Excused
<1>1. Excused(s, {"snapshot"})' => Excused(s, {"snapshot", "view"})'
  BY DEF Excused
<1>2. \A r, A, B : Found(r, A) /\ A \subseteq B => Found(r, B)
  BY DEF Found
<1>3. CASE Still(s)
  BY <1>1, <1>2, <1>3 DEF Follow, Finds
<1>4. CASE ~Still(s)
  <2>1. view[s] = Idle /\ cache[s] = None
    BY <1>4 DEF Still, Follow, Owned
  <2>2. flight[s] = None
    BY <1>4 DEF Still, Follow, Owned, CaptureTyped, IInv, Typed, FlightsTyped
  <2> QED
    BY <2>1, <2>2 DEF Found, Idle
<1> QED
  BY <1>3, <1>4

LEMMA SetBeginsFollows ==
  ASSUME IInv, Follow, NEW t \in Streams \cup {"all"}, NEW choice \in Choices, SetBegins(t, choice)
  PROVE  Follow'
<1>1. UNCHANGED <<settings, urls, moved, h, job, cut, view, request, flight, cache>>
  BY DEF SetBegins, settings, world, watching, snapshots
<1> DEFINE stored == IF choice = "default" THEN None ELSE choice
           old == [s \in Streams |-> IF Present(s) THEN Source(s) ELSE None]
<1>2. /\ call' = [pc |-> "read", target |-> t, choice |-> stored, changes |-> Changes(t, stored),
                  old |-> old]
      /\ call = Idle
  BY DEF SetBegins
<1>3. /\ call'.pc = "read" /\ call'.target = t /\ call'.choice = stored
      /\ call'.changes = Changes(t, stored) /\ call'.old = old
  BY <1>2
<1>4. Even
  BY <1>1, SameEven
<1>5. CaptureTyped' /\ Owned' /\ Aimed' /\ ReadsTrue' /\ Signed'
  BY <1>1, <1>2, <1>4, CallStays, EvenSigned DEF Idle, Follow
<1>6. ASSUME NEW s \in Streams, Still(s)' PROVE Told(s)'
  <2>1. /\ Present(s) /\ Source(s)' = Source(s) /\ Preferred(s)' = Preferred(s)
    BY <1>4, <1>6, EvenSame DEF Still
  <2>2. call'.old[s] = Source(s) /\ Source(s) \in Sources
    BY <1>3, <2>1, Chosen
  <2>3. s \notin call'.changes => Saved(s)' = Preferred(s)
    <3>1. /\ default' = default /\ override' = override
          /\ override \in [Streams -> Sources \cup {None}]
      BY <1>1 DEF settings, IInv, Typed, SettingsTyped
    <3>2. CASE t = "all"
      <4>1. s \notin call'.changes => override[s] # None \/ default = stored
        BY <1>3, <2>1, <3>2 DEF Changes
      <4> QED
        BY <1>3, <3>1, <3>2, <4>1 DEF Saved, Preferred, PreferredUnder
    <3>3. CASE t # "all"
      <4>1. s \notin call'.changes /\ s = t => override[s] = stored
        BY <1>3, <3>3 DEF Changes
      <4> QED
        BY <1>3, <3>1, <3>3, <4>1 DEF Saved, Preferred, PreferredUnder
    <3> QED
      BY <3>2, <3>3
  <2> QED
    BY <1>3, <2>1, <2>2, <2>3 DEF Told
<1>7. CallFits'
  <2>1. Changes(t, stored) \subseteq Scope(t)
    BY DEF Changes, Scope
  <2> QED
    BY <1>3, <1>6, <2>1 DEF CallFits, Scope
<1>8. Finds'
  <2>1. ASSUME NEW s \in Streams, Still(s)
        PROVE  Named(s) \subseteq Named(s)' /\ \A x : Excused(s, x) => Excused(s, x)'
    <3>1. Url(s)' = Url(s)
      BY <1>1, <1>4, <2>1, EvenSame DEF Still
    <3> QED
      BY <1>1, <1>2, <3>1 DEF Named, Asking, Excused, Idle
  <2> QED
    BY <1>1, <2>1, CallFinds
<1> QED
  BY <1>5, <1>7, <1>8 DEF Follow

\* A reading that a new preference overtakes is torn, and otherwise as it was.
LEMMA TornReads ==
  ASSUME NEW r \in RequestType, NEW d, NEW o
  PROVE  /\ Torn(r, d, o) \in RequestType /\ Torn(r, d, o).pc = r.pc
         /\ Torn(r, d, o) = Idle <=> r = Idle
         /\ r # Idle => Torn(r, d, o).stream = r.stream
         /\ r.pc \notin {"probes", "selections"} => Torn(r, d, o) = r
         /\ r.pc \in {"probes", "selections"} /\ ~Torn(r, d, o).torn =>
              r.preferred = PreferredUnder(d, o, r.stream) /\ Torn(r, d, o) = r
         /\ r.pc = "selections" => Torn(r, d, o).routes = r.routes
<1>1. CASE r.pc = "stored"
  BY <1>1 DEF Torn
<1>2. CASE r.pc # "stored"
  <2>1. r \in ReaderType
    BY <1>2 DEF RequestType
  <2>2. /\ Torn(r, d, o) \in ReaderType /\ Torn(r, d, o).pc = r.pc
        /\ r # Idle => Torn(r, d, o).stream = r.stream
    BY <2>1, TornTyped
  <2>3. r.pc \notin {"probes", "selections"} => Torn(r, d, o) = r
    BY DEF Torn
  <2>4. CASE r.pc = "probes"
    <3>1. r \in [pc : {"probes"}, stream : Streams, torn : BOOLEAN, preferred : Sources]
      BY <2>1, <2>4 DEF ReaderType, Idle
    <3>2. [r EXCEPT !.torn = TRUE].torn = TRUE
      BY <3>1
    <3>3. ~Torn(r, d, o).torn => r.preferred = PreferredUnder(d, o, r.stream) /\ Torn(r, d, o) = r
      BY <2>4, <3>2 DEF Torn
    <3> QED
      BY <2>1, <2>2, <2>4, <3>3 DEF RequestType, Idle
  <2>5. CASE r.pc = "selections"
    <3>1. r \in [pc : {"selections"}, stream : Streams, torn : BOOLEAN, preferred : Sources,
                 routes : Layouts]
      BY <2>1, <2>5 DEF ReaderType, Idle
    <3>2. [r EXCEPT !.torn = TRUE].torn = TRUE /\ [r EXCEPT !.torn = TRUE].routes = r.routes
      BY <3>1
    <3>3. ~Torn(r, d, o).torn => r.preferred = PreferredUnder(d, o, r.stream) /\ Torn(r, d, o) = r
      BY <2>5, <3>2 DEF Torn
    <3>4. Torn(r, d, o).routes = r.routes
      BY <3>2 DEF Torn
    <3> QED
      BY <2>1, <2>2, <2>5, <3>3, <3>4 DEF RequestType, Idle
  <2>6. CASE r.pc \notin {"probes", "selections"}
    BY <2>3, <2>6 DEF RequestType
  <2> QED
    BY <2>4, <2>5, <2>6
<1> QED
  BY <1>1, <1>2

LEMMA SaveFollows == ASSUME IInv, Follow, Save PROVE Follow'
<1>1. /\ UNCHANGED <<urls, moved, h, job, cut, flight, cache>>
      /\ call' = [call EXCEPT !.pc = "saved"] /\ call.pc = "read"
  BY DEF Save, world
<1>2. /\ call'.pc = "saved" /\ call'.target = call.target /\ call'.changes = call.changes
      /\ call'.old = call.old
  BY <1>1 DEF IInv, Typed, CallTyped, CallType, Asked, Each, Idle
<1> DEFINE d == IF call.target = "all" THEN call.choice ELSE default
           o == IF call.target = "all" THEN override
                ELSE [override EXCEPT ![call.target] = call.choice]
<1>3. \A s : Preferred(s)' = Saved(s) /\ PreferredUnder(d, o, s) = Saved(s)
  BY DEF Save, Preferred, Saved, PreferredUnder
<1>4. /\ view' = [s \in Streams |-> Torn(view[s], d, o)]
      /\ request' = [q \in Requests |-> Torn(request[q], d, o)]
  BY DEF Save
<1> HIDE DEF d, o
<1>5. ASSUME NEW s \in Streams, Still(s)
      PROVE  /\ Told(s) /\ call.old[s] = Source(s) /\ Still(s)'
             /\ s \in call.changes \/ Preferred(s)' = Preferred(s)
             /\ Preferred(s)' = Preferred(s) => Source(s)' = Source(s)
             /\ Preferred(s)' # Preferred(s) => Source(s)' = Plain(s)'
  <2>1. Told(s) /\ Still(s)'
    BY <1>1, <1>5 DEF Follow, CallFits, Asking, Still, Present
  <2>2. call.old[s] = Source(s) /\ (s \in call.changes \/ Preferred(s)' = Preferred(s))
    BY <1>1, <1>3, <2>1 DEF Told
  <2>3. Preferred(s)' = Preferred(s) => Source(s)' = Source(s)
    BY <1>1 DEF Source
  <2>4. h.states[s] # None => h.states[s].signature = <<Preferred(s), urls[s]>>
    BY <1>1, <1>5 DEF Follow, Signed, Signature
  <2>5. Preferred(s)' # Preferred(s) => Source(s)' = Plain(s)'
    BY <1>1, <2>4 DEF Source, Plain, Effective
  <2> QED
    BY <2>1, <2>2, <2>3, <2>5
<1>6. view \in [Streams -> RequestType] /\ request \in [Requests -> RequestType]
      /\ cache \in [Streams -> Captured \cup Own \cup {None}]
  BY DEF IInv, Typed, ViewsTyped, RequestType, Follow, CaptureTyped
<1>7. ASSUME NEW r \in RequestType, NEW s \in Streams, r # Idle => r.stream = s,
             Reads(r, Preferred(s), urls[s], s \notin moved)
      PROVE  Reads(Torn(r, d, o), Preferred(s)', urls'[s], s \notin moved')
  <2>1. r.pc \in {"probes", "selections"} => r.stream = s
    BY <1>7 DEF Idle
  <2> QED
    BY <1>1, <1>3, <1>7, <2>1, TornReads DEF Reads
<1>8. \A q \in Requests : request[q] # Idle => request[q].stream \in Streams
  BY DEF Follow, CaptureTyped, RequestType, ReaderType
<1>9. CaptureTyped' /\ Owned'
  <2>1. \A s \in Streams : view'[s] # Idle => view[s] # Idle /\ view'[s].stream = view[s].stream
    BY <1>4, <1>6, TornReads
  <2>2. \A q \in Requests :
          /\ request'[q] # Idle => request[q] # Idle
          /\ request[q] # Idle => request'[q] # Idle /\ request'[q].stream = request[q].stream
    BY <1>4, <1>6, TornReads
  <2>4. request' \in [Requests -> RequestType]
    <3>1. \A q \in Requests : Torn(request[q], d, o) \in RequestType
      BY <1>6, TornReads
    <3> QED
      BY <1>4, <3>1
  <2>5. CaptureTyped'
    <3>1. \A q \in Requests : request[q] # Idle => urls[request[q].stream] # None
      BY DEF Follow, CaptureTyped, Present
    <3>2. \A q \in Requests : request'[q] # Idle => urls'[request'[q].stream] # None
      BY <1>1, <2>2, <3>1
    <3> QED
      BY <1>1, <1>6, <2>4, <3>2 DEF CaptureTyped, Present
  <2>6. \A s \in Streams : flight[s] # None => flight[s] \in Requests
    BY DEF IInv, Typed, FlightsTyped
  <2> QED
    <3>1. /\ \A s \in Streams : view'[s] # Idle => view'[s].stream = s /\ Present(s)
          /\ \A s \in Streams : cache'[s] # None => cache'[s].stream = s /\ Present(s)
      BY <1>1, <2>1 DEF Follow, Owned
    <3>2. \A s \in Streams : flight'[s] # None =>
            request'[flight'[s]] # Idle /\ request'[flight'[s]].stream = s
      BY <1>1, <2>2, <2>6 DEF Follow, Owned
    <3> QED
      BY <1>1, <2>5, <3>1, <3>2 DEF Owned, Present
<1>10. Aimed'
  BY <1>1 DEF Follow, Aimed
<1>11. Signed'
  <2> SUFFICES ASSUME NEW s \in Streams, Still(s)', h'.states[s] # None, s \notin call'.changes
               PROVE  h'.states[s].signature = Signature(s)'
    BY <1>2 DEF Signed
  <2>1. Still(s)
    BY <1>1 DEF Still, Present
  <2> QED
    BY <1>1, <1>2, <1>5, <2>1 DEF Follow, Signed, Signature
<1>12. CallFits'
  <2>1. call'.changes \subseteq Scope(call'.target)
    BY <1>1, <1>2 DEF Follow, CallFits, Asking, Scope
  <2>2. ASSUME NEW s \in Streams, Still(s)' PROVE Told(s)'
    <3>1. Still(s)
      BY <1>1, <2>2 DEF Still, Present
    <3> QED
      BY <1>2, <1>5, <3>1 DEF Told
  <2> QED
    BY <1>2, <2>1, <2>2 DEF CallFits
<1>13. Finds'
  <2> SUFFICES ASSUME NEW s \in Streams, s \notin moved
               PROVE  /\ Excused(s, {"snapshot", "view"})' \/ Found(view'[s], Named(s)')
                      /\ \/ Excused(s, {"snapshot"})'
                         \/ /\ flight'[s] # None => Found(request'[flight'[s]], Named(s)')
                            /\ cache'[s] # None => Found(cache'[s], Named(s)')
    BY <1>1 DEF Finds, Excused
  <2>1. ASSUME NEW r \in RequestType, NEW X, Found(r, X) PROVE Found(Torn(r, d, o), X)
    BY <2>1, TornReads DEF Found
  <2>2. CASE Still(s)
    <3>1. Named(s) \subseteq Named(s)'
      <4>1. Named(s) = {urls[s][call.old[s]]}
        BY <1>1, <1>5, <2>2 DEF Named, Asking, Url
      <4>2. urls[s][call.old[s]] \in Named(s)'
        BY <1>1, <1>2 DEF Named, Asking
      <4> QED
        BY <4>1, <4>2
    <3>2. \A r, A, B : Found(r, A) /\ A \subseteq B => Found(r, B)
      BY DEF Found
    <3>3. \A x : Excused(s, x) => Excused(s, x)'
      BY <1>1, <1>2 DEF Excused
    <3>4. \A z \in Streams : flight[z] # None => flight[z] \in Requests
      BY DEF IInv, Typed, FlightsTyped
    <3>5. Excused(s, {"snapshot", "view"})' \/ Found(view'[s], Named(s)')
      BY <1>4, <1>6, <2>1, <3>1, <3>2, <3>3 DEF Follow, Finds
    <3>6. \/ Excused(s, {"snapshot"})'
          \/ /\ flight'[s] # None => Found(request'[flight'[s]], Named(s)')
             /\ cache'[s] # None => Found(cache'[s], Named(s)')
      BY <1>1, <1>4, <1>6, <2>1, <3>1, <3>2, <3>3, <3>4 DEF Follow, Finds
    <3> QED
      BY <3>5, <3>6
  <2>3. CASE ~Still(s)
    <3>1. view[s] = Idle /\ cache[s] = None
      BY <2>3 DEF Still, Follow, Owned
    <3>2. flight[s] = None
      BY <2>3 DEF Still, Follow, Owned, CaptureTyped, IInv, Typed, FlightsTyped
    <3> QED
      <4>1. Torn(Idle, d, o) = Idle /\ \A X : Found(Idle, X)
        BY DEF Torn, Idle, Found
      <4>2. view'[s] = Idle /\ cache'[s] = None /\ flight'[s] = None
        BY <1>1, <1>4, <3>1, <3>2, <4>1
      <4> QED
        BY <4>1, <4>2
  <2> QED
    BY <2>2, <2>3
<1>14. ReadsTrue'
  <2>1. ASSUME NEW s \in Streams PROVE Reads(view'[s], Preferred(s)', urls'[s], s \notin moved')
    <3>1. /\ Reads(view[s], Preferred(s), urls[s], s \notin moved)
          /\ view[s] # Idle => view[s].stream = s
      BY DEF Follow, ReadsTrue, Owned
    <3> QED
      BY <1>4, <1>6, <1>7, <3>1
  <2>2. ASSUME NEW q \in Requests, request'[q] # Idle, NEW s \in Streams, s = request'[q].stream
        PROVE  Reads(request'[q], Preferred(s)', urls'[s], s \notin moved')
    <3>1. request[q] # Idle /\ s = request[q].stream
      BY <1>4, <1>6, <2>2, TornReads
    <3>2. Reads(request[q], Preferred(s), urls[s], s \notin moved)
      BY <3>1 DEF Follow, ReadsTrue
    <3> QED
      BY <1>4, <1>6, <1>7, <3>1, <3>2
  <2>3. \A q \in Requests : request'[q] # Idle => request'[q].stream \in Streams
    BY <1>9 DEF CaptureTyped, RequestType, ReaderType
  <2> QED
    BY <2>1, <2>2, <2>3 DEF ReadsTrue
<1> QED
  BY <1>9, <1>10, <1>11, <1>12, <1>13, <1>14 DEF Follow

LEMMA ClearFollows == ASSUME IInv, Follow, Clear PROVE Follow'
<1>1. /\ UNCHANGED <<settings, urls, moved, job, cut, view, request, flight, cache>>
      /\ h' = Cleared(h, call.changes) /\ call' = [call EXCEPT !.pc = "cleared"]
      /\ call.pc = "saved"
  BY DEF Clear, world, watching, snapshots, settings
<1>2. /\ call'.pc = "cleared" /\ call'.target = call.target /\ call'.changes = call.changes
      /\ call'.old = call.old /\ call.changes \subseteq Streams
  BY <1>1 DEF IInv, Typed, CallTyped, CallType, Asked, Each, Idle
<1>3. h \in HealthType
  BY DEF IInv, Typed, HealthTyped
<1>4. ASSUME NEW s \in Streams
      PROVE  /\ s \in call.changes => h'.states[s] = None /\ h'.revisions[s] = h.revisions[s] + 1
             /\ s \notin call.changes => /\ h'.states[s] = h.states[s]
                                         /\ h'.revisions[s] = h.revisions[s]
  BY <1>1, <1>3 DEF Cleared, HealthType
<1>5. ASSUME NEW s \in Streams
      PROVE  /\ Preferred(s)' = Preferred(s) /\ Signature(s)' = Signature(s)
             /\ s \in call.changes => Source(s)' = Plain(s)
             /\ s \notin call.changes => Source(s)' = Source(s)
  <2>1. Preferred(s)' = Preferred(s) /\ Signature(s)' = Signature(s)
    BY <1>1 DEF settings, Preferred, Signature
  <2>2. s \in call.changes => Source(s)' = Plain(s)
    BY <1>1, <1>4, <2>1 DEF Source, Plain
  <2>3. s \notin call.changes => Source(s)' = Source(s)
    BY <1>1, <1>4, <2>1 DEF Source
  <2> QED
    BY <2>1, <2>2, <2>3
<1>6. CaptureTyped' /\ Owned'
  BY <1>1 DEF Follow, CaptureTyped, Owned, Present
<1>7. ReadsTrue'
  <2>1. \A q \in Requests : request[q] # Idle => request[q].stream \in Streams
    BY DEF Follow, CaptureTyped, RequestType, ReaderType
  <2> QED
    BY <1>1, <1>5, <2>1 DEF Follow, ReadsTrue
<1>8. Aimed'
  <2>1. ASSUME NEW w \in Workers, job[w] \in Check, NEW s \in Streams, s = job[w].stream
        PROVE  /\ job[w].revision <= h'.revisions[s]
               /\ job[w].revision = h'.revisions[s] => s \notin call.changes
    <3>1. job[w].revision \in Nat /\ h.revisions[s] \in Nat
      BY <1>3, <2>1 DEF Check, HealthType
    <3>2. job[w].revision <= h.revisions[s]
      BY <2>1 DEF Follow, Aimed
    <3> QED
      BY <1>4, <3>1, <3>2
  <2>2. \A w \in Workers : job[w] \in Check => job[w].stream \in Streams
    BY DEF Check
  <2> QED
    BY <1>1, <1>4, <2>1, <2>2 DEF Follow, Aimed
<1>9. Signed'
  <2> SUFFICES ASSUME NEW s \in Streams, Still(s)', h'.states[s] # None
               PROVE  h'.states[s].signature = Signature(s)'
    BY DEF Signed
  <2>1. Still(s)
    BY <1>1 DEF Still, Present
  <2> QED
    BY <1>4, <1>5, <2>1 DEF Follow, Signed
<1>10. \A s \in Streams : Still(s) => Told(s) /\ Still(s)'
  BY <1>1 DEF Follow, CallFits, Asking, Still, Present
<1>11. CallFits'
  <2>1. call'.changes \subseteq Scope(call'.target)
    BY <1>1, <1>2 DEF Follow, CallFits, Asking, Scope
  <2>2. ASSUME NEW s \in Streams, Still(s)' PROVE Told(s)'
    <3>1. Told(s)
      BY <1>1, <1>10, <2>2 DEF Still, Present
    <3> QED
      BY <1>2, <1>5, <3>1 DEF Told
  <2> QED
    BY <1>2, <2>1, <2>2 DEF CallFits
<1>12. Finds'
  <2>1. ASSUME NEW s \in Streams, Still(s)
        PROVE  Named(s) \subseteq Named(s)' /\ \A x : Excused(s, x) => Excused(s, x)'
    <3>1. Named(s) = {urls[s][Source(s)], urls[s][call.old[s]]}
      BY <1>1 DEF Named, Asking, Url
    <3>2. Named(s)' = {urls[s][Source(s)'], urls[s][call.old[s]]}
      BY <1>1, <1>2 DEF Named, Asking, Url
    <3>3. s \in call.changes => Source(s) \in {call.old[s], Source(s)'}
      BY <1>1, <1>5, <1>10, <2>1 DEF Told
    <3>4. \A x : Excused(s, x) => Excused(s, x)'
      BY <1>1, <1>2 DEF Excused
    <3> QED
      BY <1>5, <3>1, <3>2, <3>3, <3>4
  <2> QED
    BY <1>1, <2>1, CallFinds
<1> QED
  BY <1>6, <1>7, <1>8, <1>9, <1>11, <1>12 DEF Follow

LEMMA RelistFollows == ASSUME IInv, Follow, Relist PROVE Follow'
<1>1. UNCHANGED <<settings, urls, moved, h, job, cut, view, request, flight, cache>>
  BY DEF Relist, settings, world, watching, snapshots
<1>2. PICK left, cuts :
        /\ call' = [pc |-> "each", left |-> left, cuts |-> cuts] /\ call.pc = "cleared"
        /\ left = {s \in Scope(call.target) : Present(s)}
        /\ cuts = {s \in left : call.old[s] # None /\ call.old[s] # Source(s)}
  BY DEF Relist
<1>3. call'.pc = "each" /\ call'.left = left /\ call'.cuts = cuts
  BY <1>2
<1>4. Even
  BY <1>1, SameEven
<1>5. CaptureTyped' /\ Owned' /\ Aimed' /\ ReadsTrue' /\ Signed'
  BY <1>1, <1>2, <1>4, CallStays, EvenSigned DEF Follow
<1>6. CallFits'
  BY <1>2, <1>3 DEF CallFits, Asking
<1>7. ASSUME NEW s \in Streams, Still(s), s \notin cuts
      PROVE  Named(s) \subseteq Named(s)' /\ \A x : Excused(s, x) => Excused(s, x)'
  <2>1. Told(s) /\ call.changes \subseteq Scope(call.target)
    BY <1>2, <1>7 DEF Follow, CallFits, Asking
  <2>2. call.old[s] # None
    BY <2>1, NoneAssumption DEF Told
  <2>3. call.old[s] = Source(s)
    BY <1>2, <1>7, <2>1, <2>2 DEF Told, Still
  <2>4. Named(s) = {Url(s)} /\ Url(s)' = Url(s)
    BY <1>1, <1>4, <1>7, <2>3, EvenSame DEF Named, Url, Still
  <2> QED
    BY <1>1, <1>2, <1>3, <2>4 DEF Named, Excused, Asking
<1>8. Finds'
  <2>1. \A s \in cuts : Excused(s, {"snapshot"})'
    BY <1>3 DEF Excused
  <2> QED
    BY <1>1, <1>7, <2>1, CallFinds
<1> QED
  BY <1>5, <1>6, <1>8 DEF Follow

LEMMA EndsFollow == ASSUME IInv, Follow, SaveFails \/ SetReturns PROVE Follow'
<1>1. /\ UNCHANGED <<settings, urls, moved, h, job, cut, view, request, flight, cache>>
      /\ call' = Idle /\ call.pc # "saved"
  BY DEF SaveFails, SetReturns, settings, world, watching, snapshots
<1>2. Even
  BY <1>1, SameEven
<1>3. CaptureTyped' /\ Owned' /\ Aimed' /\ ReadsTrue' /\ Signed' /\ CallFits'
  BY <1>1, <1>2, CallStays, EvenSigned DEF Follow, CallFits, Asking, Idle
<1>4. ASSUME NEW s \in Streams, Still(s)
      PROVE  Named(s) \subseteq Named(s)' /\ \A x : Excused(s, x) => Excused(s, x)'
  <2>1. Named(s)' = {Url(s)}
    BY <1>1, <1>2, <1>4, EvenSame DEF Named, Asking, Idle, Still
  <2>2. Named(s) = {Url(s)}
    <3>1. CASE SaveFails
      <4>1. call.pc = "read" /\ Told(s)
        BY <1>4, <3>1 DEF SaveFails, Follow, CallFits, Asking
      <4> QED
        BY <4>1 DEF Told, Named, Url
    <3>2. CASE SetReturns
      BY <3>2 DEF SetReturns, Named, Asking
    <3> QED
      BY <3>1, <3>2
  <2>3. call.pc = "each" => s \notin call.cuts
    BY DEF SaveFails, SetReturns, Follow, CallFits
  <2> QED
    BY <1>1, <2>1, <2>2, <2>3 DEF Excused
<1>5. Finds'
  BY <1>1, <1>4, CallFinds
<1> QED
  BY <1>3, <1>5 DEF Follow

LEMMA EachFollows ==
  ASSUME IInv, Follow, NEW s \in Streams, CutEach(s) \/ QueueEach(s)
  PROVE  Follow'
<1>1. /\ UNCHANGED <<settings, urls, moved, job, view, request, flight, cache>>
      /\ call.pc = "each" /\ call \in Each /\ cut = None
  BY DEF CutEach, QueueEach, settings, world, watching, snapshots, IInv, Typed, CallTyped,
         CallType, Asked, Idle
<1>2. Even
  <2>1. h'.states = h.states /\ h'.revisions = h.revisions
    BY QueuedSame DEF CutEach, QueueEach, MaybeUrl
  <2> QED
    BY <1>1, <2>1, SameEven
<1>3. /\ call'.pc = "each" /\ call'.cuts \subseteq call'.left
      /\ QueueEach(s) => call'.cuts = call.cuts /\ cut' = None
      /\ CutEach(s) => call'.cuts = call.cuts \ {s} /\ cut' = [stream |-> s, at |-> "snapshot"]
  BY <1>1 DEF CutEach, QueueEach, Each, Follow, CallFits
<1>4. CaptureTyped' /\ Owned' /\ Aimed' /\ ReadsTrue' /\ Signed' /\ CallFits'
  BY <1>1, <1>2, <1>3, CallStays, EvenSigned DEF Follow, CallFits, Asking
<1>5. ASSUME NEW z \in Streams, Still(z), ~Excused(z, {"snapshot"})'
      PROVE  Named(z) \subseteq Named(z)' /\ \A x : Excused(z, x) => Excused(z, x)'
  <2>1. Named(z)' = Named(z)
    BY <1>1, <1>2, <1>3, <1>5, EvenSame DEF Named, Asking, Still
  <2>2. CASE CutEach(s)
    <3>1. cut' # None /\ cut'.stream = s /\ cut'.at = "snapshot"
      BY <1>3, <2>2, NoneAssumption
    <3> QED
      BY <1>1, <1>3, <1>5, <2>1, <2>2, <3>1 DEF Excused
  <2>3. CASE QueueEach(s)
    BY <1>1, <1>3, <2>1, <2>3 DEF Excused
  <2> QED
    BY <2>2, <2>3
<1>6. Finds'
  BY <1>1, <1>5, CallFinds
<1> QED
  BY <1>4, <1>6 DEF Follow

-----------------------------------------------------------------------------
(* Viewers, snapshots, the world. *)

\* The next reading agrees with the earlier ones, and the last one finds what the catalog names.
LEMMA AdvanceFollows ==
  ASSUME IInv, NEW r \in ReaderType, NEW s \in Streams, Midway(r), r.stream = s,
         Reads(r, Preferred(s), urls[s], s \notin moved)
  PROVE  /\ Advance(r).stream = s /\ Advance(r).pc \notin {"idle", "stored"}
         /\ Reads(Advance(r), Preferred(s), urls[s], s \notin moved)
         /\ s \in moved \/ (Found(r, Named(s)) => Found(Advance(r), Named(s)))
<1>1. CASE r.pc = "settings"
  BY <1>1 DEF Advance, SawSettings, Reads, Found
<1>2. CASE r.pc = "probes"
  BY <1>2 DEF Advance, SawProbes, Reads, Found
<1>3. CASE r.pc = "selections"
  <2> DEFINE e == Effective(r.preferred, r.routes, h.states[s])
  <2>1. Advance(r) = [pc |-> "found", stream |-> s, torn |-> r.torn, source |-> e,
                      url |-> r.routes[e]]
    BY <1>3 DEF Advance, SawSelections
  <2>2. s \notin moved /\ ~r.torn => r.routes[e] = Url(s)
    BY <1>3 DEF Reads, Url, Source
  <2> HIDE DEF e
  <2> QED
    BY <2>1, <2>2 DEF Reads, Found, Named
<1>4. CASE r.pc = "found"
  <2>1. r \in [pc : {"found", "open"}, stream : Streams, torn : BOOLEAN, source : Sources,
               url : Urls]
    BY <1>4 DEF ReaderType, Idle
  <2>2. Advance(r) = [r EXCEPT !.pc = "open"]
    BY <1>4 DEF Advance
  <2>3. /\ Advance(r).pc = "open" /\ Advance(r).stream = s /\ Advance(r).torn = r.torn
        /\ Advance(r).url = r.url
    BY <2>1, <2>2
  <2> QED
    BY <1>4, <2>3 DEF Reads, Found
<1> QED
  BY <1>1, <1>2, <1>3, <1>4 DEF Midway

\* Who has read nothing yet disagrees with nothing.
LEMMA Blank ==
  ASSUME NEW s
  PROVE  /\ Reading(s).stream = s /\ Reading(s) # Idle
         /\ \A p, l, still, good : /\ Reads(Reading(s), p, l, still) /\ Found(Reading(s), good)
                                  /\ Reads(Idle, p, l, still) /\ Found(Idle, good)
BY DEF Reading, Idle, Reads, Found

LEMMA StillSame ==
  ASSUME UNCHANGED <<settings, urls, moved, h, call, cut>>
  PROVE  \A s \in Streams :
           /\ Preferred(s)' = Preferred(s) /\ Named(s)' = Named(s) /\ (Present(s)' <=> Present(s))
           /\ \A x : Excused(s, x)' <=> Excused(s, x)
BY DEF settings, Preferred, Named, Present, Excused, Asking, Url, Source

LEMMA ViewFollowsStep ==
  ASSUME IInv, Follow, NEW s \in Streams, Open(s) \/ Resolve(s) \/ Fail(s) \/ Leave(s)
  PROVE  Follow'
<1>1. UNCHANGED <<settings, urls, moved, h, job, call, cut, request, flight, cache>>
  BY DEF Open, Resolve, Fail, Leave, settings, world, control, snapshots
<1>2. Even
  BY <1>1, SameEven
<1>3. view \in [Streams -> ReaderType]
  BY DEF IInv, Typed, ViewsTyped
<1>4. PICK x : /\ view' = [view EXCEPT ![s] = x]
               /\ x # Idle => x.stream = s /\ Present(s)
               /\ Reads(x, Preferred(s), urls[s], s \notin moved)
               /\ s \in moved \/ (Found(view[s], Named(s)) => Found(x, Named(s)))
  <2>1. CASE Open(s)
    <3>1. view' = [view EXCEPT ![s] = Reading(s)] /\ Present(s)
      BY <2>1 DEF Open
    <3> QED
      BY <3>1, Blank
  <2>2. CASE Resolve(s)
    <3>1. /\ view' = [view EXCEPT ![s] = Advance(view[s])] /\ Midway(view[s])
          /\ view[s] # Idle /\ view[s] \in ReaderType
      BY <1>3, <2>2 DEF Resolve, Midway, Idle
    <3>2. view[s].stream = s /\ Present(s) /\ Reads(view[s], Preferred(s), urls[s], s \notin moved)
      BY <3>1 DEF Follow, Owned, ReadsTrue
    <3> QED
      BY <3>1, <3>2, AdvanceFollows
  <2>3. CASE Fail(s) \/ Leave(s)
    <3>1. view' = [view EXCEPT ![s] = Idle]
      BY <2>3 DEF Fail, Leave
    <3> QED
      BY <3>1, Blank
  <2> QED
    BY <2>1, <2>2, <2>3
<1>5. view'[s] = x /\ \A z \in Streams : z # s => view'[z] = view[z]
  BY <1>3, <1>4
<1>6. CaptureTyped' /\ Owned'
  BY <1>1, <1>4, <1>5 DEF Follow, CaptureTyped, Owned, Present
<1>7. ReadsTrue'
  <2>1. \A q \in Requests : request[q] # Idle => request[q].stream \in Streams
    BY DEF Follow, CaptureTyped, RequestType, ReaderType
  <2> QED
    BY <1>1, <1>4, <1>5, <2>1, StillSame DEF Follow, ReadsTrue
<1>8. Finds'
  BY <1>1, <1>4, <1>5, StillSame DEF Follow, Finds, Excused
<1> QED
  BY <1>1, <1>2, <1>6, <1>7, <1>8, EvenAimed, EvenSigned, EvenCall DEF Follow

LEMMA ReportFollows ==
  ASSUME IInv, Follow, NEW s \in Streams, NEW url \in Urls, ReportLiveSourceFailure(s, url)
  PROVE  Follow'
<1>1. UNCHANGED <<settings, urls, moved, job, call, cut, view, request, flight, cache>>
  BY DEF ReportLiveSourceFailure, settings, world, control, snapshots
<1>2. h' = Queued(h, s, url) /\ url \in MaybeUrl
  BY DEF ReportLiveSourceFailure, MaybeUrl
<1>3. Even
  BY <1>1, <1>2, QueuedSame, SameEven
<1> QED
  BY <1>1, <1>3, EvenStep, EvenAimed DEF Follow

LEMMA WorldFollows ==
  ASSUME IInv, Follow, \/ \E s \in Streams, l \in Layouts : RoutesChange(s, l)
                       \/ \E url \in Urls : Flip(url)
  PROVE  Follow'
<1>1. UNCHANGED <<settings, h, job, call, cut, view, request, flight, cache>>
  BY DEF RoutesChange, Flip, settings, control, watching, snapshots
<1>2. CASE \E url \in Urls : Flip(url)
  <2>1. Even
    BY <1>1, <1>2, SameEven DEF Flip
  <2> QED
    BY <1>1, <2>1, EvenStep, EvenAimed DEF Follow
<1>3. ASSUME NEW s \in Streams, NEW l \in Layouts, RoutesChange(s, l) PROVE Follow'
  <2>1. /\ urls' = [urls EXCEPT ![s] = l] /\ moved' = moved \cup {s} /\ l # None
        /\ urls \in [Streams -> Layouts \cup {None}]
    BY <1>3, NamesAssumption DEF RoutesChange, IInv, Typed, WorldTyped
  <2>2. Even
    BY <1>1, <2>1 DEF Even, Alike, Present
  <2> QED
    BY <1>1, <2>2, EvenStep, EvenAimed DEF Follow
<1> QED
  BY <1>2, <1>3

\* Request q, of stream s, becomes x: which flights it keeps and what it leaves in the cache.
Becomes(q, s, x) ==
    /\ UNCHANGED <<settings, urls, moved, h, job, call, cut, view>>
    /\ request' = [request EXCEPT ![q] = x] /\ cache' \in [Streams -> Captured \cup Own \cup {None}]
    /\ x # Idle =>
         x.stream = s /\ Present(s) /\ Reads(x, Preferred(s), urls[s], s \notin moved)
    /\ \A z \in Streams : flight'[z] # None =>
          \/ flight'[z] = flight[z] /\ flight[z] # q
          \/ flight'[z] = q /\ z = s /\ x # Idle
    /\ Excused(s, {"snapshot"}) \/ (flight'[s] = q => Found(x, Named(s)))
    /\ \A z \in Streams :
          \/ cache'[z] = cache[z]
          \/ /\ z = s /\ Present(s) /\ cache'[z].stream = s
             /\ Excused(s, {"snapshot"}) \/ Found(cache'[z], Named(s))

LEMMA RequestFollows ==
  ASSUME IInv, Follow, NEW q \in Requests, NEW s \in Streams, NEW x \in RequestType,
         Becomes(q, s, x)
  PROVE  Follow'
<1>1. /\ request' \in [Requests -> RequestType] /\ request'[q] = x
      /\ \A p \in Requests : p # q => request'[p] = request[p]
  BY DEF Follow, CaptureTyped, Becomes
<1>2. \A z \in Streams : flight[z] # None => flight[z] \in Requests
  BY DEF IInv, Typed, FlightsTyped
<1>3. Aimed' /\ Signed' /\ CallFits'
  BY SameEven, EvenAimed, EvenSigned, EvenCall DEF Follow, Becomes
<1>4. CaptureTyped'
  <2>1. ASSUME NEW p \in Requests, request'[p] # Idle PROVE urls[request'[p].stream] # None
    BY <1>1, <2>1 DEF Follow, CaptureTyped, Present, Becomes
  <2> QED
    BY <1>1, <2>1 DEF CaptureTyped, Present, Becomes
<1>5. Owned'
  <2>1. ASSUME NEW z \in Streams, flight'[z] # None
        PROVE  request'[flight'[z]] # Idle /\ request'[flight'[z]].stream = z
    BY <1>1, <1>2, <2>1 DEF Follow, Owned, Becomes
  <2>2. \A z \in Streams : cache'[z] # None => cache'[z].stream = z /\ Present(z)
    BY DEF Follow, Owned, Becomes
  <2>3. \A z \in Streams : view'[z] # Idle => view'[z].stream = z /\ Present(z)
    BY DEF Follow, Owned, Becomes
  <2> QED
    BY <2>1, <2>2, <2>3 DEF Owned, Present, Becomes
<1>6. ReadsTrue'
  <2>1. \A p \in Requests : request'[p] # Idle => request'[p].stream \in Streams
    BY <1>1 DEF RequestType, ReaderType
  <2>2. ASSUME NEW p \in Requests, request'[p] # Idle, NEW z \in Streams, z = request'[p].stream
        PROVE  Reads(request'[p], Preferred(z), urls[z], z \notin moved)
    BY <1>1, <2>2 DEF Follow, ReadsTrue, Becomes
  <2> QED
    BY <2>1, <2>2, StillSame DEF Follow, ReadsTrue, Becomes
<1>7. Finds'
  <2> SUFFICES ASSUME NEW z \in Streams
               PROVE  \/ Excused(z, {"snapshot"})
                      \/ /\ flight'[z] # None => Found(request'[flight'[z]], Named(z))
                         /\ cache'[z] # None => Found(cache'[z], Named(z))
    BY StillSame DEF Follow, Finds, Becomes
  <2>1. Excused(z, {"snapshot"}) \/ (flight'[z] # None => Found(request'[flight'[z]], Named(z)))
    BY <1>1, <1>2 DEF Follow, Finds, Becomes
  <2>2. Excused(z, {"snapshot"}) \/ (cache'[z] # None => Found(cache'[z], Named(z)))
    BY DEF Follow, Finds, Becomes
  <2> QED
    BY <2>1, <2>2
<1> QED
  BY <1>3, <1>4, <1>5, <1>6, <1>7 DEF Follow

LEMMA SnapshotFollowsStep ==
  ASSUME IInv, Follow, NEW q \in Requests,
         \/ \E s \in Streams : SnapshotBegins(q, s)
         \/ SnapshotResolves(q) \/ SnapshotStores(q) \/ SnapshotFallsBack(q) \/ SnapshotEnds(q)
  PROVE  Follow'
<1>1. UNCHANGED <<settings, urls, moved, h, job, call, cut, view>>
  BY DEF SnapshotBegins, SnapshotResolves, SnapshotStores, SnapshotFallsBack, SnapshotEnds, settings,
         world, control, watching
<1>2. /\ request[q] \in RequestType /\ cache \in [Streams -> Captured \cup Own \cup {None}]
      /\ flight \in [Streams -> Requests \cup {None}]
  BY DEF Follow, CaptureTyped, IInv, Typed, FlightsTyped
<1>3. q # None
  BY NamesAssumption
<1>4. \A z \in Streams : flight[z] = q => request[q] # Idle /\ request[q].stream = z
  BY <1>3 DEF Follow, Owned
<1>5. ASSUME NEW s \in Streams, SnapshotBegins(q, s) PROVE Follow'
  <2>1. /\ request' = [request EXCEPT ![q] = Reading(s)] /\ flight' = [flight EXCEPT ![s] = q]
        /\ cache' = cache /\ request[q] = Idle /\ Present(s)
    BY <1>5 DEF SnapshotBegins
  <2>2. Reading(s) \in RequestType
    BY DEF Reading, RequestType, ReaderType
  <2>3. \A z \in Streams : flight'[z] # None =>
          \/ flight'[z] = flight[z] /\ flight[z] # q
          \/ flight'[z] = q /\ z = s /\ Reading(s) # Idle
    BY <1>2, <1>4, <2>1, Blank
  <2>4. Becomes(q, s, Reading(s))
    BY <1>1, <1>2, <2>1, <2>3, Blank DEF Becomes
  <2> QED
    BY <2>2, <2>4, RequestFollows
<1>6. ASSUME SnapshotResolves(q) \/ SnapshotStores(q) \/ SnapshotFallsBack(q) \/ SnapshotEnds(q),
             NEW s, s = request[q].stream
      PROVE  /\ s \in Streams /\ request[q] # Idle /\ Present(s)
             /\ Reads(request[q], Preferred(s), urls[s], s \notin moved)
             /\ Excused(s, {"snapshot"}) \/ (flight[s] = q => Found(request[q], Named(s)))
  <2>1. request[q] # Idle
    BY <1>6 DEF SnapshotResolves, SnapshotStores, SnapshotFallsBack, SnapshotEnds, Midway, Idle
  <2>2. s \in Streams
    BY <1>2, <1>6, <2>1 DEF RequestType, ReaderType
  <2>3. Present(s) /\ Reads(request[q], Preferred(s), urls[s], s \notin moved)
    BY <1>6, <2>1 DEF Follow, CaptureTyped, ReadsTrue
  <2> QED
    BY <1>3, <2>1, <2>2, <2>3 DEF Follow, Finds
<1>7. CASE SnapshotResolves(q)
  <2> PICK s : s = request[q].stream
    OBVIOUS
  <2>1. /\ request' = [request EXCEPT ![q] = Advance(request[q])] /\ flight' = flight
        /\ cache' = cache /\ Midway(request[q])
    BY <1>7 DEF SnapshotResolves
  <2>2. request[q] \in ReaderType
    BY <1>2, <2>1 DEF Midway, RequestType
  <2>3. /\ s \in Streams /\ Present(s) /\ Reads(request[q], Preferred(s), urls[s], s \notin moved)
        /\ Excused(s, {"snapshot"}) \/ (flight[s] = q => Found(request[q], Named(s)))
    BY <1>6, <1>7
  <2>4. Advance(request[q]) \in RequestType
    BY <2>1, <2>2, <2>3, AdvanceTyped DEF RequestType
  <2>5. /\ Advance(request[q]).stream = s /\ Advance(request[q]) # Idle
        /\ Reads(Advance(request[q]), Preferred(s), urls[s], s \notin moved)
        /\ s \in moved \/ (Found(request[q], Named(s)) => Found(Advance(request[q]), Named(s)))
    BY <2>1, <2>2, <2>3, AdvanceFollows DEF Idle
  <2>6. Excused(s, {"snapshot"}) \/ (flight'[s] = q => Found(Advance(request[q]), Named(s)))
    BY <2>1, <2>3, <2>5 DEF Excused
  <2>7. \A z \in Streams : flight'[z] # None =>
          \/ flight'[z] = flight[z] /\ flight[z] # q
          \/ flight'[z] = q /\ z = s /\ Advance(request[q]) # Idle
    BY <1>4, <2>1, <2>5
  <2>8. Becomes(q, s, Advance(request[q]))
    BY <1>1, <1>2, <2>1, <2>3, <2>5, <2>6, <2>7 DEF Becomes
  <2> QED
    BY <2>3, <2>4, <2>8, RequestFollows
<1>8. CASE SnapshotStores(q) \/ SnapshotFallsBack(q)
  <2> PICK s, x, image :
        /\ s = request[q].stream /\ x = [pc |-> "stored", stream |-> s]
        /\ image = IF SnapshotStores(q) THEN request[q]
                   ELSE [pc |-> "own", stream |-> s, stale |-> q \in dropped]
    OBVIOUS
  <2>1. /\ request' = [request EXCEPT ![q] = x] /\ flight' = flight
        /\ cache' = IF flight[s] = q THEN [cache EXCEPT ![s] = image] ELSE cache
    BY <1>8 DEF SnapshotStores, SnapshotFallsBack, Store
  <2>2. /\ s \in Streams /\ Present(s)
        /\ Excused(s, {"snapshot"}) \/ (flight[s] = q => Found(request[q], Named(s)))
    BY <1>6, <1>8
  <2>3. image \in Captured \cup Own /\ image.stream = s
        /\ (Excused(s, {"snapshot"}) \/ (flight[s] = q => Found(image, Named(s))))
    <3>1. CASE SnapshotStores(q)
      <4>1. request[q] \in Captured
        BY <1>2, <3>1 DEF SnapshotStores, RequestType, ReaderType, Idle, Captured
      <4> QED
        BY <2>2, <3>1, <4>1
    <3>2. CASE ~SnapshotStores(q)
      <4>1. image \in Own /\ image.stream = s /\ image.pc = "own"
        BY <2>2, <3>2 DEF Own
      <4> QED
        BY <4>1 DEF Found
    <3> QED
      BY <3>1, <3>2
  <2>4. x \in RequestType /\ x.pc = "stored" /\ x.stream = s
    BY <2>2 DEF RequestType
  <2>5. x # Idle /\ \A p, l, still, good : Reads(x, p, l, still) /\ Found(x, good)
    BY <2>4 DEF Idle, Reads, Found
  <2>6. \A z \in Streams : flight'[z] # None =>
          \/ flight'[z] = flight[z] /\ flight[z] # q
          \/ flight'[z] = q /\ z = s /\ x # Idle
    BY <1>4, <2>1, <2>5
  <2>7. cache' \in [Streams -> Captured \cup Own \cup {None}]
    BY <1>2, <2>1, <2>3
  <2>8. \A z \in Streams :
          \/ cache'[z] = cache[z]
          \/ /\ z = s /\ Present(s) /\ cache'[z].stream = s
             /\ Excused(s, {"snapshot"}) \/ Found(cache'[z], Named(s))
    BY <1>2, <2>1, <2>2, <2>3
  <2>9. Becomes(q, s, x)
    BY <1>1, <2>1, <2>2, <2>4, <2>5, <2>6, <2>7, <2>8 DEF Becomes
  <2> QED
    BY <2>2, <2>4, <2>9, RequestFollows
<1>9. CASE SnapshotEnds(q)
  <2> PICK s : s = request[q].stream
    OBVIOUS
  <2>1. /\ request' = [request EXCEPT ![q] = Idle] /\ cache' = cache
        /\ flight' = IF flight[s] = q THEN [flight EXCEPT ![s] = None] ELSE flight
    BY <1>9 DEF SnapshotEnds
  <2>2. s \in Streams
    BY <1>6, <1>9
  <2>3. Idle \in RequestType
    BY DEF RequestType, ReaderType
  <2>4. \A z \in Streams : flight'[z] # None => flight'[z] = flight[z] /\ flight[z] # q
    BY <1>2, <1>4, <2>1, <2>2
  <2>5. Becomes(q, s, Idle)
    BY <1>1, <1>2, <2>1, <2>4, Blank DEF Becomes
  <2> QED
    BY <2>2, <2>3, <2>5, RequestFollows
<1> QED
  BY <1>5, <1>7, <1>8, <1>9

-----------------------------------------------------------------------------
LEMMA FollowInit == Init => Follow
<1> SUFFICES ASSUME Init PROVE Follow
  OBVIOUS
<1>1. CaptureTyped /\ Owned
  BY DEF Init, CaptureTyped, Owned, RequestType, ReaderType
<1>2. Aimed /\ Signed /\ CallFits
  BY DEF Init, Aimed, Signed, CallFits, Asking, Check, Idle
<1>3. ReadsTrue /\ Finds
  BY DEF Init, ReadsTrue, Reads, Finds, Found, Idle
<1> QED
  BY <1>1, <1>2, <1>3 DEF Follow

LEMMA FollowNext == IInv /\ Follow /\ [Next]_vars => Follow'
<1> SUFFICES ASSUME IInv, Follow, [Next]_vars PROVE Follow'
  OBVIOUS
<1>1. ASSUME NEW w \in Workers, WorkerStep(w) PROVE Follow'
  BY <1>1, JobFollows, ApplyFollows DEF WorkerStep
<1>2. CASE CallStep
  BY <1>2, SaveFollows, ClearFollows, RelistFollows, EndsFollow, EachFollows DEF CallStep
<1>3. CASE UNCHANGED vars
  <2>1. Even /\ UNCHANGED <<job, call, cut, view, request, flight, cache>>
    BY <1>3, SameEven DEF vars, settings
  <2> QED
    BY <2>1, EvenStep, EvenAimed DEF Follow
<1> QED
  BY <1>1, <1>2, <1>3, HealthFollows, CutFollows, SetBeginsFollows, ViewFollowsStep, ReportFollows,
     SnapshotFollowsStep, WorldFollows DEF Next

-----------------------------------------------------------------------------
(* The recorder's own images.                                                *)

\* A flight the channel knows has seen no invalidation, nor has an image stored for it.
Fresh ==
    \A s \in Streams :
        /\ flight[s] # None => flight[s] \notin dropped
        /\ cache[s] # None /\ cache[s].pc = "own" => ~cache[s].stale

LEMMA FreshCut == ASSUME IInv, Follow, Fresh, CutSnapshot PROVE Fresh'
<1>1. /\ cache' = [cache EXCEPT ![cut.stream] = None] /\ flight' = [flight EXCEPT ![cut.stream] = None]
      /\ dropped' = dropped \cup
            {q \in Requests : request[q] # Idle /\ request[q].stream = cut.stream}
  BY DEF CutSnapshot
<1>2. ASSUME NEW s \in Streams, flight'[s] # None PROVE flight'[s] \notin dropped'
  <2>1. s # cut.stream /\ flight'[s] = flight[s]
    BY <1>1, <1>2 DEF IInv, Typed, FlightsTyped
  <2>2. flight[s] \notin dropped /\ request[flight[s]].stream = s
    BY <1>2, <2>1 DEF Fresh, Follow, Owned
  <2> QED
    BY <1>1, <2>1, <2>2
<1>3. ASSUME NEW s \in Streams, cache'[s] # None PROVE cache'[s] = cache[s]
  BY <1>1, <1>3 DEF Follow, CaptureTyped
<1> QED
  BY <1>2, <1>3 DEF Fresh

LEMMA FreshRequests ==
  ASSUME IInv, Follow, Fresh, NEW q \in Requests,
         \/ \E s \in Streams : SnapshotBegins(q, s)
         \/ SnapshotResolves(q) \/ SnapshotStores(q) \/ SnapshotFallsBack(q) \/ SnapshotEnds(q)
  PROVE  Fresh'
<1>1. /\ flight \in [Streams -> Requests \cup {None}] /\ q # None
      /\ cache \in [Streams -> Captured \cup Own \cup {None}]
  BY NamesAssumption DEF IInv, Typed, FlightsTyped, Follow, CaptureTyped
<1>2. ASSUME NEW s \in Streams, SnapshotBegins(q, s) PROVE Fresh'
  <2>1. /\ flight' = [flight EXCEPT ![s] = q] /\ dropped' = dropped \ {q} /\ cache' = cache
    BY <1>2 DEF SnapshotBegins
  <2> QED
    BY <1>1, <2>1 DEF Fresh
<1>3. CASE SnapshotResolves(q)
  BY <1>3 DEF SnapshotResolves, Fresh
<1>4. CASE SnapshotStores(q) \/ SnapshotFallsBack(q)
  <2>1. flight' = flight /\ dropped' = dropped
    BY <1>4 DEF SnapshotStores, SnapshotFallsBack
  <2>2. ASSUME NEW z \in Streams, cache'[z] # cache[z], cache'[z].pc = "own" PROVE ~cache'[z].stale
    <3> PICK s : s = request[q].stream
      OBVIOUS
    <3>1. CASE SnapshotStores(q)
      <4>1. cache'[z] = request[q]
        BY <1>1, <2>2, <3>1 DEF SnapshotStores, Store
      <4> QED
        BY <2>2, <3>1, <4>1 DEF SnapshotStores
    <3>2. CASE SnapshotFallsBack(q)
      <4>1. /\ flight[s] = q /\ z = s
            /\ cache'[z] = [pc |-> "own", stream |-> s, stale |-> q \in dropped]
        BY <1>1, <2>2, <3>2 DEF SnapshotFallsBack, Store
      <4>2. (q \in dropped) = FALSE
        BY <1>1, <4>1 DEF Fresh
      <4>3. cache'[z].stale = (q \in dropped)
        BY ONLY <4>1
      <4> QED
        BY ONLY <4>2, <4>3, Zenon
    <3> QED
      BY <1>4, <3>1, <3>2
  <2> QED
    BY <2>1, <2>2 DEF Fresh
<1>5. CASE SnapshotEnds(q)
  <2>1. /\ flight' = flight \/ flight' = [flight EXCEPT ![request[q].stream] = None]
        /\ dropped' = dropped \ {q} /\ cache' = cache
    BY <1>5 DEF SnapshotEnds
  <2> QED
    BY <1>1, <2>1 DEF Fresh
<1> QED
  BY <1>2, <1>3, <1>4, <1>5

LEMMA FreshNext == IInv /\ Follow /\ Fresh /\ [Next]_vars => Fresh'
<1> SUFFICES ASSUME IInv, Follow, Fresh, [Next]_vars PROVE Fresh'
  OBVIOUS
<1>1. ASSUME UNCHANGED <<flight, cache, dropped>> PROVE Fresh'
  BY <1>1 DEF Fresh
<1>2. CASE \E w \in Workers : WorkerStep(w)
  BY <1>1, <1>2 DEF WorkerStep, Take, Snapshot, ProbeCurrent, ProbeOther, Apply, FinishCut, Finish,
         Requeue, snapshots
<1>3. CASE CallStep
  BY <1>1, <1>3 DEF CallStep, SaveFails, Save, Clear, Relist, SetReturns, CutEach, QueueEach,
         snapshots
<1>4. CASE Cuts
  BY <1>1, <1>4, FreshCut DEF Cuts, CutView, snapshots
<1>5. CASE UNCHANGED vars
  BY <1>1, <1>5 DEF vars
<1> QED
  BY <1>1, <1>2, <1>3, <1>4, <1>5, FreshRequests DEF Next, StartHealth, StopHealth, SetBegins, Tick,
     Open, Resolve, Fail, Leave, CooldownEnds, ReportLiveSourceFailure, RoutesChange, Flip, snapshots

\* What a reader of the cache or of an input relies on, all of it.
Sound == IInv /\ Follow /\ Fresh

LEMMA SoundAlways == Spec => []Sound
<1>1. Init => Sound
  <2>1. Init => Fresh
    BY DEF Init, Fresh
  <2> QED
    BY <2>1, IInvInit, FollowInit DEF Sound
<1>2. Sound /\ [Next]_vars => Sound'
  BY IInvNext, FollowNext, FreshNext DEF Sound
<1> QED
  BY <1>1, <1>2, PTL DEF Spec

-----------------------------------------------------------------------------
LEMMA Following == Follow /\ Fresh => ViewFollows /\ SnapshotFollows
<1> SUFFICES ASSUME Follow, Fresh, NEW s \in Streams
             PROVE  /\ view[s].pc = "open" => Follows(view[s], s)
                    /\ cache[s] # None =>
                         IF cache[s].pc = "own" THEN ~cache[s].stale ELSE Follows(cache[s], s)
  BY DEF ViewFollows, SnapshotFollows
<1>1. Switching(s) \/ Named(s) = {Url(s)}
  BY DEF Switching, Named, Asking
<1>2. Excused(s, {"snapshot", "view"}) \/ Excused(s, {"snapshot"}) => s \in moved \/ Switching(s)
  BY DEF Excused, Switching
<1>3. cache[s] # None => cache[s].pc \in {"open", "own"}
  BY DEF Follow, CaptureTyped, Captured, Own
<1> QED
  BY <1>1, <1>2, <1>3 DEF Follow, Finds, Found, Follows, Fresh

-----------------------------------------------------------------------------
\* The settings, the health queue and its checks hold what runtime_live_source.go keeps in them,
\* and liveSourceMu has a holder exactly while a call or a worker's invalidation is under way.
THEOREM TypeCorrect == Spec => []TypeOK
<1>1. IInv => TypeOK
  BY DEF IInv, Typed, SettingsTyped, WorldTyped, HealthTyped, HealthType, MaybeUrl, ViewsTyped,
         FlightsTyped, CutTyped, Locked, Counted, TypeOK
<1> QED
  BY <1>1, IInvInit, IInvNext, PTL DEF Spec

\* h.queued keeps a stream that is being checked out of the queue (queueLiveSourceHealth), so no
\* two workers ever check one stream.
THEOREM EachStreamCheckedOnce == Spec => []OneCheckEach
<1>1. IInv => OneCheckEach
  BY DEF IInv, Once, Checking, OneCheckEach
<1> QED
  BY <1>1, IInvInit, IInvNext, PTL DEF Spec

\* A check publishes what it found only for the revision it began with
\* (checkLiveSourceHealth), and clearLiveSourceHealth forgets what was published before.
THEOREM SelectionsStayCurrent == Spec => []SelectionIsCurrent
<1>1. IInv => SelectionIsCurrent
  BY DEF IInv
<1> QED
  BY <1>1, IInvInit, IInvNext, PTL DEF Spec

\* Whatever is derived from preference, routes and selection one after another, the live input of
\* a stream is the one the catalog names, or somebody holds liveSourceMu who is going to stop it
\* (invalidateLiveSource), or its routes moved or its preference changed while it was looked up.
THEOREM ViewersFollow == Spec => []ViewFollows
<1>1. Sound => ViewFollows
  BY Following DEF Sound
<1> QED
  BY <1>1, SoundAlways, PTL

\* No snapshot outlives a switch.  The flight of a call under way is dropped with the cache, and
\* storeSnapshotForFlight refuses afterwards what the call brings, be it a frame of the source that
\* was looked up or the recorder's own image.
THEOREM SnapshotsFollow == Spec => []SnapshotFollows
<1>1. Sound => SnapshotFollows
  BY Following DEF Sound
<1> QED
  BY <1>1, SoundAlways, PTL

\* A health check moves a stream only to a route it has just found healthy: it acts on the source
\* it began with, which the catalog still names when its revision and its signature do
\* (checkLiveSourceHealth).
THEOREM NeverSwitchesBlindly == Spec => NoBlindSwitch
<1> DEFINE Seen ==
             \A w \in Workers, s \in Streams :
               job[w].pc = "decided" /\ job[w].stream = s /\ job'[w] # job[w]
               /\ h'.states # h.states /\ Source(s)' # Source(s) => Source(s)' \in job[w].good
<1>1. ASSUME IInv, Follow, Next, NEW w \in Workers, NEW s \in Streams,
             job[w].pc = "decided", job[w].stream = s, job'[w] # job[w],
             h'.states # h.states, Source(s)' # Source(s)
      PROVE  Source(s)' \in job[w].good
  <2>1. PICK v \in Workers : WorkerStep(v)
    BY <1>1 DEF Next, StartHealth, StopHealth, Cuts, CutSnapshot, CutView, CallStep, SaveFails,
           Save, Clear, Relist, SetReturns, CutEach, QueueEach, SetBegins, Tick, Open, Resolve,
           Fail, Leave, CooldownEnds, ReportLiveSourceFailure, SnapshotBegins, RoutesChange,
           SnapshotResolves, SnapshotStores, SnapshotFallsBack, SnapshotEnds, Flip, control
  <2>2. v = w
    <3>1. \E x : job' = [job EXCEPT ![v] = x]
      BY <1>1, <2>1 DEF WorkerStep, Take, Snapshot, ProbeCurrent, ProbeOther, Apply, FinishCut,
             Finish, Requeue
    <3> QED
      BY <1>1, <3>1, JobSet
  <2>3. Apply(w)
    BY <1>1, <2>1, <2>2 DEF WorkerStep, Take, Snapshot, ProbeCurrent, ProbeOther, FinishCut, Finish,
           Requeue, Idle
  <2>4. ~Outdated(job[w])
    BY <1>1, <2>3 DEF Apply
  <2>5. Source(s) = job[w].current /\ Source(s)' = Decision(job[w])
    BY <1>1, <2>3, <2>4, Published DEF Follow
  <2> QED
    BY <1>1, <2>5 DEF Decision
<1>2. IInv /\ Follow /\ [Next]_vars => [Seen]_vars
  BY <1>1
<1>3. Init => IInv /\ Follow
  BY IInvInit, FollowInit
<1>4. IInv /\ Follow /\ [Next]_vars => (IInv /\ Follow)'
  BY IInvNext, FollowNext
<1> QED
  BY <1>2, <1>3, <1>4, PTL DEF Spec, NoBlindSwitch
=============================================================================
