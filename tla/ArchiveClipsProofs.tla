------------------------- MODULE ArchiveClipsProofs -------------------------
(***************************************************************************)
(* The downloaded input of an export is there for as long as its job may   *)
(* open it (InputOutlivesJob), and every variable keeps its type (TypeOK),  *)
(* for any number of records, requests, clips, attempts and failures.      *)
(*                                                                         *)
(* A request gives the input back when it has seen the job's end.  A clip  *)
(* ID is issued once, so what has ended does not begin again; before the   *)
(* job is launched it belongs to one request.                              *)
(*                                                                         *)
(* On the same ground stands the refinement of ClipRetention: what a clip  *)
(* has lost nobody brings back, a clip of which the retention knows has    *)
(* its row, and nothing links a clip that is queued for deletion.          *)
(***************************************************************************)
EXTENDS ArchiveClips, TLAPS

Starting == {"finding", "starting", "again"}
Attending == {"launching", "waiting", "abandoned", "tracking", "reusing", "upserting", "reading",
              "unlinking", "stopping", "removing", "removing meta"}

\* What is stored of clips.
StoreTyped ==
    meta \in [Clips -> {"none", "torn"} \cup Statuses] /\ link \in [Events -> Clips \cup {None}]

\* The types the argument needs.
Typed ==
    /\ StoreTyped
    /\ job \in [Clips -> JobType]
    /\ item \in [Clips -> Items \cup {None}]
    /\ th \in [Threads -> ThreadType]
    /\ world \in Worlds
    /\ \A t \in Threads :
         /\ th[t].pc \in Starting => th[t].e \in Items
         /\ th[t].pc \in Attending => th[t].c \in Clips

\* A job that is not launched yet belongs to one request.
Launching ==
    /\ \A t \in Threads :
         th[t].pc = "launching" => job[th[t].c].pc = "listed" /\ item[th[t].c] # None
    /\ \A t, u \in Threads :
         th[t].pc = "launching" /\ th[u].pc = "launching" /\ th[t].c = th[u].c => t = u

\* The input of a job is there from the beginning.
Kept ==
    \A c \in Clips :
        job[c].pc \in {"listed", "launched", "running"} /\ item[c] \in Chunks => c \in input

IInv == Typed /\ Launching /\ Kept

-----------------------------------------------------------------------------
(* Steps that start no job and take no input. *)

\* Jobs keep their place or leave the part of their life in which they read.
Reads(j) == j.pc \in {"listed", "launched", "running"}
JobsKeep ==
    \A c \in Clips :
        /\ Reads(job'[c]) => Reads(job[c])
        /\ job[c].pc = "listed" => job'[c].pc = "listed"

\* Nobody comes to launch anything.
ThreadsKeep ==
    \A t \in Threads : th'[t].pc = "launching" => th[t].pc = "launching" /\ th'[t].c = th[t].c

LEMMA FrameStep ==
  ASSUME IInv, Typed', JobsKeep, ThreadsKeep, UNCHANGED item,
         \A c \in Clips : Reads(job'[c]) /\ c \in input => c \in input'
  PROVE  IInv'
<1>1. Launching'
  <2>1. ASSUME NEW t \in Threads, th'[t].pc = "launching"
        PROVE  /\ th[t].pc = "launching" /\ th'[t].c = th[t].c
               /\ th[t].c \in Clips
               /\ job'[th'[t].c].pc = "listed" /\ item'[th'[t].c] # None
    BY <2>1 DEF IInv, Typed, Attending, Launching, JobsKeep, ThreadsKeep
  <2> QED
    BY <2>1 DEF IInv, Launching
<1>2. Kept'
  BY DEF IInv, Kept, JobsKeep, Reads
<1> QED
  BY <1>1, <1>2 DEF IInv

\* A thread's record with another place and nothing to attend to.
LEMMA ThreadGoes ==
  ASSUME Typed, NEW t \in Threads, NEW y \in ThreadType, th' = [th EXCEPT ![t] = y],
         y.pc \in Starting => y.e \in Items,
         y.pc \in Attending => y.c \in Clips /\ y.pc # "launching"
  PROVE  /\ th' \in [Threads -> ThreadType] /\ ThreadsKeep
         /\ \A u \in Threads :
              /\ th'[u].pc \in Starting => th'[u].e \in Items
              /\ th'[u].pc \in Attending => th'[u].c \in Clips
BY DEF Typed, ThreadsKeep, Attending

LEMMA ThreadsStay ==
  ASSUME Typed, UNCHANGED th
  PROVE  /\ th' \in [Threads -> ThreadType] /\ ThreadsKeep
         /\ \A u \in Threads :
              /\ th'[u].pc \in Starting => th'[u].e \in Items
              /\ th'[u].pc \in Attending => th'[u].c \in Clips
BY DEF Typed, ThreadsKeep

\* One job changes.
LEMMA JobGoes ==
  ASSUME Typed, NEW c \in Clips, NEW j \in JobType, job' = [job EXCEPT ![c] = j],
         Reads(j) => Reads(job[c]), job[c].pc = "listed" => j.pc = "listed"
  PROVE  job' \in [Clips -> JobType] /\ JobsKeep
BY DEF Typed, JobsKeep

LEMMA JobsStay ==
  ASSUME Typed, UNCHANGED job
  PROVE  job' \in [Clips -> JobType] /\ JobsKeep
BY DEF Typed, JobsKeep

\* What else is typed, and the step as a whole.
LEMMA QuietStep ==
  ASSUME IInv, UNCHANGED <<item, world>>, StoreTyped', JobsKeep, ThreadsKeep,
         job' \in [Clips -> JobType], th' \in [Threads -> ThreadType],
         \A u \in Threads :
           /\ th'[u].pc \in Starting => th'[u].e \in Items
           /\ th'[u].pc \in Attending => th'[u].c \in Clips,
         \A c \in Clips : Reads(job'[c]) /\ c \in input => c \in input'
  PROVE  IInv'
<1>1. Typed'
  BY DEF IInv, Typed
<1> QED
  BY <1>1, FrameStep

\* A step of one thread alone.
LEMMA ThreadStep ==
  ASSUME IInv, NEW t \in Threads, NEW y \in ThreadType, th' = [th EXCEPT ![t] = y],
         y.pc \in Starting => y.e \in Items,
         y.pc \in Attending => y.c \in Clips /\ y.pc # "launching",
         UNCHANGED <<job, item, input, world>>, StoreTyped'
  PROVE  IInv'
<1>1. /\ th' \in [Threads -> ThreadType] /\ ThreadsKeep
      /\ \A u \in Threads :
              /\ th'[u].pc \in Starting => th'[u].e \in Items
              /\ th'[u].pc \in Attending => th'[u].c \in Clips
  BY ThreadGoes DEF IInv
<1>2. job' \in [Clips -> JobType] /\ JobsKeep
  BY JobsStay DEF IInv
<1> QED
  BY <1>1, <1>2, QuietStep

\* A step of one job alone, which may give its input back when it is over.
LEMMA JobMoves ==
  ASSUME IInv, NEW c \in Clips, NEW j \in JobType, job' = [job EXCEPT ![c] = j],
         Reads(j) => Reads(job[c]), job[c].pc = "listed" => j.pc = "listed",
         UNCHANGED <<th, item, world>>, StoreTyped',
         input' = input \/ (~Reads(j) /\ input' = input \ {c})
  PROVE  IInv'
<1>1. job' \in [Clips -> JobType] /\ JobsKeep
  BY JobGoes DEF IInv
<1>2. /\ th' \in [Threads -> ThreadType] /\ ThreadsKeep
      /\ \A u \in Threads :
              /\ th'[u].pc \in Starting => th'[u].e \in Items
              /\ th'[u].pc \in Attending => th'[u].c \in Clips
  BY ThreadsStay DEF IInv
<1>3. \A x \in Clips : Reads(job'[x]) /\ x \in input => x \in input'
  BY DEF IInv, Typed
<1> QED
  BY <1>1, <1>2, <1>3, QuietStep

\* A step of a thread and of a job together.
LEMMA BothMove ==
  ASSUME IInv, NEW t \in Threads, NEW y \in ThreadType, th' = [th EXCEPT ![t] = y],
         y.pc \in Starting => y.e \in Items,
         y.pc \in Attending => y.c \in Clips /\ y.pc # "launching",
         NEW c \in Clips, NEW j \in JobType, job' = [job EXCEPT ![c] = j],
         Reads(j) => Reads(job[c]), job[c].pc = "listed" => j.pc = "listed",
         UNCHANGED <<item, world, meta, link>>,
         input' = input \/ (~Reads(j) /\ input' = input \ {c})
  PROVE  IInv'
<1>1. job' \in [Clips -> JobType] /\ JobsKeep
  BY JobGoes DEF IInv
<1>2. /\ th' \in [Threads -> ThreadType] /\ ThreadsKeep
      /\ \A u \in Threads :
              /\ th'[u].pc \in Starting => th'[u].e \in Items
              /\ th'[u].pc \in Attending => th'[u].c \in Clips
  BY ThreadGoes DEF IInv
<1>3. \A x \in Clips : Reads(job'[x]) /\ x \in input => x \in input'
  BY DEF IInv, Typed
<1>4. StoreTyped'
  BY DEF IInv, Typed, StoreTyped
<1> QED
  BY <1>1, <1>2, <1>3, <1>4, QuietStep

\* A step of the cleaner, or of time.
LEMMA Aside == ASSUME IInv, UNCHANGED <<job, th, item, input, world>>, StoreTyped' PROVE IInv'
BY JobsStay, ThreadsStay, QuietStep DEF IInv

LEMMA StoreStays == ASSUME IInv, UNCHANGED <<meta, link>> PROVE StoreTyped'
BY DEF IInv, Typed, StoreTyped

\* persistClip writes the metadata of its clip only, and may spoil it.
LEMMA PersistType ==
  ASSUME StoreTyped, NEW c \in Clips, NEW status \in Statuses, Persist(c, status)
  PROVE  /\ meta' \in [Clips -> {"none", "torn"} \cup Statuses]
         /\ \A x \in Clips : x # c => meta'[x] = meta[x]
         /\ Fault \/ UNCHANGED faults
<1>1. PICK m \in {status, meta[c], "torn"} : meta' = [meta EXCEPT ![c] = m]
  BY DEF Persist
<1>2. meta \in [Clips -> {"none", "torn"} \cup Statuses]
  BY DEF StoreTyped
<1>3. m \in {"none", "torn"} \cup Statuses
  BY <1>2
<1> QED
  BY <1>1, <1>2, <1>3 DEF Persist

LEMMA IdleType == Idle \in ThreadType /\ Idle.pc \notin Starting \cup Attending
BY DEF Idle, ThreadType, Statuses, Starting, Attending

\* A thread comes to rest.
LEMMA ReturnsKeeps ==
  ASSUME IInv, NEW t \in Threads, Returns(t), UNCHANGED <<job, item, input, world>>, StoreTyped'
  PROVE  IInv'
BY IdleType, ThreadStep DEF Returns

\* It goes elsewhere with what it has.
LEMMA GoesKeeps ==
  ASSUME IInv, NEW t \in Threads,
         NEW pc \in {"starting", "again", "tracking", "upserting", "unlinking", "removing",
                     "removing meta"},
         pc \in Starting => th[t].pc \in Starting, pc \in Attending => th[t].pc \in Attending,
         Goes(t, pc), UNCHANGED <<job, item, input, world>>, StoreTyped'
  PROVE  IInv'
<1> DEFINE y == [th[t] EXCEPT !.pc = pc]
<1>1. th \in [Threads -> ThreadType] /\ th[t] \in ThreadType
  BY DEF IInv, Typed
<1>2. y \in ThreadType /\ y.pc = pc /\ y.e = th[t].e /\ y.c = th[t].c
  BY <1>1 DEF ThreadType
<1>3. th' = [th EXCEPT ![t] = y]
  BY <1>1 DEF Goes
<1>4. y.pc \in Starting => y.e \in Items
  BY <1>2 DEF IInv, Typed
<1>5. y.pc \in Attending => y.c \in Clips /\ y.pc # "launching"
  BY <1>2 DEF IInv, Typed
<1> HIDE DEF y
<1> QED
  BY <1>2, <1>3, <1>4, <1>5, ThreadStep

\* What a thread is told of a clip that it may use.
LEMMA SeenType ==
  ASSUME IInv, NEW c \in Clips PROVE /\ Readable(c) => Status(c) \in Statuses
                                     /\ Reusable(c) => Status(c) \in Statuses
<1>1. Active(c) => Status(c) = "recording"
  BY DEF Status, Active, Recording
<1> QED
  BY <1>1 DEF Readable, Reusable, Statuses

-----------------------------------------------------------------------------
(* The job's goroutine. *)

\* capture.go:298: FFmpeg starts, or does not.
LEMMA FFmpegStartsKeeps == ASSUME IInv, NEW c \in Clips, FFmpegStarts(c) PROVE IInv'
<1> DEFINE runs == [job[c] EXCEPT !.pc = "running", !.told = "started"]
           ends == [job[c] EXCEPT !.pc = "ended", !.told = "failed"]
<1>1. job \in [Clips -> JobType] /\ job[c] \in JobType /\ job[c].pc = "launched"
  BY DEF IInv, Typed, FFmpegStarts
<1>2. runs \in JobType /\ ends \in JobType /\ Reads(job[c])
  BY <1>1 DEF JobType, Recording, Reads
<1>3. /\ job' = [job EXCEPT ![c] = runs] \/ job' = [job EXCEPT ![c] = ends]
      /\ UNCHANGED <<th, item, world, input, meta, link>>
  BY <1>1 DEF FFmpegStarts, JobStep, db
<1> HIDE DEF runs, ends
<1> QED
  BY <1>1, <1>2, <1>3, StoreStays, JobMoves

LEMMA RetriesKeeps == ASSUME IInv, NEW c \in Clips, Retries(c) PROVE IInv'
<1> DEFINE j == [job[c] EXCEPT !.left = @ - 1]
<1>1. /\ job \in [Clips -> JobType] /\ job[c] \in JobType /\ job[c].pc = "running"
      /\ job[c].left > 0
  BY DEF IInv, Typed, Retries
<1>2. job[c].left - 1 \in Nat
  BY <1>1 DEF JobType
<1>3. j \in JobType /\ Reads(job[c])
  BY <1>1, <1>2 DEF JobType, Reads
<1>4. job' = [job EXCEPT ![c] = j] /\ UNCHANGED <<th, item, world, input, meta, link>>
  BY <1>1 DEF Retries, JobStep, disk, db
<1> HIDE DEF j
<1> QED
  BY <1>1, <1>3, <1>4, StoreStays, JobMoves

LEMMA FFmpegEndsKeeps == ASSUME IInv, NEW c \in Clips, FFmpegEnds(c) PROVE IInv'
<1>1. /\ job \in [Clips -> JobType] /\ job[c] \in JobType /\ job[c].pc = "running"
  BY DEF IInv, Typed, FFmpegEnds
<1>2. PICK ok \in BOOLEAN : job' = [job EXCEPT ![c].pc = "ended", ![c].ok = ok]
  BY DEF FFmpegEnds
<1> DEFINE j == [job[c] EXCEPT !.pc = "ended", !.ok = ok]
<1>3. j \in JobType /\ Reads(job[c])
  BY <1>1 DEF JobType, Recording, Reads
<1>4. job' = [job EXCEPT ![c] = j] /\ UNCHANGED <<th, item, world, input, meta, link>>
  BY <1>1, <1>2 DEF FFmpegEnds, JobStep, disk, db
<1> HIDE DEF j
<1> QED
  BY <1>1, <1>3, <1>4, StoreStays, JobMoves

\* capture.go, complete: the input is given back when the job reads no more.
LEMMA CompletesKeeps == ASSUME IInv, NEW c \in Clips, Completes(c) PROVE IInv'
<1> DEFINE j == [job[c] EXCEPT !.pc = "complete"]
<1>1. /\ job \in [Clips -> JobType] /\ job[c] \in JobType /\ job[c].pc = "ended"
  BY DEF IInv, Typed, Completes
<1>2. j \in JobType /\ j.pc = "complete"
  BY <1>1 DEF JobType
<1>3. job' = [job EXCEPT ![c] = j] /\ UNCHANGED <<th, item, world>> /\ input' = input \ {c}
  BY <1>1 DEF Completes, JobStep
<1>4. StoreTyped'
  <2>1. Outcome(c) \in Statuses
    BY DEF Outcome, Statuses
  <2> QED
    BY <2>1, PersistType DEF Completes, JobStep, db, IInv, Typed, StoreTyped
<1> HIDE DEF j
<1> QED
  BY <1>1, <1>2, <1>3, <1>4, JobMoves DEF Reads

LEMMA LeavesKeeps == ASSUME IInv, NEW c \in Clips, Leaves(c) PROVE IInv'
<1> DEFINE j == IF job[c].told = "nothing" THEN NoJob
                ELSE [NoJob EXCEPT !.told = job[c].told, !.ok = job[c].ok]
<1>1. /\ job \in [Clips -> JobType] /\ job[c] \in JobType /\ job[c].pc = "complete"
  BY DEF IInv, Typed, Leaves
<1>2. NoJob \in JobType /\ NoJob.pc = "none"
  BY DEF NoJob, JobType
<1>3. j \in JobType /\ j.pc = "none"
  <2>1. [NoJob EXCEPT !.told = job[c].told, !.ok = job[c].ok] \in JobType
    BY <1>1, <1>2 DEF JobType
  <2>2. [NoJob EXCEPT !.told = job[c].told, !.ok = job[c].ok].pc = "none"
    BY DEF NoJob
  <2> QED
    BY <1>2, <2>1, <2>2
<1>4. job' = [job EXCEPT ![c] = j] /\ UNCHANGED <<th, item, world, input, meta, link>>
  BY DEF Leaves, JobStep, disk, db
<1> HIDE DEF j
<1> QED
  BY <1>1, <1>3, <1>4, StoreStays, JobMoves DEF Reads

-----------------------------------------------------------------------------
(* Requests and the event sync. *)

LEMMA ExportKeeps ==
  ASSUME IInv, NEW t \in Threads, NEW e \in Items, Export(t, e) PROVE IInv'
<1> DEFINE y == [Idle EXCEPT !.pc = "finding", !.e = e]
<1>1. y \in ThreadType /\ y.pc = "finding" /\ y.e = e
  BY IdleType DEF ThreadType, Idle
<1>2. th' = [th EXCEPT ![t] = y] /\ UNCHANGED <<job, item, input, world, meta, link>>
  BY DEF Export, disk, db
<1> HIDE DEF y
<1> QED
  BY <1>1, <1>2, StoreStays, ThreadStep DEF Attending

LEMMA FindKeeps == ASSUME IInv, NEW t \in Threads, Find(t) PROVE IInv'
<1> DEFINE found == {c \in Clips : item[c] = th[t].e /\ Reusable(c)}
<1>1. UNCHANGED <<job, item, input, world, meta, link>> /\ StoreTyped'
  BY StoreStays DEF Find, disk, db
<1>2. CASE \E c \in Clips :
             /\ Newest(found, c)
             /\ th' = [th EXCEPT ![t].pc = "reusing", ![t].c = c, ![t].seen = Status(c)]
  <2>1. PICK c \in Clips :
             /\ Newest(found, c)
             /\ th' = [th EXCEPT ![t].pc = "reusing", ![t].c = c, ![t].seen = Status(c)]
    BY <1>2
  <2> DEFINE y == [th[t] EXCEPT !.pc = "reusing", !.c = c, !.seen = Status(c)]
  <2>2. th \in [Threads -> ThreadType] /\ th[t] \in ThreadType
    BY DEF IInv, Typed
  <2>3. Status(c) \in Statuses
    BY <2>1, SeenType DEF Newest
  <2>4. y \in ThreadType /\ y.pc = "reusing" /\ y.c = c
    BY <2>2, <2>3 DEF ThreadType
  <2>5. th' = [th EXCEPT ![t] = y]
    BY <2>1, <2>2
  <2> HIDE DEF y
  <2> QED
    BY <1>1, <2>4, <2>5, ThreadStep DEF Starting, Attending
<1>3. CASE th[t].pc = "finding" /\ Goes(t, "starting")
  BY <1>1, <1>3, GoesKeeps DEF Starting, Attending
<1>4. CASE Returns(t)
  BY <1>1, <1>4, ReturnsKeeps
<1> QED
  BY <1>2, <1>3, <1>4 DEF Find

LEMMA GivesUpKeeps == ASSUME IInv, NEW t \in Threads, GivesUp(t) PROVE IInv'
BY StoreStays, ReturnsKeeps DEF GivesUp, disk, db

\* capture.go, startClipJob: a clip ID that nobody has had.
LEMMA StartKeeps == ASSUME IInv, NEW t \in Threads, Start(t) PROVE IInv'
<1>1. th[t].pc = "starting" /\ StoreTyped' /\ UNCHANGED world
  BY StoreStays DEF Start, db
<1>2. CASE Goes(t, "again") /\ UNCHANGED <<input, job, item>>
  BY <1>1, <1>2, GoesKeeps DEF Starting, Attending
<1>3. CASE \E c \in Next1 :
              /\ th' = [th EXCEPT ![t].pc = "launching", ![t].c = c]
              /\ item' = [item EXCEPT ![c] = th[t].e]
              /\ job' = [job EXCEPT ![c] = [NoJob EXCEPT !.pc = "listed", !.left = world.retries]]
              /\ input' = IF th[t].e \in Chunks THEN input \cup {c} ELSE input
  <2>1. PICK c \in Next1 :
              /\ th' = [th EXCEPT ![t].pc = "launching", ![t].c = c]
              /\ item' = [item EXCEPT ![c] = th[t].e]
              /\ job' = [job EXCEPT ![c] = [NoJob EXCEPT !.pc = "listed", !.left = world.retries]]
              /\ input' = IF th[t].e \in Chunks THEN input \cup {c} ELSE input
    BY <1>3
  <2> DEFINE y == [th[t] EXCEPT !.pc = "launching", !.c = c]
             j == [NoJob EXCEPT !.pc = "listed", !.left = world.retries]
  <2>2. /\ th \in [Threads -> ThreadType] /\ th[t] \in ThreadType
        /\ job \in [Clips -> JobType] /\ item \in [Clips -> Items \cup {None}]
        /\ c \in Clips /\ item[c] = None /\ th[t].e \in Items /\ world.retries \in Nat
        /\ th[t].e # None
    BY <1>1, WorldsAssumption, NamesAssumption
    DEF IInv, Typed, Next1, Issued, WorldType, Starting
  <2>3. y \in ThreadType /\ y.pc = "launching" /\ y.c = c
    BY <2>2 DEF ThreadType
  <2>4. j \in JobType /\ j.pc = "listed"
    BY <2>2 DEF NoJob, JobType, Recording
  <2>5. \A u \in Threads : th'[u] = IF u = t THEN y ELSE th[u]
    BY <2>1, <2>2
  <2>6. \A x \in Clips : /\ job'[x] = IF x = c THEN j ELSE job[x]
                         /\ item'[x] = IF x = c THEN th[t].e ELSE item[x]
    BY <2>1, <2>2
  <2>7. th' = [th EXCEPT ![t] = y] /\ job' = [job EXCEPT ![c] = j]
    BY <2>1, <2>2
  <2> HIDE DEF y, j
  <2>8. Typed'
    <3>1. th' \in [Threads -> ThreadType] /\ job' \in [Clips -> JobType]
      BY <2>2, <2>3, <2>4, <2>7
    <3>2. item' \in [Clips -> Items \cup {None}]
      BY <2>1, <2>2
    <3>3. \A u \in Threads : /\ th'[u].pc \in Starting => th'[u].e \in Items
                             /\ th'[u].pc \in Attending => th'[u].c \in Clips
      BY <2>2, <2>3, <2>5 DEF IInv, Typed, Starting
    <3> QED
      BY <1>1, <3>1, <3>2, <3>3 DEF IInv, Typed
  <2>9. \A u \in Threads : th[u].pc = "launching" => th[u].c \in Clips /\ th[u].c # c
    BY <2>2 DEF IInv, Typed, Launching, Attending
  <2>10. Launching'
    <3>1. ASSUME NEW u \in Threads, th'[u].pc = "launching"
          PROVE  job'[th'[u].c].pc = "listed" /\ item'[th'[u].c] # None
      <4>1. CASE u = t
        BY <2>2, <2>3, <2>4, <2>5, <2>6, <4>1
      <4>2. CASE u # t
        BY <2>5, <2>6, <2>9, <3>1, <4>2 DEF IInv, Launching
      <4> QED
        BY <4>1, <4>2
    <3>2. ASSUME NEW u \in Threads, NEW v \in Threads, th'[u].pc = "launching",
                 th'[v].pc = "launching", th'[u].c = th'[v].c
          PROVE  u = v
      BY <2>3, <2>5, <2>9, <3>2 DEF IInv, Launching
    <3> QED
      BY <3>1, <3>2 DEF Launching
  <2>11. Kept'
    BY <2>1, <2>6 DEF IInv, Kept
  <2> QED
    BY <2>8, <2>10, <2>11 DEF IInv
<1> QED
  BY <1>2, <1>3 DEF Start

\* It launches its job and nobody else's.
LEMMA LaunchKeeps == ASSUME IInv, NEW t \in Threads, Launch(t) PROVE IInv'
<1> DEFINE c == th[t].c
           y == [th[t] EXCEPT !.pc = "waiting"]
           j == [job[c] EXCEPT !.pc = "launched"]
<1>1. /\ th \in [Threads -> ThreadType] /\ th[t] \in ThreadType /\ c \in Clips
      /\ job \in [Clips -> JobType] /\ job[c] \in JobType /\ job[c].pc = "listed"
      /\ th[t].pc = "launching"
  BY DEF IInv, Typed, Launch, Attending, Launching
<1>2. y \in ThreadType /\ y.pc = "waiting" /\ y.c = c
  BY <1>1 DEF ThreadType
<1>3. j \in JobType /\ j.pc = "launched"
  BY <1>1 DEF JobType, Recording
<1>4. th' = [th EXCEPT ![t] = y] /\ job' = [job EXCEPT ![c] = j]
  BY <1>1 DEF Launch, Goes
<1>5. UNCHANGED <<item, input, world>>
  BY DEF Launch
<1>6. StoreTyped'
  <2>1. "recording" \in Statuses
    BY DEF Statuses
  <2> QED
    BY <1>1, <2>1, PersistType DEF Launch, db, IInv, Typed, StoreTyped
<1> HIDE DEF y, j, c
<1>7. \A u \in Threads : th'[u] = IF u = t THEN y ELSE th[u]
  BY <1>1, <1>4
<1>8. \A x \in Clips : job'[x] = IF x = c THEN j ELSE job[x]
  BY <1>1, <1>4
<1>9. Typed'
  <2>1. th' \in [Threads -> ThreadType] /\ job' \in [Clips -> JobType]
    BY <1>1, <1>2, <1>3, <1>4
  <2>2. \A u \in Threads : /\ th'[u].pc \in Starting => th'[u].e \in Items
                           /\ th'[u].pc \in Attending => th'[u].c \in Clips
    BY <1>1, <1>2, <1>7 DEF IInv, Typed, Starting
  <2> QED
    BY <1>5, <1>6, <2>1, <2>2 DEF IInv, Typed
<1>10. Launching'
  <2>1. ASSUME NEW u \in Threads, th'[u].pc = "launching"
        PROVE  u # t /\ th'[u] = th[u] /\ th[u].c \in Clips /\ th[u].c # c
    BY <1>1, <1>2, <1>7, <2>1 DEF IInv, Launching, Typed, Attending, c
  <2> QED
    BY <1>5, <1>8, <2>1 DEF IInv, Launching
<1>11. Kept'
  BY <1>1, <1>3, <1>5, <1>8 DEF IInv, Kept
<1> QED
  BY <1>9, <1>10, <1>11 DEF IInv

\* Its caller drops the struct of a job: the job goes on as it is.
LEMMA DismissedType ==
  ASSUME IInv, NEW c \in Clips
  PROVE  \E j \in JobType : Dismissed(c) = [job EXCEPT ![c] = j] /\ j.pc = job[c].pc
<1>1. job \in [Clips -> JobType] /\ job[c] \in JobType
  BY DEF IInv, Typed
<1>2. NoJob \in JobType /\ NoJob.pc = "none"
  BY DEF NoJob, JobType
<1>3. CASE job[c].pc = "none"
  BY <1>1, <1>2, <1>3 DEF Dismissed
<1>4. CASE job[c].pc # "none"
  <2> DEFINE j == [job[c] EXCEPT !.told = "nothing"]
  <2>1. j \in JobType /\ j.pc = job[c].pc
    BY <1>1 DEF JobType
  <2>2. Dismissed(c) = [job EXCEPT ![c] = j]
    BY <1>4 DEF Dismissed
  <2> QED
    BY <2>1, <2>2
<1> QED
  BY <1>3, <1>4

\* startClipJob returns; the input of a job that did not start goes with it.
LEMMA StartedKeeps == ASSUME IInv, NEW t \in Threads, Started(t) PROVE IInv'
<1> DEFINE c == th[t].c
<1>1. /\ th \in [Threads -> ThreadType] /\ th[t] \in ThreadType /\ c \in Clips
      /\ th[t].pc = "waiting"
  BY DEF IInv, Typed, Started, Attending
<1>2. PICK j \in JobType : Dismissed(c) = [job EXCEPT ![c] = j] /\ j.pc = job[c].pc
  BY <1>1, DismissedType
<1>3. job' = [job EXCEPT ![c] = j] /\ UNCHANGED <<item, world, meta, link>>
  BY <1>2 DEF Started, db
<1>4. CASE /\ th' = [th EXCEPT ![t].pc = "tracking",
                              ![t].seen = IF Active(c) THEN "recording" ELSE Outcome(c)]
           /\ UNCHANGED input
  <2> DEFINE told == IF Active(c) THEN "recording" ELSE Outcome(c)
             y == [th[t] EXCEPT !.pc = "tracking", !.seen = told]
  <2>1. told \in Statuses
    BY DEF Outcome, Statuses
  <2> HIDE DEF told
  <2>2. y \in ThreadType /\ y.pc = "tracking" /\ y.c = c
    BY <1>1, <2>1 DEF ThreadType
  <2>3. th' = [th EXCEPT ![t] = y]
    BY <1>1, <1>4 DEF told
  <2> HIDE DEF y
  <2> QED
    BY <1>1, <1>2, <1>3, <1>4, <2>2, <2>3, BothMove DEF Starting, Attending, Reads
<1>5. CASE job[c].pc = "none" /\ Returns(t) /\ input' = input \ {c}
  BY <1>1, <1>2, <1>3, <1>5, IdleType, BothMove DEF Returns, Reads
<1> QED
  BY <1>4, <1>5 DEF Started

\* capture.go:298: the context ends; the caller cancels and waits.
LEMMA ContextEndsKeeps == ASSUME IInv, NEW t \in Threads, ContextEnds(t) PROVE IInv'
<1> DEFINE c == th[t].c
           y == [th[t] EXCEPT !.pc = "abandoned"]
           cancels == job[c].pc # "none"
           j == [job[c] EXCEPT !.cancelled = cancels]
<1>1. /\ th \in [Threads -> ThreadType] /\ th[t] \in ThreadType /\ c \in Clips
      /\ job \in [Clips -> JobType] /\ job[c] \in JobType
  BY DEF IInv, Typed, ContextEnds, Attending
<1>2. y \in ThreadType /\ y.pc = "abandoned" /\ y.c = c
  BY <1>1 DEF ThreadType
<1>3. j \in JobType /\ j.pc = job[c].pc
  <2>1. cancels \in BOOLEAN
    OBVIOUS
  <2> HIDE DEF cancels
  <2> QED
    BY <1>1, <2>1 DEF JobType
<1>4. /\ th' = [th EXCEPT ![t] = y] /\ job' = [job EXCEPT ![c] = j]
      /\ UNCHANGED <<item, input, world, meta, link>>
  BY <1>1 DEF ContextEnds, Goes, disk, db
<1> HIDE DEF y, j, c
<1> QED
  BY <1>1, <1>2, <1>3, <1>4, BothMove DEF Starting, Reads

\* Only when the job is over is its input given back.
LEMMA AbandonsKeeps == ASSUME IInv, NEW t \in Threads, Abandons(t) PROVE IInv'
<1> DEFINE c == th[t].c
<1>1. c \in Clips /\ job[c].pc = "none"
  BY DEF IInv, Typed, Abandons, Attending
<1>2. PICK j \in JobType : Dismissed(c) = [job EXCEPT ![c] = j] /\ j.pc = job[c].pc
  BY <1>1, DismissedType
<1>3. /\ job' = [job EXCEPT ![c] = j] /\ UNCHANGED <<item, world, meta, link>>
      /\ th' = [th EXCEPT ![t] = Idle] /\ input' = input \ {c}
  BY <1>2 DEF Abandons, Returns, db
<1> QED
  BY <1>1, <1>2, <1>3, IdleType, BothMove DEF Reads

LEMMA UpsertKeeps == ASSUME IInv, NEW t \in Threads, Upsert(t) PROVE IInv'
<1>1. Goes(t, "upserting") \/ Returns(t)
  BY DEF Upsert, AfterUpsert
<1>2. UNCHANGED <<job, item, input, world, meta>> /\ th[t].pc \in Attending
  BY DEF Upsert, disk, Attending
<1>3. th[t].c \in Clips
  BY <1>2 DEF IInv, Typed
<1>4. link' = link \/ link' = [link EXCEPT ![th[t].e] = th[t].c]
  BY DEF Upsert
<1>5. StoreTyped'
  BY <1>2, <1>3, <1>4 DEF IInv, Typed, StoreTyped
<1> QED
  BY <1>1, <1>2, <1>5, GoesKeeps, ReturnsKeeps DEF Starting

LEMMA ReconcileKeeps == ASSUME IInv, NEW e \in Events, Reconcile(e) PROVE IInv'
<1> DEFINE y == [Idle EXCEPT !.pc = "reading", !.e = e, !.c = link[e]]
<1>1. Sync \in Threads /\ e \in Items /\ link[e] \in Clips
  BY DEF Threads, Items, IInv, Typed, StoreTyped, Reconcile
<1>2. y \in ThreadType /\ y.pc = "reading" /\ y.c \in Clips
  BY <1>1, IdleType DEF ThreadType, Idle
<1>3. th' = [th EXCEPT ![Sync] = y] /\ UNCHANGED <<job, item, input, world, meta, link>>
  BY DEF Reconcile, disk, db
<1> HIDE DEF y
<1> QED
  BY <1>1, <1>2, <1>3, StoreStays, ThreadStep DEF Starting

LEMMA GetClipKeeps == ASSUME IInv, NEW t \in Threads, GetClip(t) PROVE IInv'
<1> DEFINE c == th[t].c
           y == [th[t] EXCEPT !.pc = "upserting", !.seen = Status(c)]
<1>1. /\ th \in [Threads -> ThreadType] /\ th[t] \in ThreadType /\ c \in Clips
      /\ th[t].pc \in Attending
  BY DEF IInv, Typed, GetClip, Attending
<1>2. UNCHANGED <<job, item, input, world, meta, link>>
  BY DEF GetClip, disk, db
<1>3. CASE Readable(c) /\ th' = [th EXCEPT ![t].pc = "upserting", ![t].seen = Status(c)]
  <2>1. Status(c) \in Statuses
    BY <1>1, <1>3, SeenType
  <2>2. y \in ThreadType /\ y.pc = "upserting" /\ y.c = c
    BY <1>1, <2>1 DEF ThreadType
  <2>3. th' = [th EXCEPT ![t] = y]
    BY <1>1, <1>3
  <2> HIDE DEF y
  <2> QED
    BY <1>1, <1>2, <2>2, <2>3, StoreStays, ThreadStep DEF Starting
<1>4. CASE Goes(t, "unlinking")
  BY <1>1, <1>2, <1>4, StoreStays, GoesKeeps DEF Starting
<1> QED
  BY <1>3, <1>4 DEF GetClip

LEMMA UnlinkKeeps == ASSUME IInv, NEW t \in Threads, Unlink(t) PROVE IInv'
<1>1. Returns(t) /\ UNCHANGED <<job, item, input, world, meta>>
  BY DEF Unlink, disk
<1>2. link' = link \/ link' = [link EXCEPT ![th[t].e] = None]
  BY DEF Unlink
<1>3. StoreTyped'
  BY <1>1, <1>2 DEF IInv, Typed, StoreTyped
<1> QED
  BY <1>1, <1>3, ReturnsKeeps

LEMMA SearchKeeps ==
  ASSUME IInv, NEW t \in Threads, NEW e \in Events, Search(t, e) PROVE IInv'
<1>1. PICK c \in Clips :
        /\ Status(c) \in Statuses
        /\ th' = [th EXCEPT ![t] = [pc |-> "upserting", e |-> e, c |-> c, seen |-> Status(c)]]
  BY DEF Search, Matching, Found
<1> DEFINE y == [pc |-> "upserting", e |-> e, c |-> c, seen |-> Status(c)]
<1>2. Status(c) \in Statuses /\ e \in Items
  BY <1>1 DEF Items
<1>3. y \in ThreadType /\ y.pc = "upserting" /\ y.c = c
  BY <1>2 DEF ThreadType
<1>4. UNCHANGED <<job, item, input, world, meta, link>>
  BY DEF Search, disk, db
<1>5. th' = [th EXCEPT ![t] = y]
  BY <1>1
<1> HIDE DEF y
<1> QED
  BY <1>3, <1>4, <1>5, StoreStays, ThreadStep DEF Starting

-----------------------------------------------------------------------------
(* StopClip and DeleteClip. *)

LEMMA StopKeeps == ASSUME IInv, NEW t \in Threads, NEW c \in Clips, Stop(t, c) PROVE IInv'
<1>1. PICK deletes \in BOOLEAN :
        th' = [th EXCEPT ![t] = [Idle EXCEPT !.pc = IF deletes THEN "stopping" ELSE "idle",
                                             !.c = IF deletes THEN c ELSE None]]
  BY DEF Stop
<1> DEFINE y == [Idle EXCEPT !.pc = IF deletes THEN "stopping" ELSE "idle",
                             !.c = IF deletes THEN c ELSE None]
           j == [job[c] EXCEPT !.stopping = TRUE, !.cancelled = TRUE]
<1>2. job \in [Clips -> JobType] /\ job[c] \in JobType
  BY DEF IInv, Typed
<1>3. j \in JobType /\ j.pc = job[c].pc
  BY <1>2 DEF JobType
<1>4. /\ y \in ThreadType /\ y.pc \in {"stopping", "idle"}
      /\ y.pc = "stopping" => y.c = c
  BY IdleType DEF ThreadType, Idle
<1>5. th' = [th EXCEPT ![t] = y] /\ job' = [job EXCEPT ![c] = j]
  BY <1>1, <1>2 DEF Stop
<1>6. UNCHANGED <<item, input, world, meta, link>>
  BY DEF Stop, disk, db
<1> HIDE DEF y, j
<1> QED
  BY <1>3, <1>4, <1>5, <1>6, BothMove DEF Starting, Attending, Reads

LEMMA StoppedKeeps == ASSUME IInv, NEW t \in Threads, Stopped(t) PROVE IInv'
<1>1. /\ Goes(t, "removing") \/ Returns(t)
      /\ UNCHANGED <<job, item, input, world, meta, link>> /\ th[t].pc \in Attending
  BY DEF Stopped, disk, db, Attending
<1> QED
  BY <1>1, StoreStays, GoesKeeps, ReturnsKeeps DEF Starting

LEMMA DeleteClipKeeps ==
  ASSUME IInv, NEW t \in Threads, NEW c \in Clips, DeleteClip(t, c) PROVE IInv'
<1> DEFINE y == [Idle EXCEPT !.pc = "removing", !.c = c]
<1>1. y \in ThreadType /\ y.pc = "removing" /\ y.c = c
  BY IdleType DEF ThreadType, Idle
<1>2. th' = [th EXCEPT ![t] = y] /\ UNCHANGED <<job, item, input, world, meta, link>>
  BY DEF DeleteClip, disk, db
<1> HIDE DEF y
<1> QED
  BY <1>1, <1>2, StoreStays, ThreadStep DEF Starting

LEMMA RemoveVideoKeeps == ASSUME IInv, NEW t \in Threads, RemoveVideo(t) PROVE IInv'
<1>1. /\ Goes(t, "removing meta") \/ Returns(t)
      /\ UNCHANGED <<job, item, input, world, meta, link>> /\ th[t].pc \in Attending
  BY DEF RemoveVideo, db, Attending
<1> QED
  BY <1>1, StoreStays, GoesKeeps, ReturnsKeeps DEF Starting

LEMMA RemoveMetaKeeps == ASSUME IInv, NEW t \in Threads, RemoveMeta(t) PROVE IInv'
<1>1. Returns(t) /\ UNCHANGED <<job, item, input, world, link>>
  BY DEF RemoveMeta, db
<1>2. meta' = meta \/ meta' = [meta EXCEPT ![th[t].c] = "none"]
  BY DEF RemoveMeta
<1>3. StoreTyped'
  BY <1>1, <1>2 DEF IInv, Typed, StoreTyped
<1> QED
  BY <1>1, <1>3, ReturnsKeeps

-----------------------------------------------------------------------------
(* Retention, time and crashes. *)

LEMMA CleanerKeeps == ASSUME IInv, CleanerNext PROVE IInv'
<1>1. UNCHANGED <<job, th, item, input, world>>
  BY DEF CleanerNext, CleanerOnly, Prune, Check, Rests, CleanVideo, CleanMeta, Finish
<1>2. StoreTyped'
  <2>1. CASE Prune
    <3>1. PICK unseen :
            /\ link' = [e \in Events |-> IF e \in unseen THEN None ELSE link[e]]
            /\ UNCHANGED meta
      BY <2>1 DEF Prune
    <3> QED
      BY <3>1 DEF IInv, Typed, StoreTyped
  <2>2. CASE CleanMeta
    <3>1. UNCHANGED link /\ (meta' = meta \/ meta' = [meta EXCEPT ![cl.c] = "none"])
      BY <2>2 DEF CleanMeta, db
    <3> QED
      BY <3>1 DEF IInv, Typed, StoreTyped
  <2>3. CASE (\E c \in Clips : Check(c)) \/ Rests \/ CleanVideo \/ Finish
    BY <2>3, StoreStays DEF Check, Rests, CleanVideo, Finish, db
  <2> QED
    BY <2>1, <2>2, <2>3 DEF CleanerNext
<1> QED
  BY <1>1, <1>2, Aside

LEMMA AgesKeeps == ASSUME IInv, NEW i \in Items, Ages(i) PROVE IInv'
BY StoreStays, Aside DEF Ages, disk, db

\* What is on disk survives, jobs and requests do not.
LEMMA CrashKeeps == ASSUME IInv, Crash PROVE IInv'
<1>1. /\ job' = [c \in Clips |-> NoJob] /\ th' = [t \in Threads |-> Idle]
      /\ UNCHANGED <<item, input, world, link>>
  BY DEF Crash, db
<1>2. NoJob \in JobType /\ NoJob.pc = "none"
  BY DEF NoJob, JobType
<1>3. Idle \in ThreadType /\ Idle.pc = "idle"
  BY IdleType DEF Idle
<1>0. StoreTyped'
  <2>1. PICK cut : meta' = [c \in Clips |-> IF c \in cut THEN "torn" ELSE meta[c]]
    BY DEF Crash
  <2> QED
    BY <1>1, <2>1 DEF IInv, Typed, StoreTyped
<1>4. Typed'
  BY <1>1, <1>2, <1>3, <1>0 DEF IInv, Typed, Starting, Attending
<1>5. Launching' /\ Kept'
  BY <1>1, <1>2, <1>3 DEF Launching, Kept
<1> QED
  BY <1>4, <1>5 DEF IInv

-----------------------------------------------------------------------------
(* The theorem. *)

LEMMA IInvInit == Init => IInv
<1> SUFFICES ASSUME Init PROVE IInv
  OBVIOUS
<1>1. NoJob \in JobType /\ NoJob.pc = "none"
  BY DEF NoJob, JobType
<1>2. Idle \in ThreadType /\ Idle.pc = "idle"
  BY IdleType DEF Idle
<1>3. Typed
  BY <1>1, <1>2 DEF Init, Typed, StoreTyped, Starting, Attending
<1>4. Launching /\ Kept
  BY <1>1, <1>2 DEF Init, Launching, Kept
<1> QED
  BY <1>3, <1>4 DEF IInv

LEMMA ThreadKeeps == ASSUME IInv, NEW t \in Threads, ThreadNext(t) PROVE IInv'
<1>1. CASE Find(t) \/ GivesUp(t) \/ Start(t) \/ Launch(t) \/ Started(t) \/ Abandons(t)
  BY <1>1, FindKeeps, GivesUpKeeps, StartKeeps, LaunchKeeps, StartedKeeps, AbandonsKeeps
<1>2. CASE Upsert(t) \/ GetClip(t) \/ Unlink(t) \/ Stopped(t) \/ RemoveVideo(t) \/ RemoveMeta(t)
  BY <1>2, UpsertKeeps, GetClipKeeps, UnlinkKeeps, StoppedKeeps, RemoveVideoKeeps, RemoveMetaKeeps
<1> QED
  BY <1>1, <1>2 DEF ThreadNext

LEMMA JobKeeps == ASSUME IInv, NEW c \in Clips, JobNext(c) PROVE IInv'
BY FFmpegStartsKeeps, RetriesKeeps, FFmpegEndsKeeps, CompletesKeeps, LeavesKeeps DEF JobNext

LEMMA IInvNext == ASSUME IInv, [Next]_vars PROVE IInv'
<1>1. ASSUME NEW c \in Clips, JobNext(c) PROVE IInv'
  BY <1>1, JobKeeps
<1>2. ASSUME NEW t \in Threads, ThreadNext(t) \/ ContextEnds(t) PROVE IInv'
  BY <1>2, ThreadKeeps, ContextEndsKeeps
<1>3. ASSUME NEW t \in Threads, NEW i \in Items, Export(t, i) PROVE IInv'
  BY <1>3, ExportKeeps
<1>4. ASSUME NEW t \in Threads, NEW e \in Events, Search(t, e) PROVE IInv'
  BY <1>4, SearchKeeps
<1>5. ASSUME NEW t \in Threads, NEW c \in Clips, Stop(t, c) \/ DeleteClip(t, c) PROVE IInv'
  BY <1>5, StopKeeps, DeleteClipKeeps
<1>6. CASE CleanerNext \/ Crash
  BY <1>6, CleanerKeeps, CrashKeeps
<1>7. ASSUME NEW e \in Events, Reconcile(e) PROVE IInv'
  BY <1>7, ReconcileKeeps
<1>8. ASSUME NEW i \in Items, Ages(i) PROVE IInv'
  BY <1>8, AgesKeeps
<1>9. CASE UNCHANGED vars
  BY <1>9, StoreStays, Aside DEF vars
<1> QED
  BY <1>1, <1>2, <1>3, <1>4, <1>5, <1>6, <1>7, <1>8, <1>9 DEF Next

\* However the request that downloaded it ends, FFmpeg's input is there while the job may
\* open it (startClipJob, job.complete, EnsureNVRArchiveClip).
THEOREM InputsOutliveJobs == Spec => []InputOutlivesJob
<1>1. IInv => InputOutlivesJob
  BY DEF IInv, Kept, InputOutlivesJob
<1> QED
  BY <1>1, IInvInit, IInvNext, PTL DEF Spec

-----------------------------------------------------------------------------
(* What the argument above did not need of the types. *)

Rest ==
    /\ video \subseteq Clips /\ input \subseteq Clips /\ rows \subseteq Clips
    /\ listed \subseteq Events /\ aged \subseteq Items
    /\ owned \in [Clips -> {"no", "owned", "queued"}]
    /\ mark \in [Events -> {"none"} \cup Statuses]
    /\ cl \in CleanerType
    /\ faults \in Nat

LEMMA RestInit == Init => Rest
BY WorldsAssumption DEF Init, Rest, WorldType, Resting, CleanerType, Statuses

LEMMA FaultsStay == ASSUME Rest, Fault \/ UNCHANGED faults PROVE faults' \in Nat
BY DEF Rest, Fault

LEMMA RestJob == ASSUME Rest, NEW c \in Clips, JobNext(c) PROVE Rest'
<1>1. UNCHANGED <<db, aged, cl>> /\ (Fault \/ UNCHANGED faults)
  BY DEF JobNext, JobStep, FFmpegStarts, Retries, FFmpegEnds, Completes, Leaves, Persist
<1>2. video' \in {video, video \cup {c}} /\ input' \in {input, input \ {c}}
  BY DEF JobNext, disk, FFmpegStarts, Retries, FFmpegEnds, Completes, Leaves
<1> QED
  BY <1>1, <1>2, FaultsStay DEF Rest, db

LEMMA RestThread == ASSUME IInv, Rest, NEW t \in Threads, ThreadNext(t) PROVE Rest'
<1>1. UNCHANGED <<listed, aged, cl>> /\ (Fault \/ UNCHANGED faults)
  BY DEF ThreadNext, db, Find, GivesUp, Start, Launch, Persist, Started, Abandons, Upsert, GetClip,
    Unlink, Stopped, RemoveVideo, RemoveMeta
<1>2. video' \subseteq Clips
  BY DEF Rest, disk, ThreadNext, Find, GivesUp, Start, Launch, Started, Abandons, Upsert, GetClip,
    Unlink, Stopped, RemoveVideo, RemoveMeta
<1>3. input' \subseteq Clips
  <2>1. CASE Start(t)
    <3>1. \E c \in Clips : input' \in {input, input \cup {c}}
      BY <2>1 DEF Start, Next1
    <3> QED
      BY <3>1 DEF Rest
  <2>2. CASE ~Start(t)
    BY <2>2 DEF Rest, disk, ThreadNext, Find, GivesUp, Launch, Started, Abandons, Upsert, GetClip,
      Unlink, Stopped, RemoveVideo, RemoveMeta
  <2> QED
    BY <2>1, <2>2
<1>4. rows' \subseteq Clips /\ owned' \in [Clips -> {"no", "owned", "queued"}]
      /\ mark' \in [Events -> {"none"} \cup Statuses]
  <2>1. CASE Upsert(t)
    <3>1. th[t] \in ThreadType /\ th[t].c \in Clips
      BY <2>1 DEF Upsert, IInv, Typed, Attending
    <3>2. th[t].seen \in Statuses
      BY <3>1 DEF ThreadType
    <3> QED
      BY <2>1, <3>1, <3>2 DEF Upsert, Rest
  <2>2. CASE Unlink(t)
    BY <2>2 DEF Unlink, Rest
  <2>3. CASE ~Upsert(t) /\ ~Unlink(t)
    BY <2>3 DEF Rest, db, ThreadNext, Find, GivesUp, Start, Launch, Started, Abandons, GetClip,
      Stopped, RemoveVideo, RemoveMeta
  <2> QED
    BY <2>1, <2>2, <2>3
<1> QED
  BY <1>1, <1>2, <1>3, <1>4, FaultsStay DEF Rest

LEMMA RestCleaner == ASSUME Rest, CleanerNext PROVE Rest'
<1>1. CASE Prune
  <2>1. PICK unseen : mark' = [e \in Events |-> IF e \in unseen THEN "none" ELSE mark[e]]
    BY <1>1 DEF Prune
  <2>2. listed' \subseteq listed
    BY <1>1 DEF Prune
  <2>3. cl' \in CleanerType
    BY <1>1 DEF Prune, CleanerType
  <2>4. owned' \in [Clips -> {"no", "owned", "queued"}]
    BY <1>1 DEF Prune, Rest
  <2> QED
    BY <1>1, <2>1, <2>2, <2>3, <2>4 DEF Prune, CleanerOnly, Rest
<1>2. ASSUME NEW c \in Clips, Check(c) PROVE Rest'
  <2>1. cl' \in CleanerType
    BY <1>2 DEF Check, Skips, Moves, CleanerType, Rest
  <2> QED
    BY <1>2, <2>1 DEF Check, CleanerOnly, db, Rest
<1>3. CASE Rests \/ CleanVideo \/ CleanMeta \/ Finish
  <2>1. cl' \in CleanerType
    BY <1>3 DEF Rests, CleanVideo, CleanMeta, Finish, Skips, Moves, Resting, CleanerType, Rest
  <2>2. Fault \/ UNCHANGED faults
    BY <1>3 DEF Rests, CleanVideo, CleanMeta, Finish
  <2>3. rows' \subseteq rows /\ owned' \in [Clips -> {"no", "owned", "queued"}] /\ video' \subseteq video
    BY <1>3 DEF Rests, CleanVideo, CleanMeta, Finish, db, Rest
  <2>4. UNCHANGED <<listed, mark, input, aged>>
    BY <1>3 DEF Rests, CleanVideo, CleanMeta, Finish, CleanerOnly, db
  <2> QED
    BY <2>1, <2>2, <2>3, <2>4, FaultsStay DEF Rest
<1> QED
  BY <1>1, <1>2, <1>3 DEF CleanerNext

LEMMA RestNext == ASSUME IInv, Rest, [Next]_vars PROVE Rest'
<1>1. ASSUME NEW t \in Threads,
             \/ ContextEnds(t)
             \/ \E i \in Items : Export(t, i)
             \/ \E e \in Events : Search(t, e)
             \/ \E c \in Clips : Stop(t, c) \/ DeleteClip(t, c)
      PROVE  Rest'
  BY <1>1 DEF ContextEnds, Export, Search, Stop, DeleteClip, disk, db, Rest
<1>2. ASSUME NEW e \in Events, Reconcile(e) PROVE Rest'
  BY <1>2 DEF Reconcile, disk, db, Rest
<1>3. ASSUME NEW i \in Items, Ages(i) PROVE Rest'
  BY <1>3 DEF Ages, disk, db, Rest
<1>4. CASE Crash
  <2>1. cl' \in CleanerType
    BY <1>4 DEF Crash, Resting, CleanerType
  <2> QED
    BY <1>4, <2>1, FaultsStay DEF Crash, disk, db, Rest
<1>5. CASE UNCHANGED vars
  BY <1>5 DEF vars, Rest
<1> QED
  BY <1>1, <1>2, <1>3, <1>4, <1>5, RestJob, RestThread, RestCleaner DEF Next

\* The files, the jobs and the tables hold what capture.go and the archive store keep in them:
\* no clip is named that was not issued an ID from Clips, and a job's attempts never run below 0.
THEOREM TypeCorrect == Spec => []TypeOK
<1>1. Init => Rest
  BY RestInit
<1>2. IInv /\ Rest => TypeOK
  BY DEF IInv, Typed, StoreTyped, Rest, TypeOK
<1> QED
  BY <1>1, <1>2, IInvInit, IInvNext, RestNext, PTL DEF Spec
-----------------------------------------------------------------------------
(* Retention: what is true of the clips that are named, kept and cleaned up. *)

Named(t) ==
    th[t].pc \in {"launching", "waiting", "tracking", "reusing", "upserting", "reading"}

\* A clip that a request works for, or an event refers to, has been made.
Known ==
    /\ \A t \in Threads : Named(t) => Issued(th[t].c)
    /\ \A e \in Events : link[e] # None => Issued(link[e])

\* A clip that has its row of retention has its asset.
Shelved == \A c \in Clips : owned[c] # "no" => c \in rows /\ Issued(c)

\* Nothing refers to a clip whose deletion is queued.
Unreferred(c) == \A e \in Events : link[e] # c
Unlinked == \A c \in Clips : owned[c] = "queued" => Unreferred(c)

\* The cleaner works on a clip that nobody records any more, and has removed what it passed.
Quiet(c) == job[c].pc = "none"
Cleaning ==
    /\ cl.pc \in {"video", "meta", "finish"} => cl.c \in Clips
    /\ cl.pc \in {"video", "meta"} => owned[cl.c] = "queued"
    /\ cl.pc \in {"video", "meta", "finish"} /\ owned[cl.c] = "queued" =>
         /\ Quiet(cl.c)
         /\ cl.pc # "video" => cl.c \notin video
         /\ cl.pc = "finish" => meta[cl.c] = "none"

RInv == Known /\ Shelved /\ Unlinked /\ Cleaning

LEMMA StartIssues ==
  ASSUME IInv, NEW t \in Threads, Start(t)
  PROVE  \/ Goes(t, "again") /\ UNCHANGED <<input, job, item>>
         \/ \E c \in Clips :
              /\ item[c] = None /\ th[t].e \in Items /\ th[t].e # None
              /\ th' = [th EXCEPT ![t].pc = "launching", ![t].c = c]
              /\ item' = [item EXCEPT ![c] = th[t].e]
              /\ job' = [job EXCEPT ![c] = [NoJob EXCEPT !.pc = "listed", !.left = world.retries]]
<1>1. th[t].e \in Items /\ th[t].e # None
  BY NamesAssumption DEF Start, IInv, Typed, Starting
<1> QED
  BY <1>1 DEF Start, Next1, Issued

\* Who writes the tables and the links, and who issues a clip ID.
LEMMA Writers ==
  ASSUME [Next]_vars
  PROVE  \/ UNCHANGED <<link, owned, rows, item>>
         \/ Prune \/ Finish
         \/ \E t \in Threads : Start(t) \/ Upsert(t) \/ Unlink(t)
<1>1. ASSUME NEW c \in Clips, JobNext(c) PROVE UNCHANGED <<link, owned, rows, item>>
  BY <1>1 DEF JobNext, FFmpegStarts, Retries, FFmpegEnds, Completes, Leaves, JobStep, db
<1>2. ASSUME NEW t \in Threads, ThreadNext(t), ~Start(t), ~Upsert(t), ~Unlink(t)
      PROVE  UNCHANGED <<link, owned, rows, item>>
  BY <1>2 DEF ThreadNext, Find, GivesUp, Launch, Started, Abandons, GetClip, Stopped, RemoveVideo,
    RemoveMeta, db
<1>3. ASSUME NEW t \in Threads,
             \/ ContextEnds(t)
             \/ \E i \in Items : Export(t, i)
             \/ \E e \in Events : Search(t, e)
             \/ \E c \in Clips : Stop(t, c) \/ DeleteClip(t, c)
      PROVE  UNCHANGED <<link, owned, rows, item>>
  BY <1>3 DEF ContextEnds, Export, Search, Stop, DeleteClip, db
<1>4. ASSUME CleanerNext, ~Prune, ~Finish PROVE UNCHANGED <<link, owned, rows, item>>
  BY <1>4 DEF CleanerNext, Check, Rests, CleanVideo, CleanMeta, CleanerOnly, db
<1>5. ASSUME NEW e \in Events, Reconcile(e) PROVE UNCHANGED <<link, owned, rows, item>>
  BY <1>5 DEF Reconcile, db
<1>6. ASSUME NEW i \in Items, Ages(i) PROVE UNCHANGED <<link, owned, rows, item>>
  BY <1>6 DEF Ages, db
<1>7. CASE Crash
  BY <1>7 DEF Crash, db
<1>8. CASE UNCHANGED vars
  BY <1>8 DEF vars
<1> QED
  BY <1>1, <1>2, <1>3, <1>4, <1>5, <1>6, <1>7, <1>8 DEF Next

LEMMA IssuedStays ==
  ASSUME IInv, [Next]_vars, NEW c \in Clips, Issued(c) PROVE item'[c] # None
<1>1. CASE UNCHANGED item
  BY <1>1 DEF Issued
<1>2. ASSUME NEW t \in Threads, Start(t) PROVE item'[c] # None
  BY <1>2, StartIssues DEF IInv, Typed, Issued
<1>3. CASE Prune \/ Finish
  BY <1>3, <1>1 DEF Prune, Finish, CleanerOnly
<1>4. ASSUME NEW t \in Threads, Upsert(t) \/ Unlink(t) PROVE item'[c] # None
  BY <1>4, <1>1 DEF Upsert, Unlink
<1> QED
  BY <1>1, <1>2, <1>3, <1>4, Writers

-----------------------------------------------------------------------------
(* What has ended stays ended. *)

Ended(c) == job[c].pc = "none" /\ Issued(c)
Stays(c) ==
    /\ job'[c].pc = "none"
    /\ c \in video' => c \in video
    /\ meta[c] = "none" => meta'[c] = "none"

LEMMA EndedThread ==
  ASSUME IInv, NEW t \in Threads, ThreadNext(t) \/ ContextEnds(t), NEW c \in Clips, Ended(c)
  PROVE  Stays(c)
<1>1. job \in [Clips -> JobType] /\ meta \in [Clips -> {"none", "torn"} \cup Statuses]
  BY DEF IInv, Typed, StoreTyped
<1>2. CASE Start(t)
  <2>1. UNCHANGED <<video, meta>>
    BY <1>2 DEF Start
  <2> QED
    BY <1>1, <1>2, <2>1, StartIssues DEF Ended, Stays, Issued
<1>3. CASE Launch(t)
  <2>1. job[th[t].c].pc = "listed"
    BY <1>3 DEF Launch, IInv, Launching
  <2>2. th[t].c # c
    BY <2>1 DEF Ended
  <2>3. th[t].c \in Clips /\ "recording" \in Statuses /\ StoreTyped
    BY <1>3 DEF Launch, IInv, Typed, Attending, Statuses
  <2>4. meta'[c] = meta[c]
    BY <1>3, <2>2, <2>3, PersistType DEF Launch
  <2> QED
    BY <1>1, <1>3, <2>2, <2>4 DEF Launch, Ended, Stays
<1>4. CASE Started(t) \/ Abandons(t)
  <2>1. th[t].c \in Clips /\ job' = Dismissed(th[t].c) /\ UNCHANGED <<video, meta>>
    BY <1>4 DEF Started, Abandons, IInv, Typed, Attending
  <2>2. PICK j \in JobType : job' = [job EXCEPT ![th[t].c] = j] /\ j.pc = job[th[t].c].pc
    BY <2>1, DismissedType
  <2> QED
    BY <1>1, <2>1, <2>2 DEF Ended, Stays
<1>5. CASE ContextEnds(t)
  BY <1>1, <1>5 DEF ContextEnds, disk, Ended, Stays
<1>6. CASE RemoveVideo(t) \/ RemoveMeta(t)
  BY <1>1, <1>6 DEF RemoveVideo, RemoveMeta, Ended, Stays
<1>7. CASE Find(t) \/ GivesUp(t) \/ Upsert(t) \/ GetClip(t) \/ Unlink(t) \/ Stopped(t)
  BY <1>7 DEF Find, GivesUp, Upsert, GetClip, Unlink, Stopped, disk, Ended, Stays
<1> QED
  BY <1>2, <1>3, <1>4, <1>5, <1>6, <1>7 DEF ThreadNext

LEMMA EndedJob ==
  ASSUME IInv, NEW x \in Clips, JobNext(x), NEW c \in Clips, Ended(c) PROVE Stays(c)
<1>1. job \in [Clips -> JobType] /\ meta \in [Clips -> {"none", "torn"} \cup Statuses]
  BY DEF IInv, Typed, StoreTyped
<1>2. job[x].pc # "none"
  BY DEF JobNext, FFmpegStarts, Retries, FFmpegEnds, Completes, Leaves
<1>3. x # c
  BY <1>2 DEF Ended
<1>4. CASE FFmpegStarts(x)
  BY <1>1, <1>3, <1>4 DEF FFmpegStarts, Ended, Stays
<1>5. CASE Retries(x) \/ FFmpegEnds(x) \/ Leaves(x)
  BY <1>1, <1>3, <1>5 DEF Retries, FFmpegEnds, Leaves, disk, Ended, Stays
<1>6. CASE Completes(x)
  <2>1. Outcome(x) \in Statuses /\ StoreTyped
    BY DEF Outcome, Statuses, IInv, Typed
  <2>2. meta'[c] = meta[c]
    BY <1>3, <1>6, <2>1, PersistType DEF Completes
  <2> QED
    BY <1>1, <1>3, <1>6, <2>2 DEF Completes, Ended, Stays
<1> QED
  BY <1>4, <1>5, <1>6 DEF JobNext

\* No job begins again, and nothing writes a file of a clip without one: a clip ID is issued once.
LEMMA EndedStays ==
  ASSUME IInv, [Next]_vars, NEW c \in Clips, Ended(c) PROVE Stays(c)
<1>0. job \in [Clips -> JobType] /\ meta \in [Clips -> {"none", "torn"} \cup Statuses]
  BY DEF IInv, Typed, StoreTyped
<1>1. ASSUME NEW t \in Threads, NEW i \in Items, Export(t, i) PROVE Stays(c)
  BY <1>1 DEF Export, disk, Ended, Stays
<1>2. ASSUME NEW t \in Threads, NEW e \in Events, Search(t, e) PROVE Stays(c)
  BY <1>2 DEF Search, disk, Ended, Stays
<1>3. ASSUME NEW t \in Threads, NEW x \in Clips, Stop(t, x) \/ DeleteClip(t, x) PROVE Stays(c)
  <2>1. CASE DeleteClip(t, x)
    BY <2>1 DEF DeleteClip, disk, Ended, Stays
  <2>2. CASE Stop(t, x)
    <3>1. job' = [job EXCEPT ![x].stopping = TRUE, ![x].cancelled = TRUE] /\ UNCHANGED disk
      BY <2>2 DEF Stop
    <3>2. job'[c].pc = job[c].pc
      BY <1>0, <3>1 DEF JobType
    <3> QED
      BY <3>1, <3>2 DEF disk, Ended, Stays
  <2> QED
    BY <1>3, <2>1, <2>2
<1>4. CASE CleanerNext
  <2>1. job' = job /\ (c \in video' => c \in video)
    BY <1>4 DEF CleanerNext, CleanerOnly, Prune, Check, Rests, CleanVideo, CleanMeta, Finish
  <2>2. meta[c] = "none" => meta'[c] = "none"
    BY <1>0, <1>4 DEF CleanerNext, Prune, Check, Rests, CleanVideo, CleanMeta, Finish
  <2> QED
    BY <2>1, <2>2 DEF Ended, Stays
<1>5. ASSUME NEW e \in Events, Reconcile(e) PROVE Stays(c)
  BY <1>5 DEF Reconcile, disk, Ended, Stays
<1>6. ASSUME NEW i \in Items, Ages(i) PROVE Stays(c)
  BY <1>6 DEF Ages, disk, Ended, Stays
<1>7. CASE Crash
  <2>1. job[c].pc = "none" => meta'[c] = meta[c]
    BY <1>7 DEF Crash
  <2> QED
    BY <1>7, <2>1 DEF Crash, NoJob, Ended, Stays
<1>8. CASE UNCHANGED vars
  BY <1>8 DEF vars, Ended, Stays
<1> QED
  BY <1>1, <1>2, <1>3, <1>4, <1>5, <1>6, <1>7, <1>8, EndedThread, EndedJob DEF Next

-----------------------------------------------------------------------------
(* The invariant of retention. *)

\* One thread has moved, to a clip that has been made or to none.
LEMMA NamedStep ==
  ASSUME IInv, Known, [Next]_vars, NEW t \in Threads,
         \A u \in Threads \ {t} : th'[u] = th[u],
         Named(t)' => (Named(t) /\ th'[t].c = th[t].c) \/ item'[th'[t].c] # None
  PROVE  \A u \in Threads : Named(u)' => Issued(th[u].c)'
<1>1. \A u \in Threads : Named(u) => th[u].c \in Clips
  BY DEF Named, IInv, Typed, Attending
<1>2. \A u \in Threads : Named(u) => item'[th[u].c] # None
  BY <1>1, IssuedStays DEF Known
<1> QED
  BY <1>2 DEF Named, Issued

\* No clip is named by a thread that has gone elsewhere.
LEMMA NamedGoes ==
  ASSUME IInv, Known, [Next]_vars, NEW t \in Threads, NEW pc, Goes(t, pc),
         pc \in {"launching", "waiting", "tracking", "reusing", "upserting", "reading"} => Named(t)
  PROVE  \A u \in Threads : Named(u)' => Issued(th[u].c)'
<1>1. th \in [Threads -> ThreadType] /\ th[t] \in ThreadType
  BY DEF IInv, Typed
<1>2. \A u \in Threads \ {t} : th'[u] = th[u]
  BY <1>1 DEF Goes
<1>3. th'[t].pc = pc /\ th'[t].c = th[t].c
  BY <1>1 DEF Goes, ThreadType
<1> QED
  BY <1>2, <1>3, NamedStep DEF Named

LEMMA NamedReturns ==
  ASSUME IInv, Known, [Next]_vars, NEW t \in Threads, Returns(t)
  PROVE  \A u \in Threads : Named(u)' => Issued(th[u].c)'
<1>1. \A u \in Threads \ {t} : th'[u] = th[u]
  BY DEF Returns, IInv, Typed
<1>2. ~Named(t)'
  BY DEF Returns, IInv, Typed, Named, Idle
<1> QED
  BY <1>1, <1>2, NamedStep

LEMMA NamedThread ==
  ASSUME IInv, Known, [Next]_vars, NEW t \in Threads, ThreadNext(t) \/ ContextEnds(t)
  PROVE  \A u \in Threads : Named(u)' => Issued(th[u].c)'
<1>1. th \in [Threads -> ThreadType] /\ th[t] \in ThreadType /\ item \in [Clips -> Items \cup {None}]
  BY DEF IInv, Typed
<1>2. CASE Start(t)
  <2>1. CASE Goes(t, "again")
    BY <2>1, NamedGoes
  <2>2. ASSUME NEW c \in Clips,
               th[t].e # None,
               th' = [th EXCEPT ![t].pc = "launching", ![t].c = c],
               item' = [item EXCEPT ![c] = th[t].e]
        PROVE  \A u \in Threads : Named(u)' => Issued(th[u].c)'
    <3>1. \A u \in Threads \ {t} : th'[u] = th[u]
      BY <1>1, <2>2
    <3>2. th'[t].c = c
      BY <1>1, <2>2 DEF ThreadType
    <3> QED
      BY <1>1, <2>2, <3>1, <3>2, NamedStep
  <2> QED
    BY <1>2, <2>1, <2>2, StartIssues
<1>3. CASE Find(t)
  <2>1. CASE Goes(t, "starting") \/ Returns(t)
    BY <2>1, NamedGoes, NamedReturns
  <2>2. ASSUME NEW c \in Clips, Reusable(c), UNCHANGED item,
               th' = [th EXCEPT ![t].pc = "reusing", ![t].c = c, ![t].seen = Status(c)]
        PROVE  \A u \in Threads : Named(u)' => Issued(th[u].c)'
    <3>1. \A u \in Threads \ {t} : th'[u] = th[u]
      BY <1>1, <2>2
    <3>2. th'[t].c = c
      BY <1>1, <2>2 DEF ThreadType
    <3> QED
      BY <2>2, <3>1, <3>2, NamedStep DEF Reusable, Issued
  <2> QED
    BY <1>3, <2>1, <2>2 DEF Find, Newest
<1>4. CASE Launch(t)
  BY <1>4, NamedGoes DEF Launch, Named
<1>5. CASE Started(t)
  <2>1. CASE Returns(t)
    BY <2>1, NamedReturns
  <2>2. CASE th' = [th EXCEPT ![t].pc = "tracking",
                              ![t].seen = IF Active(th[t].c) THEN "recording" ELSE Outcome(th[t].c)]
    <3>1. \A u \in Threads \ {t} : th'[u] = th[u]
      BY <1>1, <2>2
    <3>2. th'[t].c = th[t].c
      BY <1>1, <2>2 DEF ThreadType
    <3> QED
      BY <1>5, <3>1, <3>2, NamedStep DEF Started, Named
  <2> QED
    BY <1>5, <2>1, <2>2 DEF Started
<1>6. CASE Upsert(t)
  BY <1>6, NamedGoes, NamedReturns DEF Upsert, AfterUpsert, Named
<1>7. CASE GetClip(t)
  <2>1. CASE Goes(t, "unlinking")
    BY <2>1, NamedGoes
  <2>2. CASE th' = [th EXCEPT ![t].pc = "upserting", ![t].seen = Status(th[t].c)]
    <3>1. \A u \in Threads \ {t} : th'[u] = th[u]
      BY <1>1, <2>2
    <3>2. th'[t].c = th[t].c
      BY <1>1, <2>2 DEF ThreadType
    <3> QED
      BY <1>7, <3>1, <3>2, NamedStep DEF GetClip, Named
  <2> QED
    BY <1>7, <2>1, <2>2 DEF GetClip
<1>8. CASE GivesUp(t) \/ Abandons(t) \/ ContextEnds(t) \/ Unlink(t) \/ Stopped(t) \/ RemoveVideo(t)
           \/ RemoveMeta(t)
  BY <1>8, NamedGoes, NamedReturns
  DEF GivesUp, Abandons, ContextEnds, Unlink, Stopped, RemoveVideo, RemoveMeta
<1> QED
  BY <1>2, <1>3, <1>4, <1>5, <1>6, <1>7, <1>8 DEF ThreadNext

\* A thread sets out with a record of its own.
LEMMA NamedNew ==
  ASSUME IInv, Known, [Next]_vars, NEW t \in Threads, NEW y, th' = [th EXCEPT ![t] = y],
         y.pc \in {"upserting", "reading"} => y.c \in Clips /\ Issued(y.c),
         y.pc \in {"idle", "finding", "stopping", "removing", "upserting", "reading"}
  PROVE  \A u \in Threads : Named(u)' => Issued(th[u].c)'
<1>1. \A u \in Threads : th'[u] = IF u = t THEN y ELSE th[u]
  BY DEF IInv, Typed
<1>2. Named(t)' => item'[th'[t].c] # None
  BY <1>1, IssuedStays DEF Named
<1> QED
  BY <1>1, <1>2, NamedStep

LEMMA ThreadsKnown ==
  ASSUME IInv, Known, [Next]_vars PROVE \A u \in Threads : Named(u)' => Issued(th[u].c)'
<1>1. ASSUME NEW t \in Threads, NEW i \in Items, Export(t, i)
      PROVE  \A u \in Threads : Named(u)' => Issued(th[u].c)'
  <2> DEFINE y == [Idle EXCEPT !.pc = "finding", !.e = i]
  <2>1. th' = [th EXCEPT ![t] = y] /\ y.pc = "finding"
    BY <1>1 DEF Export, Idle
  <2> HIDE DEF y
  <2> QED
    BY <2>1, NamedNew
<1>2. ASSUME NEW t \in Threads, NEW e \in Events, Search(t, e)
      PROVE  \A u \in Threads : Named(u)' => Issued(th[u].c)'
  <2>1. PICK c \in Clips :
          /\ \/ link[e] # None /\ c = link[e]
             \/ item[c] = e
          /\ th' = [th EXCEPT ![t] = [pc |-> "upserting", e |-> e, c |-> c, seen |-> Status(c)]]
    BY <1>2 DEF Search, Matching
  <2>2. Issued(c)
    BY <2>1, NamesAssumption DEF Known, Issued, Items
  <2> QED
    BY <2>1, <2>2, NamedNew
<1>3. ASSUME NEW t \in Threads, NEW c \in Clips, Stop(t, c)
      PROVE  \A u \in Threads : Named(u)' => Issued(th[u].c)'
  <2>1. PICK deletes \in BOOLEAN :
          th' = [th EXCEPT ![t] = [Idle EXCEPT !.pc = IF deletes THEN "stopping" ELSE "idle",
                                               !.c = IF deletes THEN c ELSE None]]
    BY <1>3 DEF Stop
  <2> DEFINE y == [Idle EXCEPT !.pc = IF deletes THEN "stopping" ELSE "idle",
                               !.c = IF deletes THEN c ELSE None]
  <2>2. y.pc \in {"stopping", "idle"}
    BY DEF Idle
  <2>3. th' = [th EXCEPT ![t] = y]
    BY <2>1
  <2> HIDE DEF y
  <2> QED
    BY <2>2, <2>3, NamedNew
<1>4. ASSUME NEW t \in Threads, NEW c \in Clips, DeleteClip(t, c)
      PROVE  \A u \in Threads : Named(u)' => Issued(th[u].c)'
  <2> DEFINE y == [Idle EXCEPT !.pc = "removing", !.c = c]
  <2>1. th' = [th EXCEPT ![t] = y] /\ y.pc = "removing"
    BY <1>4 DEF DeleteClip, Idle
  <2> HIDE DEF y
  <2> QED
    BY <2>1, NamedNew
<1>5. ASSUME NEW e \in Events, Reconcile(e)
      PROVE  \A u \in Threads : Named(u)' => Issued(th[u].c)'
  <2> DEFINE y == [Idle EXCEPT !.pc = "reading", !.e = e, !.c = link[e]]
  <2>1. th' = [th EXCEPT ![Sync] = y] /\ y.pc = "reading" /\ y.c = link[e] /\ Sync \in Threads
    BY <1>5 DEF Reconcile, Idle, Threads
  <2>2. link[e] \in Clips /\ Issued(link[e])
    BY <1>5 DEF Reconcile, Known, IInv, Typed, StoreTyped
  <2> HIDE DEF y
  <2> QED
    BY <2>1, <2>2, NamedNew
<1>6. CASE Crash
  BY <1>6 DEF Crash, Named, Idle
<1>7. CASE UNCHANGED th
  <2>1. \A u \in Threads : Named(u) => th[u].c \in Clips
    BY DEF Named, IInv, Typed, Attending
  <2> QED
    BY <1>7, <2>1, IssuedStays DEF Known, Named, Issued
<1>8. (CleanerNext \/ UNCHANGED vars \/ (\E c \in Clips : JobNext(c)) \/ \E i \in Items : Ages(i))
        => UNCHANGED th
  BY DEF CleanerNext, CleanerOnly, Prune, Check, Rests, CleanVideo, CleanMeta, Finish, vars, JobNext,
    JobStep, FFmpegStarts, Retries, FFmpegEnds, Completes, Leaves, Ages
<1> QED
  BY <1>1, <1>2, <1>3, <1>4, <1>5, <1>6, <1>7, <1>8, NamedThread DEF Next

\* What the tables and the links say of the clips.
LEMMA KnownNext == ASSUME IInv, Rest, Known, [Next]_vars PROVE Known'
<1>1. \A c \in Clips : Issued(c) => item'[c] # None
  BY IssuedStays
<1>2. \A e \in Events : link[e] # None => link[e] \in Clips /\ Issued(link[e])
  BY DEF Known, IInv, Typed, StoreTyped
<1>3. \A e \in Events : link'[e] # None => item'[link'[e]] # None
  <2>1. CASE UNCHANGED link
    BY <1>1, <1>2, <2>1
  <2>2. ASSUME NEW t \in Threads, Start(t) PROVE UNCHANGED link
    BY <2>2 DEF Start, db
  <2>3. ASSUME NEW t \in Threads, Upsert(t)
        PROVE  \A e \in Events : link'[e] # None => item'[link'[e]] # None
    <3>1. th[t].c \in Clips /\ Issued(th[t].c)
      BY <2>3 DEF Upsert, IInv, Typed, Attending, Known, Named
    <3>2. link' = link \/ link' = [link EXCEPT ![th[t].e] = th[t].c]
      BY <2>3 DEF Upsert
    <3> QED
      BY <1>1, <1>2, <3>1, <3>2 DEF IInv, Typed, StoreTyped
  <2>4. ASSUME NEW t \in Threads, Unlink(t)
        PROVE  \A e \in Events : link'[e] # None => item'[link'[e]] # None
    <3>1. link' = link \/ link' = [link EXCEPT ![th[t].e] = None]
      BY <2>4 DEF Unlink
    <3> QED
      BY <1>1, <1>2, <3>1 DEF IInv, Typed, StoreTyped
  <2>5. ASSUME Prune PROVE \A e \in Events : link'[e] # None => item'[link'[e]] # None
    <3>1. PICK unseen : link' = [e \in Events |-> IF e \in unseen THEN None ELSE link[e]]
      BY <2>5 DEF Prune
    <3> QED
      BY <1>1, <1>2, <3>1
  <2>6. Finish => UNCHANGED link
    BY DEF Finish
  <2> QED
    BY <2>1, <2>2, <2>3, <2>4, <2>5, <2>6, Writers
<1> QED
  BY <1>3, ThreadsKnown DEF Known, Issued

\* A clip in the retention's table has its asset, and one on its way out has no event.
LEMMA ShelvedNext ==
  ASSUME IInv, Rest, Known, Shelved, Unlinked, [Next]_vars PROVE Shelved' /\ Unlinked'
<1>1. \A c \in Clips : Issued(c) => item'[c] # None
  BY IssuedStays
<1>2. CASE UNCHANGED <<owned, rows, link>>
  BY <1>1, <1>2 DEF Shelved, Unlinked, Unreferred, Issued
<1>3. ASSUME NEW t \in Threads, Start(t) PROVE UNCHANGED <<owned, rows, link>>
  BY <1>3 DEF Start, db
<1>4. ASSUME NEW t \in Threads, Upsert(t) PROVE Shelved' /\ Unlinked'
  <2> DEFINE c == th[t].c
             e == th[t].e
  <2>1. c \in Clips /\ Issued(c)
    BY <1>4 DEF Upsert, IInv, Typed, Attending, Known, Named
  <2>2. CASE /\ owned[c] # "queued"
             /\ rows' = rows \cup {c}
             /\ owned' = [owned EXCEPT ![c] = "owned"]
             /\ link' = IF e \in listed THEN [link EXCEPT ![e] = c] ELSE link
    <3> HIDE DEF c, e
    <3>1. \A x \in Clips : owned'[x] = IF x = c THEN "owned" ELSE owned[x]
      BY <2>2 DEF Rest
    <3>2. \A x \in Events : link'[x] = link[x] \/ link'[x] = c
      BY <2>2 DEF IInv, Typed, StoreTyped
    <3>3. Shelved'
      BY <1>1, <2>1, <2>2, <3>1 DEF Shelved, Issued
    <3>4. Unlinked'
      BY <2>2, <3>1, <3>2 DEF Unlinked, Unreferred
    <3> QED
      BY <3>3, <3>4
  <2> QED
    BY <1>2, <1>4, <2>2 DEF Upsert
<1>5. ASSUME NEW t \in Threads, Unlink(t) PROVE Shelved' /\ Unlinked'
  <2>1. UNCHANGED <<owned, rows>> /\ (link' = link \/ link' = [link EXCEPT ![th[t].e] = None])
    BY <1>5 DEF Unlink
  <2>2. \A e \in Events : link'[e] = link[e] \/ link'[e] = None
    BY <2>1 DEF IInv, Typed, StoreTyped
  <2>3. \A c \in Clips : c # None
    BY NamesAssumption
  <2> QED
    BY <1>1, <2>1, <2>2, <2>3 DEF Shelved, Unlinked, Unreferred, Issued
<1>6. ASSUME Prune PROVE Shelved' /\ Unlinked'
  <2>1. PICK unseen : link' = [e \in Events |-> IF e \in unseen THEN None ELSE link[e]]
    BY <1>6 DEF Prune
  <2>2. \A c \in Clips : c # None
    BY NamesAssumption
  <2>3. UNCHANGED rows
        /\ owned' = [c \in Clips |->
                       IF owned[c] = "owned" /\ item[c] \in aged /\ \A e \in Events : link'[e] # c
                       THEN "queued" ELSE owned[c]]
    BY <1>6 DEF Prune
  <2>4. Shelved'
    BY <1>1, <2>3 DEF Shelved, Issued
  <2>5. Unlinked'
    BY <2>1, <2>2, <2>3 DEF Unlinked, Unreferred
  <2> QED
    BY <2>4, <2>5
<1>7. ASSUME Finish PROVE Shelved' /\ Unlinked'
  <2>1. /\ UNCHANGED link
        /\ \/ UNCHANGED <<rows, owned>>
           \/ /\ rows' = rows \/ (rows' = rows \ {cl.c})
              /\ owned' = IF owned[cl.c] = "queued" /\ cl.c \notin rows'
                          THEN [owned EXCEPT ![cl.c] = "no"] ELSE owned
              /\ rows' # rows => owned[cl.c] = "queued"
    BY <1>7 DEF Finish
  <2>2. CASE UNCHANGED <<rows, owned>>
    BY <1>2, <2>1, <2>2
  <2>3. CASE rows' = rows \/ (rows' = rows \ {cl.c})
    BY <1>1, <2>1, <2>3 DEF Shelved, Unlinked, Unreferred, Issued, Rest
  <2> QED
    BY <2>1, <2>2, <2>3
<1> QED
  BY <1>2, <1>3, <1>4, <1>5, <1>6, <1>7, Writers

\* No clip leaves or joins the queue but by the cleaner's own hand.
LEMMA QueueStays ==
  ASSUME IInv, Rest, [Next]_vars, ~Finish, ~Prune, NEW c \in Clips
  PROVE  owned'[c] = "queued" <=> owned[c] = "queued"
<1>1. CASE UNCHANGED owned
  BY <1>1
<1>2. ASSUME NEW t \in Threads, Start(t) \/ Unlink(t) PROVE UNCHANGED owned
  BY <1>2 DEF Start, Unlink, db
<1>3. ASSUME NEW t \in Threads, Upsert(t) PROVE owned'[c] = "queued" <=> owned[c] = "queued"
  BY <1>3 DEF Upsert, Rest
<1> QED
  BY <1>1, <1>2, <1>3, Writers

LEMMA CleanerWrites == ASSUME [Next]_vars PROVE UNCHANGED cl \/ CleanerNext \/ Crash
<1>1. ASSUME NEW c \in Clips, JobNext(c) PROVE UNCHANGED cl
  BY <1>1 DEF JobNext, JobStep, FFmpegStarts, Retries, FFmpegEnds, Completes, Leaves
<1>2. ASSUME NEW t \in Threads, ThreadNext(t) PROVE UNCHANGED cl
  BY <1>2 DEF ThreadNext, Find, GivesUp, Start, Launch, Started, Abandons, Upsert, GetClip, Unlink,
    Stopped, RemoveVideo, RemoveMeta
<1>3. ASSUME NEW t \in Threads,
             \/ ContextEnds(t)
             \/ \E i \in Items : Export(t, i)
             \/ \E e \in Events : Search(t, e)
             \/ \E c \in Clips : Stop(t, c) \/ DeleteClip(t, c)
      PROVE  UNCHANGED cl
  BY <1>3 DEF ContextEnds, Export, Search, Stop, DeleteClip
<1>4. (\E e \in Events : Reconcile(e)) \/ (\E i \in Items : Ages(i)) \/ UNCHANGED vars => UNCHANGED cl
  BY DEF Reconcile, Ages, vars
<1> QED
  BY <1>1, <1>2, <1>3, <1>4 DEF Next

LEMMA CleaningNext ==
  ASSUME IInv, Rest, Shelved, Cleaning, [Next]_vars PROVE Cleaning'
<1>1. CASE UNCHANGED cl /\ ~Finish /\ ~Prune
  <2>1. SUFFICES ASSUME cl.pc \in {"video", "meta", "finish"} PROVE Cleaning'
    BY <1>1 DEF Cleaning
  <2>2. cl.c \in Clips
    BY <2>1 DEF Cleaning
  <2>3. owned'[cl.c] = "queued" <=> owned[cl.c] = "queued"
    BY <1>1, <2>2, QueueStays
  <2>4. owned[cl.c] = "queued" => Stays(cl.c)
    BY <2>1, <2>2, EndedStays DEF Cleaning, Shelved, Ended, Quiet
  <2> QED
    BY <1>1, <2>1, <2>2, <2>3, <2>4 DEF Cleaning, Stays, Quiet
<1>2. CASE Prune \/ Rests \/ Finish \/ Crash
  BY <1>2 DEF Prune, Rests, Finish, Crash, Resting, Skips, Cleaning
<1>3. ASSUME NEW c \in Clips, Check(c) PROVE Cleaning'
  <2>1. UNCHANGED <<job, owned>> /\ cl.pc = "next"
    BY <1>3 DEF Check, CleanerOnly, db
  <2>2. \/ cl'.pc = "next"
        \/ cl'.pc = "video" /\ cl'.c = c /\ job[c].pc = "none" /\ owned[c] = "queued"
        \/ cl'.pc = "finish" /\ cl'.c = c /\ owned[c] # "queued"
    BY <1>3 DEF Check, Skips, Moves, Shelved
  <2> QED
    BY <2>1, <2>2 DEF Cleaning, Quiet
<1>4. CASE CleanVideo
  BY <1>4 DEF CleanVideo, Skips, Moves, CleanerOnly, db, Cleaning, Quiet
<1>5. CASE CleanMeta
  BY <1>5 DEF CleanMeta, Skips, Moves, CleanerOnly, db, Cleaning, Quiet, IInv, Typed, StoreTyped
<1> QED
  BY <1>1, <1>2, <1>3, <1>4, <1>5, CleanerWrites DEF CleanerNext

LEMMA RInvInit == Init => RInv
BY DEF Init, RInv, Known, Named, Issued, Shelved, Unlinked, Cleaning, Idle, Resting

LEMMA RInvNext == ASSUME IInv, Rest, RInv, [Next]_vars PROVE RInv'
BY KnownNext, ShelvedNext, CleaningNext DEF RInv

-----------------------------------------------------------------------------
(* The refinement, step by step. *)

LEMMA LifeIs ==
  /\ \A c \in Clips :
       /\ Life[c] = "condemned" <=> owned[c] = "queued"
       /\ Life[c] = "new" <=> owned[c] # "queued" /\ ~Issued(c)
       /\ Life[c] = "present" <=>
            /\ owned[c] # "queued" /\ Issued(c)
            /\ job[c].pc # "none" \/ c \in video \/ meta[c] # "none"
       /\ Life[c] = "gone" <=>
            /\ owned[c] # "queued" /\ Issued(c)
            /\ job[c].pc = "none" /\ c \notin video /\ meta[c] = "none"
  /\ Life = [c \in Clips |-> Life[c]]
BY DEF Life

LEMMA LifeIsNext ==
  /\ \A c \in Clips :
       /\ Life'[c] = "condemned" <=> owned'[c] = "queued"
       /\ Life'[c] = "new" <=> owned'[c] # "queued" /\ item'[c] = None
       /\ Life'[c] = "present" <=>
            /\ owned'[c] # "queued" /\ item'[c] # None
            /\ job'[c].pc # "none" \/ c \in video' \/ meta'[c] # "none"
       /\ Life'[c] = "gone" <=>
            /\ owned'[c] # "queued" /\ item'[c] # None
            /\ job'[c].pc = "none" /\ c \notin video' /\ meta'[c] = "none"
  /\ Life' = [c \in Clips |-> Life'[c]]
BY DEF Life, Issued

LEMMA LifeValues ==
  /\ \A c \in Clips : Life[c] \in {"condemned", "new", "present", "gone"}
  /\ \A c \in Clips : Life'[c] \in {"condemned", "new", "present", "gone"}
BY DEF Life

\* A clip that is there stays or is gone, and one that is not stays as it is.
LEMMA LifeGoes ==
  ASSUME IInv, [Next]_vars, NEW c \in Clips, item'[c] = item[c],
         owned'[c] = "queued" <=> owned[c] = "queued"
  PROVE  Life'[c] = Life[c] \/ (Life[c] = "present" /\ Life'[c] = "gone")
<1>1. CASE Life[c] = "condemned"
  BY <1>1, LifeIs, LifeIsNext
<1>2. CASE Life[c] = "new"
  BY <1>2, LifeIs, LifeIsNext DEF Issued
<1>3. CASE Life[c] = "present"
  <2>1. Life'[c] # "condemned" /\ Life'[c] # "new"
    BY <1>3, LifeIs, LifeIsNext DEF Issued
  <2> QED
    BY <1>3, <2>1, LifeValues
<1>4. CASE Life[c] = "gone"
  <2>1. Stays(c)
    BY <1>4, LifeIs, EndedStays DEF Ended
  <2> QED
    BY <1>4, <2>1, LifeIs, LifeIsNext DEF Stays, Issued
<1> QED
  BY <1>1, <1>2, <1>3, <1>4, LifeValues

\* Jobs, files and requests come and go: some clips are lost, or nothing shows.
LEMMA OnlyErase ==
  ASSUME IInv, [Next]_vars, UNCHANGED <<link, item>>,
         \A c \in Clips : owned'[c] = "queued" <=> owned[c] = "queued"
  PROVE  R!Next
<1> DEFINE lost == {c \in Clips : Life[c] = "present" /\ Life'[c] = "gone"}
<1>1. \A c \in Clips : Life'[c] = IF c \in lost THEN "gone" ELSE Life[c]
  BY LifeGoes
<1>2. Life' = [c \in Clips |-> IF c \in lost THEN "gone" ELSE Life[c]]
  BY <1>1, LifeIsNext
<1>3. R!Erase(lost)
  BY <1>2 DEF R!Erase
<1>4. lost \in SUBSET Clips
  OBVIOUS
<1> HIDE DEF lost
<1> QED
  BY <1>3, <1>4 DEF R!Next

\* With the lives as they are, a link may change.
LEMMA SameLife ==
  ASSUME UNCHANGED <<job, video, meta, item>>,
         \A c \in Clips : owned'[c] = "queued" <=> owned[c] = "queued"
  PROVE  Life' = Life
<1>1. \A c \in Clips : Life'[c] = Life[c]
  BY LifeIs, LifeIsNext, LifeValues DEF Issued
<1> QED
  BY <1>1, LifeIs, LifeIsNext

\* startClipJob: a clip appears.
LEMMA StartAppears ==
  ASSUME IInv, RInv, [Next]_vars, NEW t \in Threads, Start(t) PROVE [R!Next]_(R!vars)
<1>1. UNCHANGED <<video, meta, link, owned, rows>>
  BY DEF Start, db
<1>2. CASE UNCHANGED item
  BY <1>1, <1>2, OnlyErase
<1>3. ASSUME NEW c \in Clips, item[c] = None, th[t].e # None,
             item' = [item EXCEPT ![c] = th[t].e],
             job' = [job EXCEPT ![c] = [NoJob EXCEPT !.pc = "listed", !.left = world.retries]]
      PROVE  R!Next
  <2>1. job \in [Clips -> JobType] /\ item \in [Clips -> Items \cup {None}]
    BY DEF IInv, Typed
  <2>2. Life[c] = "new"
    BY <1>3, LifeIs DEF RInv, Shelved, Issued
  <2>3. Life'[c] = "present"
    <3>1. item'[c] # None /\ job'[c].pc = "listed" /\ owned'[c] = owned[c]
      BY <1>1, <1>3, <2>1 DEF NoJob
    <3> QED
      BY <2>2, <3>1, LifeIs, LifeIsNext
  <2>4. \A x \in Clips \ {c} : Life'[x] = Life[x]
    <3>1. ASSUME NEW x \in Clips \ {c} PROVE item'[x] = item[x] /\ job'[x] = job[x]
      BY <1>3, <2>1
    <3> QED
      BY <1>1, <3>1, LifeIs, LifeIsNext, LifeValues DEF Issued
  <2>5. Life' = [Life EXCEPT ![c] = "present"]
    BY <2>3, <2>4, LifeIs, LifeIsNext
  <2>6. R!Appear(c)
    BY <1>1, <2>2, <2>5 DEF R!Appear
  <2> QED
    BY <2>6 DEF R!Next
<1> QED
  BY <1>2, <1>3, StartIssues

\* UpsertClipAsset: a record refers to a clip that nobody has condemned.
LEMMA UpsertRefers ==
  ASSUME IInv, Rest, RInv, [Next]_vars, NEW t \in Threads, Upsert(t) PROVE [R!Next]_(R!vars)
<1> DEFINE c == th[t].c
           e == th[t].e
<1>1. c \in Clips /\ Issued(c)
  BY DEF Upsert, IInv, Typed, Attending, RInv, Known, Named
<1>2. UNCHANGED <<job, video, meta, item>>
  BY DEF Upsert, disk
<1>3. \A x \in Clips : owned'[x] = "queued" <=> owned[x] = "queued"
  BY DEF Upsert, Rest
<1>4. Life' = Life
  BY <1>2, <1>3, SameLife
<1>5. CASE link' = link
  BY <1>4, <1>5 DEF R!vars
<1>6. CASE link' # link
  <2>1. e \in Events /\ link' = [link EXCEPT ![e] = c] /\ owned[c] # "queued"
    BY <1>6 DEF Upsert, Rest
  <2>2. Life[c] \in {"present", "gone"}
    BY <1>1, <2>1, LifeIs, LifeValues
  <2>3. R!Refer(e, c)
    BY <1>4, <2>1, <2>2 DEF R!Refer
  <2> HIDE DEF c, e
  <2> QED
    BY <1>1, <2>1, <2>3 DEF R!Next
<1> QED
  BY <1>5, <1>6

\* DeleteClipAsset: a record drops its link.
LEMMA UnlinkDrops ==
  ASSUME IInv, [Next]_vars, NEW t \in Threads, Unlink(t) PROVE [R!Next]_(R!vars)
<1> DEFINE e == th[t].e
<1>1. Life' = Life
  BY SameLife DEF Unlink, disk
<1>2. CASE link' = link
  BY <1>1, <1>2 DEF R!vars
<1>3. CASE link' # link
  <2>1. link' = [link EXCEPT ![e] = None] /\ e \in Events
    BY <1>3 DEF Unlink, IInv, Typed, StoreTyped
  <2>2. R!Drop(e)
    BY <1>1, <2>1 DEF R!Drop
  <2> QED
    BY <2>1, <2>2 DEF R!Next
<1> QED
  BY <1>2, <1>3

\* PruneOlderThan: records expire, and with them the clips that no record refers to.
LEMMA PruneCondemns == ASSUME IInv, Rest, RInv, [Next]_vars, Prune PROVE [R!Next]_(R!vars)
<1>1. PICK unseen \in SUBSET {e \in listed \cap aged : mark[e] # "recording"} :
        link' = [e \in Events |-> IF e \in unseen THEN None ELSE link[e]]
  BY DEF Prune
<1> DEFINE condemned == {c \in Clips : owned[c] = "owned" /\ owned'[c] = "queued"}
<1>2. /\ UNCHANGED <<job, video, meta, item>>
      /\ owned' = [c \in Clips |->
                     IF owned[c] = "owned" /\ item[c] \in aged /\ \A e \in Events : link'[e] # c
                     THEN "queued" ELSE owned[c]]
  BY <1>1 DEF Prune, CleanerOnly
<1>3. unseen \in SUBSET Events
  BY DEF Rest
<1>4. \A c \in condemned : Life[c] \in {"present", "gone"} /\ \A e \in Events : link'[e] # c
  BY <1>2, LifeIs, LifeValues DEF RInv, Shelved
<1>5. \A c \in Clips : Life'[c] = IF c \in condemned THEN "condemned" ELSE Life[c]
  <2>1. ASSUME NEW c \in Clips, c \in condemned PROVE Life'[c] = "condemned"
    BY <2>1, LifeIsNext
  <2>2. ASSUME NEW c \in Clips, c \notin condemned PROVE owned'[c] = "queued" <=> owned[c] = "queued"
    BY <1>2, <2>2
  <2>3. ASSUME NEW c \in Clips, c \notin condemned PROVE Life'[c] = Life[c]
    BY <1>2, <2>2, <2>3, LifeIs, LifeIsNext, LifeValues DEF Issued
  <2> QED
    BY <2>1, <2>3
<1>6. Life' = [c \in Clips |-> IF c \in condemned THEN "condemned" ELSE Life[c]]
  BY <1>5, LifeIsNext
<1>7. condemned \in SUBSET Clips
  OBVIOUS
<1> HIDE DEF condemned
<1>8. R!Condemn
  BY <1>1, <1>3, <1>4, <1>6, <1>7 DEF R!Condemn, R!Referred
<1> QED
  BY <1>8 DEF R!Next

\* finishClipCleanup: a condemned clip is gone, with everything that was left of it.
LEMMA FinishDestroys == ASSUME IInv, Rest, RInv, [Next]_vars, Finish PROVE [R!Next]_(R!vars)
<1> DEFINE c == cl.c
<1>1. c \in Clips /\ UNCHANGED <<job, video, meta, item, link>>
  BY DEF Finish, CleanerOnly, RInv, Cleaning
<1>2. CASE \A x \in Clips : owned'[x] = "queued" <=> owned[x] = "queued"
  BY <1>1, <1>2, SameLife DEF R!vars
<1>3. CASE ~ \A x \in Clips : owned'[x] = "queued" <=> owned[x] = "queued"
  <2>1. owned[c] = "queued" /\ owned' = [owned EXCEPT ![c] = "no"]
    BY <1>3 DEF Finish
  <2>2. job[c].pc = "none" /\ c \notin video /\ meta[c] = "none" /\ Issued(c)
    BY <1>1, <2>1 DEF RInv, Cleaning, Shelved, Quiet, Finish
  <2>3. Life[c] = "condemned"
    BY <1>1, <2>1, LifeIs
  <2> HIDE DEF c
  <2>4. \A x \in Clips : owned'[x] = IF x = c THEN "no" ELSE owned[x]
    BY <2>1 DEF Rest
  <2>5. Life'[c] = "gone"
    BY <1>1, <2>2, <2>4, LifeIsNext DEF Issued
  <2>6. \A x \in Clips \ {c} : Life'[x] = Life[x]
    BY <1>1, <2>4, LifeIs, LifeIsNext, LifeValues DEF Issued
  <2>7. Life' = [Life EXCEPT ![c] = "gone"]
    BY <2>5, <2>6, LifeIs, LifeIsNext
  <2>8. R!Destroy(c)
    BY <1>1, <2>3, <2>7 DEF R!Destroy
  <2> QED
    BY <1>1, <2>8 DEF R!Next
<1> QED
  BY <1>2, <1>3

LEMMA RetentionInit == Init => R!Init
BY DEF Init, R!Init, Life, Issued

LEMMA RetentionStep == ASSUME IInv, Rest, RInv, [Next]_vars PROVE [R!Next]_(R!vars)
<1>1. CASE UNCHANGED <<link, owned, rows, item>>
  BY <1>1, OnlyErase
<1>2. CASE Prune \/ Finish
  BY <1>2, PruneCondemns, FinishDestroys
<1>3. ASSUME NEW t \in Threads, Start(t) \/ Upsert(t) \/ Unlink(t) PROVE [R!Next]_(R!vars)
  BY <1>3, StartAppears, UpsertRefers, UnlinkDrops
<1> QED
  BY <1>1, <1>2, <1>3, Writers

\* The files, the jobs, the two tables and the links keep the promises of ClipRetention:
\* retention condemns no clip an event refers to, no event comes to refer to a clip on its way
\* out, and a clip that is gone does not come back (PruneOlderThan, UpsertClipAsset,
\* finishClipCleanup).
THEOREM RetentionImplemented == Spec => RetentionHolds
<1>1. IInv /\ Rest /\ RInv /\ [Next]_vars => [R!Next]_(R!vars)
  BY RetentionStep
<1>2. IInv /\ Rest /\ RInv /\ [Next]_vars => IInv' /\ Rest' /\ RInv'
  BY IInvNext, RestNext, RInvNext
<1> QED
  BY <1>1, <1>2, IInvInit, RestInit, RInvInit, RetentionInit, PTL DEF Spec, RetentionHolds, R!Spec

\* The clean-up removes the files of no clip that an event refers to or that is not queued
\* (DeleteArchiveClip, after its checks and however long after them).
THEOREM RetentionSparesReferred ==
  Spec => [](cl.pc \in {"video", "meta"} => owned[cl.c] = "queued" /\ Unreferred(cl.c))
<1>1. RInv => (cl.pc \in {"video", "meta"} => owned[cl.c] = "queued" /\ Unreferred(cl.c))
  BY DEF RInv, Cleaning, Unlinked
<1>2. IInv /\ Rest /\ RInv /\ [Next]_vars => IInv' /\ Rest' /\ RInv'
  BY IInvNext, RestNext, RInvNext
<1> QED
  BY <1>1, <1>2, IInvInit, RestInit, RInvInit, PTL DEF Spec
=============================================================================
