---------------------------- MODULE ArchiveClips ----------------------------
(***************************************************************************)
(* Archive exports from request to retention: bridge/internal/media,       *)
(* capture.go, clip_transcode.go, clip_storage.go, archive_cleanup.go;     *)
(* bridge/internal/app, runtime_archive_export.go and                      *)
(* archive_live_searcher.go; bridge/internal/archive, assets.go,           *)
(* clip_retention.go, service.go and PruneOlderThan of sqlite.go.          *)
(*                                                                         *)
(* An export is a file, its metadata, a job in memory, a row in two tables *)
(* and the link of an event, and no lock covers any two of them.  Requests *)
(* of users, the event sync (which reconciles links, then exports) and the *)
(* recording sync (which prunes and cleans up) run at the same time; the   *)
(* bridge may crash between any two steps.                                 *)
(*                                                                         *)
(* Each record has a stream of its own ("nvr_export_" and a hash of the    *)
(* window), so clips of one record compete and clips of two do not.        *)
(* Recordings the user makes of live streams are not exports and are left  *)
(* out, and so is the limit on workers (module MediaWorkers).              *)
(***************************************************************************)
EXTENDS Naturals, FiniteSets

CONSTANTS
    Events,     \* records of smd_ivs_events, exported over RTSP playback
    Chunks,     \* recording chunks, exported from a downloaded file
    Users,      \* HTTP requests
    Sync,       \* the event sync
    Clips,      \* bound: clip IDs (newClipID), numbers from 1 in the order they are given
    Worlds,     \* the environments explored, see WorldType
    None

Items == Events \cup Chunks
Threads == Users \cup {Sync}

\* items: what can be exported; users: who asks; clips: bound on exports; retries: FFmpeg
\* attempts after the first; faults: bound on crashes, storage and database errors together;
\* ages: whether records reach the end of their retention; deletes: whether users delete.
WorldType == [items : SUBSET Items, users : SUBSET Users, clips : Nat, retries : Nat,
              faults : Nat, ages : BOOLEAN, deletes : BOOLEAN]

ASSUME NamesAssumption ==
    Clips \subseteq Nat \ {0} /\ None \notin Clips \cup Items /\ Sync \notin Users
        /\ Events \cap Chunks = {}
ASSUME WorldsAssumption == Worlds \subseteq WorldType

VARIABLES
    video,     \* the clips whose MP4 is in the clip directory
    meta,      \* their metadata files; torn is one that is no JSON
    input,     \* the downloaded files that jobs read
    job,       \* m.clipJobs and its goroutines
    item,      \* the record each clip was made for
    rows,      \* bridge_mp4_clips
    owned,     \* archive_clip_retention and its queued column
    link,      \* mp4_clip_id of the events
    mark,      \* mp4_status of the events
    listed,    \* the events that have a row
    aged,      \* the records older than retain_days
    th,        \* the requests and the event sync
    cl,        \* the tail of the recording sync
    faults,    \* failures still to come
    world

disk == <<video, meta, input>>
db == <<rows, owned, link, mark, listed>>
vars == <<video, meta, input, job, item, rows, owned, link, mark, listed, aged, th, cl, faults,
          world>>

-----------------------------------------------------------------------------
(* Clips and jobs *)

Statuses == {"recording", "completed", "failed"}
Recording == {"listed", "launched", "running", "ended"}

JobType == [pc : {"none", "complete"} \cup Recording, cancelled : BOOLEAN, stopping : BOOLEAN,
            left : Nat, ok : BOOLEAN, told : {"nothing", "started", "failed"}]
NoJob == [pc |-> "none", cancelled |-> FALSE, stopping |-> FALSE, left |-> 0, ok |-> FALSE,
          told |-> "nothing"]

Issued(c) == item[c] # None
Next1 == {c \in Clips : ~Issued(c) /\ c <= world.clips /\ \A x \in Clips : x < c => Issued(x)}

\* ActiveClip
Active(c) == job[c].pc \in Recording

Outcome(c) == IF job[c].ok THEN "completed" ELSE "failed"

\* GetClip of the manager: the job's word, or the file's; a torn file is an error, and no
\* ErrClipNotFound.
Status(c) ==
    CASE Active(c) -> "recording"
      [] job[c].pc = "complete" -> Outcome(c)
      [] OTHER -> meta[c]

Found(c) == Status(c) \in Statuses

\* GetClip of archiveLiveSearcher: neither an interrupted recording nor a completed clip
\* without its file will do.
Readable(c) ==
    \/ Active(c) \/ Status(c) = "failed"
    \/ Status(c) = "completed" /\ c \in video

\* reusableArchiveClip, of the clips FindClips lists.
Reusable(c) == Issued(c) /\ (Active(c) \/ (Status(c) = "completed" /\ c \in video))

\* A thread does one thing at a time.  seen is the status it holds of clip c.
ThreadType ==
    [pc : {"idle", "finding", "starting", "again", "launching", "waiting", "abandoned",
           "tracking", "reusing", "upserting", "reading", "unlinking", "stopping",
           "removing", "removing meta"},
     e : Items \cup {None}, c : Clips \cup {None}, seen : Statuses]
Idle == [pc |-> "idle", e |-> None, c |-> None, seen |-> "failed"]

Goes(t, pc) == th' = [th EXCEPT ![t].pc = pc]
Returns(t) == th' = [th EXCEPT ![t] = Idle]

\* One failure of the storage, the database or the machine.
Fault == faults > 0 /\ faults' = faults - 1

\* persistClip: os.WriteFile empties the file before it writes.
Persist(c, status) ==
    \/ meta' = [meta EXCEPT ![c] = status] /\ UNCHANGED faults
    \/ Fault /\ \E left \in {meta[c], "torn"} : meta' = [meta EXCEPT ![c] = left]

-----------------------------------------------------------------------------
(* The job's goroutine (clipJob.run). *)

JobStep(c) == UNCHANGED <<item, db, aged, th, cl, world>>

\* cmd.Start; started tells the caller.
FFmpegStarts(c) ==
    /\ job[c].pc = "launched"
    /\ \/ /\ job' = [job EXCEPT ![c].pc = "running", ![c].told = "started"]
          /\ video' = video \cup {c}
       \/ /\ job' = [job EXCEPT ![c].pc = "ended", ![c].told = "failed"]
          /\ UNCHANGED video
    /\ UNCHANGED <<meta, input, faults>> /\ JobStep(c)

\* canRetry: the remux failed, then the prefix; the next attempt starts anew.
Retries(c) ==
    /\ job[c].pc = "running" /\ job[c].left > 0
    /\ ~job[c].cancelled
    /\ job' = [job EXCEPT ![c].left = @ - 1]
    /\ UNCHANGED <<disk, faults>> /\ JobStep(c)

\* A clip the user stops is shorter and good; a cancelled one has failed.
FFmpegEnds(c) ==
    /\ job[c].pc = "running"
    /\ \E ok \in BOOLEAN :
        /\ IF job[c].cancelled THEN ok => job[c].stopping ELSE ok \/ job[c].left = 0
        /\ job' = [job EXCEPT ![c].pc = "ended", ![c].ok = ok]
    /\ UNCHANGED <<disk, faults>> /\ JobStep(c)

\* complete: metadata, then the temporary inputs, under job.mu.
Completes(c) ==
    /\ job[c].pc = "ended"
    /\ job' = [job EXCEPT ![c].pc = "complete"]
    /\ Persist(c, Outcome(c))
    /\ input' = input \ {c}
    /\ UNCHANGED video /\ JobStep(c)

\* removeClipJob and close(job.done); the caller of startClipJob keeps the struct.
Leaves(c) ==
    /\ job[c].pc = "complete"
    /\ job' = [job EXCEPT ![c] = IF job[c].told = "nothing" THEN NoJob
                                 ELSE [NoJob EXCEPT !.told = job[c].told, !.ok = job[c].ok]]
    /\ UNCHANGED <<disk, faults>> /\ JobStep(c)

-----------------------------------------------------------------------------
(* EnsureNVRArchiveClip *)

Newest(set, c) == c \in set /\ \A x \in set : x <= c

\* The event sync takes the events without a usable clip (LoadPendingEventClipCandidates);
\* a user may ask for anything.
Export(t, e) ==
    /\ th[t].pc = "idle" /\ e \in world.items
    /\ IF t = Sync
       THEN e \in listed \ aged /\ (link[e] = None \/ mark[e] = "failed")
       ELSE t \in world.users
    /\ th' = [th EXCEPT ![t] = [Idle EXCEPT !.pc = "finding", !.e = e]]
    /\ UNCHANGED <<disk, job, item, db, aged, cl, faults, world>>

\* FindClips and reusableArchiveClip, before the start and after ErrClipAlreadyActive.
Find(t) ==
    LET found == {c \in Clips : item[c] = th[t].e /\ Reusable(c)}
    IN /\ th[t].pc \in {"finding", "again"}
       /\ \/ \E c \in Clips :
                /\ Newest(found, c)
                /\ th' = [th EXCEPT ![t].pc = "reusing", ![t].c = c, ![t].seen = Status(c)]
          \/ found = {} /\ th[t].pc = "finding" /\ Goes(t, "starting")
          \/ found = {} /\ th[t].pc = "again" /\ Returns(t)
       /\ UNCHANGED <<disk, job, item, db, aged, cl, faults, world>>

\* The download or the playback session fails, or the worker limit is reached.
GivesUp(t) ==
    /\ th[t].pc = "starting" /\ Returns(t)
    /\ UNCHANGED <<disk, job, item, db, aged, cl, faults, world>>

\* startClipJob: one recording for each stream.
Start(t) ==
    /\ th[t].pc = "starting"
    /\ UNCHANGED <<video, meta, db, aged, cl, faults, world>>
    /\ IF \E c \in Clips : item[c] = th[t].e /\ Active(c)
       THEN Goes(t, "again") /\ UNCHANGED <<input, job, item>>
       ELSE \E c \in Next1 :
              /\ th' = [th EXCEPT ![t].pc = "launching", ![t].c = c]
              /\ item' = [item EXCEPT ![c] = th[t].e]
              /\ job' = [job EXCEPT ![c] = [NoJob EXCEPT !.pc = "listed", !.left = world.retries]]
              /\ input' = IF th[t].e \in Chunks THEN input \cup {c} ELSE input

\* persistClip, then go job.run.
Launch(t) ==
    LET c == th[t].c
    IN /\ th[t].pc = "launching"
       /\ Persist(c, "recording")
       /\ job' = [job EXCEPT ![c].pc = "launched"]
       /\ Goes(t, "waiting")
       /\ UNCHANGED <<video, input, item, db, aged, cl, world>>

\* Its caller drops the job's struct.
Dismissed(c) ==
    [job EXCEPT ![c] = IF @.pc = "none" THEN NoJob ELSE [@ EXCEPT !.told = "nothing"]]

\* startClipJob returns: started, or failed and done.
Started(t) ==
    LET c == th[t].c
    IN /\ th[t].pc = "waiting"
       /\ \/ /\ job[c].told = "started"
             /\ th' = [th EXCEPT ![t].pc = "tracking",
                                 ![t].seen = IF Active(c) THEN "recording" ELSE Outcome(c)]
             /\ UNCHANGED input
          \/ /\ job[c].told = "failed" /\ job[c].pc = "none"
             /\ Returns(t) /\ input' = input \ {c}
       /\ job' = Dismissed(c)
       /\ UNCHANGED <<video, meta, item, db, aged, cl, faults, world>>

\* The caller's context ends first: cancel, and wait before giving the input back.
ContextEnds(t) ==
    /\ th[t].pc = "waiting" /\ t \in Users
    /\ job' = [job EXCEPT ![th[t].c].cancelled = job[th[t].c].pc # "none"]
    /\ Goes(t, "abandoned")
    /\ UNCHANGED <<disk, item, db, aged, cl, faults, world>>

Abandons_AtOnce(t) ==
    /\ th[t].pc = "abandoned"
    /\ Returns(t)
    /\ job' = Dismissed(th[t].c)
    /\ input' = input \ {th[t].c}
    /\ UNCHANGED <<video, meta, item, db, aged, cl, faults, world>>

Abandons(t) ==
    /\ th[t].pc = "abandoned" /\ job[th[t].c].pc = "none"
    /\ Returns(t)
    /\ job' = Dismissed(th[t].c)
    /\ input' = input \ {th[t].c}
    /\ UNCHANGED <<video, meta, item, db, aged, cl, faults, world>>

-----------------------------------------------------------------------------
(* The event sync's links and a user's search. *)

\* Where a thread goes after UpsertClipAsset: TrackNVRArchiveClip is followed by the
\* event sync's own, unless the export failed; a reused clip is handed out all the same.
AfterUpsert(t, done) ==
    IF t = Sync /\ (th[t].pc = "reusing" \/ (th[t].pc = "tracking" /\ done))
    THEN Goes(t, "upserting") ELSE Returns(t)

\* UpsertClipAsset, one transaction.
Upsert_Unqueued(t) ==
    LET c == th[t].c
        e == th[t].e
    IN /\ th[t].pc \in {"tracking", "reusing", "upserting"}
       /\ \/ /\ rows' = rows \cup {c}
             /\ owned' = IF owned[c] = "no" THEN [owned EXCEPT ![c] = "owned"] ELSE owned
             /\ link' = IF e \in listed THEN [link EXCEPT ![e] = c] ELSE link
             /\ mark' = IF e \in listed THEN [mark EXCEPT ![e] = th[t].seen] ELSE mark
             /\ AfterUpsert(t, TRUE) /\ UNCHANGED faults
          \/ /\ Fault
             /\ AfterUpsert(t, FALSE)
             /\ UNCHANGED <<rows, owned, link, mark>>
       /\ UNCHANGED <<disk, job, item, listed, aged, cl, world>>

Upsert(t) ==
    LET c == th[t].c
        e == th[t].e
    IN /\ th[t].pc \in {"tracking", "reusing", "upserting"}
       /\ \/ /\ owned[c] # "queued"
             /\ rows' = rows \cup {c}
             /\ owned' = [owned EXCEPT ![c] = "owned"]
             /\ link' = IF e \in listed THEN [link EXCEPT ![e] = c] ELSE link
             /\ mark' = IF e \in listed THEN [mark EXCEPT ![e] = th[t].seen] ELSE mark
             /\ AfterUpsert(t, TRUE) /\ UNCHANGED faults
          \/ /\ IF owned[c] = "queued" THEN UNCHANGED faults ELSE Fault
             /\ AfterUpsert(t, FALSE)
             /\ UNCHANGED <<rows, owned, link, mark>>
       /\ UNCHANGED <<disk, job, item, listed, aged, cl, world>>

\* reconcileClipAssets: load a link, ask for its clip, write down what it said.
Reconcile(e) ==
    /\ th[Sync].pc = "idle" /\ link[e] # None /\ mark[e] \in {"recording", "completed"}
    /\ th' = [th EXCEPT ![Sync] = [Idle EXCEPT !.pc = "reading", !.e = e, !.c = link[e]]]
    /\ UNCHANGED <<disk, job, item, db, aged, cl, faults, world>>

GetClip_Trusting(t) ==
    LET c == th[t].c
    IN /\ th[t].pc = "reading"
       /\ IF Found(c)
          THEN th' = [th EXCEPT ![t].pc = "upserting", ![t].seen = Status(c)]
          ELSE Goes(t, "unlinking")
       /\ UNCHANGED <<disk, job, item, db, aged, cl, faults, world>>

GetClip(t) ==
    LET c == th[t].c
    IN /\ th[t].pc = "reading"
       /\ IF Readable(c)
          THEN th' = [th EXCEPT ![t].pc = "upserting", ![t].seen = Status(c)]
          ELSE Goes(t, "unlinking")
       /\ UNCHANGED <<disk, job, item, db, aged, cl, faults, world>>

\* DeleteClipAsset: whatever the event refers to by now.
Unlink(t) ==
    /\ th[t].pc = "unlinking"
    /\ Returns(t)
    /\ \/ /\ link' = [link EXCEPT ![th[t].e] = None]
          /\ mark' = [mark EXCEPT ![th[t].e] = "none"]
          /\ UNCHANGED faults
       \/ Fault /\ UNCHANGED <<link, mark>>
    /\ UNCHANGED <<disk, job, item, rows, owned, listed, aged, cl, world>>

\* EnrichRecordings refreshes the link of an event in the list, or links the best of
\* the clips with its window.
Score(c) == CASE Status(c) = "completed" -> 2 [] Status(c) = "recording" -> 1 [] OTHER -> 0
Matching(e) == {c \in Clips : item[c] = e /\ Found(c)}

Search(t, e) ==
    /\ th[t].pc = "idle" /\ t \in world.users /\ e \in listed
    /\ \E c \in Clips :
        /\ IF link[e] # None
           THEN c = link[e] /\ Found(c)
           ELSE c \in Matching(e) /\ \A x \in Matching(e) : Score(x) <= Score(c)
        /\ th' = [th EXCEPT ![t] = [pc |-> "upserting", e |-> e, c |-> c, seen |-> Status(c)]]
    /\ UNCHANGED <<disk, job, item, db, aged, cl, faults, world>>

-----------------------------------------------------------------------------
(* StopClip and DeleteClip of users. *)

\* Both stop a recording and wait for it; the context may end first.
Stop(t, c) ==
    /\ th[t].pc = "idle" /\ t \in world.users /\ world.deletes
    /\ Active(c)
    /\ \E deletes \in BOOLEAN :
        th' = [th EXCEPT ![t] = [Idle EXCEPT !.pc = IF deletes THEN "stopping" ELSE "idle",
                                             !.c = IF deletes THEN c ELSE None]]
    /\ job' = [job EXCEPT ![c].stopping = TRUE, ![c].cancelled = TRUE]
    /\ UNCHANGED <<disk, item, db, aged, cl, faults, world>>

Stopped(t) ==
    /\ th[t].pc = "stopping"
    /\ \/ job[th[t].c].pc = "none" /\ Goes(t, "removing")
       \/ Returns(t)
    /\ UNCHANGED <<disk, job, item, db, aged, cl, faults, world>>

DeleteClip(t, c) ==
    /\ th[t].pc = "idle" /\ t \in world.users /\ world.deletes
    /\ ~Active(c) /\ Found(c)
    /\ th' = [th EXCEPT ![t] = [Idle EXCEPT !.pc = "removing", !.c = c]]
    /\ UNCHANGED <<disk, job, item, db, aged, cl, faults, world>>

\* The metadata goes last, so that a failed removal can be tried again.
RemoveVideo(t) ==
    /\ th[t].pc = "removing"
    /\ \/ video' = video \ {th[t].c} /\ Goes(t, "removing meta") /\ UNCHANGED faults
       \/ Fault /\ Returns(t) /\ UNCHANGED video
    /\ UNCHANGED <<meta, input, job, item, db, aged, cl, world>>

RemoveMeta(t) ==
    /\ th[t].pc = "removing meta"
    /\ \/ meta' = [meta EXCEPT ![th[t].c] = "none"] /\ UNCHANGED faults
       \/ Fault /\ UNCHANGED meta
    /\ Returns(t)
    /\ UNCHANGED <<video, input, job, item, db, aged, cl, world>>

-----------------------------------------------------------------------------
(* The tail of SyncNow: PruneOlderThan, deletePrunedClips, DeleteArchiveClip. *)

CleanerType == [pc : {"idle", "next", "video", "meta", "finish"}, todo : SUBSET Clips,
                c : Clips \cup {None}]
Resting == [pc |-> "idle", todo |-> {}, c |-> None]

Moves(pc, c) == cl' = [pc |-> pc, todo |-> cl.todo \ {c}, c |-> c]
Skips(c) == cl' = [pc |-> "next", todo |-> cl.todo \ {c}, c |-> None]

CleanerOnly == UNCHANGED <<input, job, item, aged, th, world>>

\* One transaction: events that have not been seen for retain_days and whose clip is not
\* being made go, and then exports past it that no event refers to are queued.  An event
\* may have been seen later than it happened.
Prune ==
    /\ cl.pc = "idle"
    /\ \E unseen \in SUBSET {e \in listed \cap aged : mark[e] # "recording"} :
        /\ listed' = listed \ unseen
        /\ link' = [e \in Events |-> IF e \in unseen THEN None ELSE link[e]]
        /\ mark' = [e \in Events |-> IF e \in unseen THEN "none" ELSE mark[e]]
    /\ owned' = [c \in Clips |->
                    IF owned[c] = "owned" /\ item[c] \in aged /\ \A e \in Events : link'[e] # c
                    THEN "queued" ELSE owned[c]]
    /\ cl' = [pc |-> "next", todo |-> {c \in Clips : owned'[c] = "queued"}, c |-> None]
    /\ UNCHANGED <<video, meta, rows, faults>> /\ CleanerOnly

\* Two checks for a running job and two for metadata that cannot be read, here and in
\* DeleteArchiveClip, and the row.
Check(c) ==
    /\ cl.pc = "next" /\ c \in cl.todo
    /\ IF job[c].pc # "none" \/ meta[c] = "torn" THEN Skips(c)
       ELSE IF c \in rows /\ owned[c] = "queued" THEN Moves("video", c) ELSE Moves("finish", c)
    /\ UNCHANGED <<video, meta, db, faults>> /\ CleanerOnly

Rests ==
    /\ cl.pc = "next" /\ cl.todo = {}
    /\ cl' = Resting
    /\ UNCHANGED <<video, meta, db, faults>> /\ CleanerOnly

CleanVideo ==
    /\ cl.pc = "video"
    /\ \/ video' = video \ {cl.c} /\ Moves("meta", cl.c) /\ UNCHANGED faults
       \/ Fault /\ Skips(cl.c) /\ UNCHANGED video
    /\ UNCHANGED <<meta, db>> /\ CleanerOnly

CleanMeta ==
    /\ cl.pc = "meta"
    /\ \/ meta' = [meta EXCEPT ![cl.c] = "none"] /\ Moves("finish", cl.c) /\ UNCHANGED faults
       \/ Fault /\ Skips(cl.c) /\ UNCHANGED meta
    /\ UNCHANGED <<video, db>> /\ CleanerOnly

\* finishClipCleanup, one transaction.
Finish_RowOnly ==
    LET c == cl.c
        done == owned[c] = "queued" /\ \A e \in Events : link[e] # c
    IN /\ cl.pc = "finish"
       /\ \/ /\ rows' = IF done THEN rows \ {c} ELSE rows
             /\ UNCHANGED <<owned, faults>>
          \/ Fault /\ UNCHANGED <<rows, owned>>
       /\ Skips(c)
       /\ UNCHANGED <<video, meta, link, mark, listed>> /\ CleanerOnly

Finish ==
    LET c == cl.c
        done == owned[c] = "queued" /\ \A e \in Events : link[e] # c
    IN /\ cl.pc = "finish"
       /\ \/ /\ rows' = IF done THEN rows \ {c} ELSE rows
             /\ owned' = IF owned[c] = "queued" /\ c \notin rows'
                         THEN [owned EXCEPT ![c] = "no"] ELSE owned
             /\ UNCHANGED faults
          \/ Fault /\ UNCHANGED <<rows, owned>>
       /\ Skips(c)
       /\ UNCHANGED <<video, meta, link, mark, listed>> /\ CleanerOnly

-----------------------------------------------------------------------------
(* Time and crashes *)

Ages(i) ==
    /\ world.ages /\ i \in world.items \ aged
    /\ aged' = aged \cup {i}
    /\ UNCHANGED <<disk, job, item, db, th, cl, faults, world>>

\* Jobs, requests and both syncs are gone; FFmpeg dies with the process, and metadata that
\* is being written may be cut short.
Crash ==
    /\ Fault
    /\ \E cut \in SUBSET {c \in Clips : job[c].pc \in {"listed", "ended"}} :
        meta' = [c \in Clips |-> IF c \in cut THEN "torn" ELSE meta[c]]
    /\ job' = [c \in Clips |-> NoJob]
    /\ th' = [t \in Threads |-> Idle]
    /\ cl' = Resting
    /\ UNCHANGED <<video, input, item, db, aged, world>>

-----------------------------------------------------------------------------
Init ==
    /\ world \in Worlds
    /\ video = {} /\ input = {} /\ rows = {} /\ aged = {}
    /\ meta = [c \in Clips |-> "none"]
    /\ job = [c \in Clips |-> NoJob]
    /\ item = [c \in Clips |-> None]
    /\ owned = [c \in Clips |-> "no"]
    /\ link = [e \in Events |-> None]
    /\ mark = [e \in Events |-> "none"]
    /\ listed = Events \cap world.items
    /\ th = [t \in Threads |-> Idle]
    /\ cl = Resting
    /\ faults = world.faults

JobNext(c) == FFmpegStarts(c) \/ Retries(c) \/ FFmpegEnds(c) \/ Completes(c) \/ Leaves(c)

ThreadNext(t) ==
    \/ Find(t) \/ GivesUp(t) \/ Start(t) \/ Launch(t) \/ Started(t) \/ Abandons(t)
    \/ Upsert(t) \/ GetClip(t) \/ Unlink(t) \/ Stopped(t) \/ RemoveVideo(t) \/ RemoveMeta(t)

CleanerNext ==
    \/ Prune \/ (\E c \in Clips : Check(c)) \/ Rests \/ CleanVideo \/ CleanMeta \/ Finish

Next ==
    \/ \E c \in Clips : JobNext(c)
    \/ \E t \in Threads :
        \/ ThreadNext(t) \/ ContextEnds(t)
        \/ \E i \in Items : Export(t, i)
        \/ \E e \in Events : Search(t, e)
        \/ \E c \in Clips : Stop(t, c) \/ DeleteClip(t, c)
    \/ CleanerNext
    \/ \E e \in Events : Reconcile(e)
    \/ \E i \in Items : Ages(i)
    \/ Crash

Spec == Init /\ [][Next]_vars

\* FFmpeg reads a finite window; requests and syncs go on and the recording sync comes
\* round again.  Every pass of the event sync reconciles before it exports, so a link that
\* is there whenever the sync is free is looked at.  Nobody has to ask for anything.
Fairness ==
    /\ \A c \in Clips : WF_vars(JobNext(c))
    /\ \A t \in Threads : WF_vars(ThreadNext(t))
    /\ WF_vars(CleanerNext)
    /\ \A e \in Events : SF_vars(Reconcile(e))

FairSpec == Spec /\ Fairness

-----------------------------------------------------------------------------
\* The files, the jobs and the tables hold what capture.go, archive_cleanup.go and the archive
\* store keep in them; a job's attempts never run below none.
TypeOK ==
    /\ world \in Worlds
    /\ video \subseteq Clips /\ input \subseteq Clips /\ rows \subseteq Clips
    /\ meta \in [Clips -> {"none", "torn"} \cup Statuses]
    /\ job \in [Clips -> JobType]
    /\ item \in [Clips -> Items \cup {None}]
    /\ owned \in [Clips -> {"no", "owned", "queued"}]
    /\ link \in [Events -> Clips \cup {None}]
    /\ mark \in [Events -> {"none"} \cup Statuses]
    /\ listed \subseteq Events /\ aged \subseteq Items
    /\ th \in [Threads -> ThreadType] /\ cl \in CleanerType
    /\ faults \in Nat

\* FFmpeg's downloaded input is there for as long as the job may open it, also when the
\* request that downloaded it ends while the job starts (startClipJob, job.complete and
\* the deferred clean-up of EnsureNVRArchiveClip).
InputOutlivesJob ==
    \A c \in Clips :
        job[c].pc \in {"launched", "running"} /\ item[c] \in Chunks => c \in input

\* The files, the job and the two tables of a clip as one life.
Life ==
    [c \in Clips |->
        IF owned[c] = "queued" THEN "condemned"
        ELSE IF ~Issued(c) THEN "new"
        ELSE IF job[c].pc # "none" \/ c \in video \/ meta[c] # "none" THEN "present"
        ELSE "gone"]

R == INSTANCE ClipRetention WITH life <- Life, link <- link

\* The archive keeps its promises: retention removes no clip an event refers to, no
\* event comes to refer to a clip on its way out, and a clip that was deleted, by a user
\* or by retention, does not come back (deletePrunedClips, UpsertClipAsset, DeleteClip).
RetentionHolds == R!Spec

\* A queued deletion is carried out, through failures and restarts, unless the metadata of
\* the clip is torn: then deletePrunedClips and DeleteArchiveClip give up on every pass.
QueuedIsCleaned ==
    \A c \in Clips : (owned[c] = "queued") ~> (owned[c] = "no" \/ meta[c] = "torn")

\* What a record says of its clip comes true: a link to a clip that was lost, deleted
\* or interrupted is noticed.
Stale(e) ==
    /\ link[e] # None /\ mark[e] \in {"recording", "completed"}
    /\ mark[e] # Status(link[e]) \/ ~Readable(link[e])
StaleLinksHeal == \A e \in Events : Stale(e) ~> ~Stale(e)

\* bridge/docs/media-and-recording.md:264: "The archive database also keeps
\* archive_clip_retention ownership for every archive export attempt, including failed
\* attempts replaced by a retry."  Checked of attempts that no request works on.
AttemptsAreOwned ==
    \A c \in Clips :
        (meta[c] # "none" /\ job[c].pc = "none" /\ \A t \in Threads : th[t].c # c)
            => owned[c] # "no"
=============================================================================
