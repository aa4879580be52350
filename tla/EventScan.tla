------------------------------ MODULE EventScan ------------------------------
(***************************************************************************)
(* The archive's event index: bridge/internal/archive, checkpoints.go, the *)
(* scheduling half of service.go and lifecycle.go.                         *)
(*                                                                         *)
(* Every five minutes a pass asks the recorder, for each event code of a   *)
(* channel, for the events since the last pass with some overlap, then for *)
(* at most two older windows, and saves a cursor in the database after     *)
(* each window.  The ticker and cron request passes through a short        *)
(* channel; one goroutine takes requests and starts another for each;      *)
(* anything may fail, the process may end between any two steps, and time  *)
(* passes all the while.                                                   *)
(*                                                                         *)
(* Times are integers.  The recorder reports an event at most Overlap      *)
(* after its time, so a window scanned at least that much later shows all  *)
(* it will ever show: what has been stored from such a scan is settled.    *)
(* The recording sync shares the scheduling and is left otherwise opaque   *)
(* here; its retention is in module ArchiveClips.                          *)
(***************************************************************************)
EXTENDS Integers, Sequences

CONSTANTS
    Codes,         \* smdEventCodes and ivsEventCodes, of one channel
    Overlap,       \* archiveEventOverlap
    Window,        \* archiveSyncWindow
    Prefetch,      \* archive.prefetch_days
    PerPass,       \* archiveBackfillWindowsPerPass
    TriggerCap,    \* the capacity of s.trigger
    Goroutines,    \* bound: started goroutines of one kind that have not begun
    First,         \* the clock when the archive is first used
    Worlds         \* the environments explored, see WorldType

\* horizon: bound on the clock; codes: those prefetched; faults: bound on failures, shutdowns,
\* crashes and clock corrections together; crons: whether cron fires.
WorldType == [horizon : Nat, codes : SUBSET Codes, faults : Nat, crons : BOOLEAN]

\* archive.prefetch_days counts days: its window lies after the zero time.
ASSUME TimesAssumption ==
    /\ Overlap \in Nat /\ Window \in Nat \ {0} /\ Overlap <= Window
    /\ Prefetch \in Nat /\ First \in Nat /\ First >= Prefetch + Window
    /\ PerPass \in Nat
ASSUME BoundsAssumption ==
    /\ TriggerCap \in Nat /\ TriggerCap >= 2 /\ Goroutines \in Nat \ {0}
    /\ Codes # {} /\ Worlds \subseteq WorldType

VARIABLES
    now,         \* the clock
    saved,       \* archive_event_scan_progress of each code
    settled,     \* the times whose events are all in smd_ivs_events, by code
    pass,        \* the running event sync
    chunk,       \* chunkRunning: the recording sync runs
    trigger,     \* s.trigger
    spawned,     \* goroutines of runLoop that have not begun their sync
    loops,       \* the two loops of Start
    life,        \* s.started, s.closed and how far Close is
    cancelled,   \* s.ctx is done
    faults,      \* failures still to come
    world

scanVars == <<saved, settled, pass>>
runVars == <<chunk, trigger, spawned, loops, life, cancelled>>
vars == <<now, scanVars, runVars, faults, world>>

Kinds == {"events", "full"}
Lives == {"new", "started", "closing", "cancelled", "closed"}
Never == 0      \* the zero time.Time
Cursor == [recent : Int, before : Int]

\* pc: idle; codes, between two codes; scan and save, at a window of one code.
\* next is the cursor saved when the window has been stored.
PassType == [pc : {"idle", "codes", "scan", "save"}, left : SUBSET Codes, code : Codes,
             now : Int, from : Int, to : Int, next : Cursor, windows : Int]

Unsaved == [recent |-> Never, before |-> Never]
NoPass == [pc |-> "idle", left |-> {}, code |-> CHOOSE c \in Codes : TRUE, now |-> Never,
           from |-> Never, to |-> Never, next |-> Unsaved, windows |-> 0]
Idle == pass.pc = "idle"

\* One of the failures left to the world; after a cancellation everything may fail.
Fault == IF cancelled THEN UNCHANGED faults ELSE faults > 0 /\ faults' = faults - 1

-----------------------------------------------------------------------------
(* The windows of a pass. *)

Later(a, b) == IF a < b THEN b ELSE a

Earliest(n) == ((n - Prefetch) \div Window) * Window

\* Nothing was scanned yet, or the clock was set back.
Unscanned(s, n) == s.recent = Never \/ s.recent > n
\* The last scan is so long ago that only the newest window is scanned now.
Outage(s, n) == ~Unscanned(s, n) /\ s.recent - Overlap < n - Window

Since(s, n) ==
    IF Unscanned(s, n) THEN n - Overlap
    ELSE IF Outage(s, n) THEN n - Window ELSE s.recent - Overlap

\* The slip: after an outage the backfill goes on where it was.
Before_Kept(s, n) == IF Unscanned(s, n) THEN n - Overlap ELSE s.before

\* Where the backfill stands: a gap is left to it.
Before(s, n) == IF Unscanned(s, n) \/ Outage(s, n) THEN Since(s, n) ELSE s.before

Recent(p, s) ==
    [p EXCEPT !.pc = "scan", !.from = Later(Since(s, p.now), Earliest(p.now)), !.to = p.now,
              !.next = [recent |-> p.now, before |-> Later(Before(s, p.now), Earliest(p.now))],
              !.windows = PerPass]

\* The slip: the last, shorter window is left out.
Remains_Whole(p) == p.windows > 0 /\ p.next.before - Window > Earliest(p.now)

Remains(p) == p.windows > 0 /\ p.next.before > Earliest(p.now)

Backfill(p) ==
    LET from == Later(p.next.before - Window, Earliest(p.now))
    IN  [p EXCEPT !.pc = "scan", !.from = from, !.to = p.next.before,
                  !.next = [recent |-> p.now, before |-> from], !.windows = @ - 1]

NextCode(p) == [p EXCEPT !.pc = "codes"]

-----------------------------------------------------------------------------
(* A pass: SyncSMDIVSNow, syncSMDIVSChannel, syncIncrementalEventCode. *)

PassOnly == UNCHANGED <<now, chunk, trigger, spawned, loops, life, cancelled, world>>

Load ==
    /\ pass.pc = "codes" /\ ~cancelled
    /\ \E c \in pass.left :
        LET p == [pass EXCEPT !.code = c, !.left = @ \ {c}]
        IN  \/ pass' = Recent(p, saved[c]) /\ UNCHANGED faults
            \/ pass' = p /\ Fault
    /\ UNCHANGED <<saved, settled>> /\ PassOnly

\* Events up to Overlap late were reported by now; later ones come with a later scan.
Seen == {t \in pass.from .. pass.to : t + Overlap <= now}
Stored == settled' = [settled EXCEPT ![pass.code] = @ \cup Seen]

\* Query, upsert and the requests for clips: the last may fail with the rows committed.
Scan ==
    /\ pass.pc = "scan"
    /\ \/ Stored /\ pass' = [pass EXCEPT !.pc = "save"] /\ UNCHANGED faults
       \/ (Stored \/ UNCHANGED settled) /\ pass' = NextCode(pass) /\ Fault
    /\ UNCHANGED saved /\ PassOnly

Written == saved' = [saved EXCEPT ![pass.code] = pass.next]

\* A write that reports an error may have been committed.
Save ==
    /\ pass.pc = "save"
    /\ \/ /\ Written /\ UNCHANGED faults
          /\ pass' = IF Remains(pass) THEN Backfill(pass) ELSE NextCode(pass)
       \/ (Written \/ UNCHANGED saved) /\ pass' = NextCode(pass) /\ Fault
    /\ UNCHANGED settled /\ PassOnly

PassEnds ==
    /\ pass.pc = "codes" /\ (pass.left = {} \/ cancelled)
    /\ pass' = NoPass
    /\ UNCHANGED <<saved, settled, faults>> /\ PassOnly

-----------------------------------------------------------------------------
(* Requests, loops and syncs: Start, runLoop, smdIVSLoop, beginSync. *)

Running(k) == IF k = "events" THEN ~Idle ELSE chunk
Refuses(k) == life \in {"closing", "cancelled", "closed"} \/ Running(k)

\* A request that finds the channel full is dropped.
Queued(k) == IF Len(trigger) < TriggerCap THEN Append(trigger, k) ELSE trigger

Start ==
    /\ life = "new"
    /\ life' = "started" /\ loops' = {"run", "ticker"}
    /\ trigger' = <<"events", "full">>
    /\ UNCHANGED <<now, scanVars, chunk, spawned, cancelled, faults, world>>

\* Every five minutes while the service lives.
EventTicker ==
    /\ "ticker" \in loops
    /\ trigger' = Queued("events")
    /\ UNCHANGED <<now, scanVars, chunk, spawned, loops, life, cancelled, faults, world>>

\* Once the loops are gone nobody reads what it sends.
Cron ==
    /\ world.crons /\ life \in {"started", "closing"} /\ loops # {}
    /\ trigger' = Queued("full")
    /\ UNCHANGED <<now, scanVars, chunk, spawned, loops, life, cancelled, faults, world>>

\* select takes either when the context is done and a request waits.
Dispatch ==
    /\ "run" \in loops /\ trigger # << >>
    /\ spawned[Head(trigger)] < Goroutines
    /\ trigger' = Tail(trigger)
    /\ spawned' = [spawned EXCEPT ![Head(trigger)] = @ + 1]
    /\ UNCHANGED <<now, scanVars, chunk, loops, life, cancelled, faults, world>>

LoopExits ==
    /\ cancelled
    /\ \E l \in loops : loops' = loops \ {l}
    /\ UNCHANGED <<now, scanVars, chunk, trigger, spawned, life, cancelled, faults, world>>

\* beginSync and the running flag; a sync that finds either against it returns at once.
BeginEvents ==
    /\ spawned["events"] > 0
    /\ spawned' = [spawned EXCEPT !["events"] = @ - 1]
    /\ pass' = IF Refuses("events") THEN pass
               ELSE [pass EXCEPT !.pc = "codes", !.left = world.codes, !.now = now]
    /\ UNCHANGED <<now, saved, settled, chunk, trigger, loops, life, cancelled, faults, world>>

BeginFull ==
    /\ spawned["full"] > 0
    /\ spawned' = [spawned EXCEPT !["full"] = @ - 1]
    /\ chunk' = (chunk \/ ~Refuses("full"))
    /\ UNCHANGED <<now, scanVars, trigger, loops, life, cancelled, faults, world>>

EndFull ==
    /\ chunk /\ chunk' = FALSE
    /\ UNCHANGED <<now, scanVars, trigger, spawned, loops, life, cancelled, faults, world>>

-----------------------------------------------------------------------------
(* The end of the process, and the clock. *)

\* context.AfterFunc(ctx, s.cancel): the application stops.
ParentEnds ==
    /\ life = "started" /\ ~cancelled /\ Fault
    /\ cancelled' = TRUE
    /\ UNCHANGED <<now, scanVars, chunk, trigger, spawned, loops, life, world>>

CloseBegins ==
    /\ life \in {"new", "started"} /\ Fault
    /\ life' = "closing"
    /\ UNCHANGED <<now, scanVars, chunk, trigger, spawned, loops, cancelled, world>>

CloseCancels ==
    /\ life = "closing"
    /\ life' = "cancelled" /\ cancelled' = TRUE
    /\ UNCHANGED <<now, scanVars, chunk, trigger, spawned, loops, faults, world>>

\* The slip: only the loops are waited for.
Joined_Loops == loops = {}

\* s.wg counts the loops, what runLoop started and every sync.
Joined == loops = {} /\ (\A k \in Kinds : spawned[k] = 0) /\ Idle /\ ~chunk

\* s.wg.Wait, then the database is closed.
CloseJoins ==
    /\ life = "cancelled" /\ Joined
    /\ life' = "closed"
    /\ UNCHANGED <<now, scanVars, chunk, trigger, spawned, loops, cancelled, faults, world>>

Fresh ==
    /\ pass' = NoPass /\ chunk' = FALSE /\ trigger' = << >> /\ spawned' = [k \in Kinds |-> 0]
    /\ loops' = {} /\ life' = "new" /\ cancelled' = FALSE
    /\ UNCHANGED <<now, saved, settled, world>>

\* The process is started again, after Close or without it.
Restart == life = "closed" /\ Fresh /\ UNCHANGED faults
Crash == life # "closed" /\ faults > 0 /\ faults' = faults - 1 /\ Fresh

Marks == ({saved[c].recent : c \in Codes} \ {Never}) \cup (IF Idle THEN {} ELSE {pass.now})

\* A clock that was set back does not overtake a cursor before the next pass has seen it.
Tick ==
    /\ now < world.horizon /\ now + 1 \notin Marks
    /\ now' = now + 1
    /\ UNCHANGED <<scanVars, runVars, faults, world>>

\* The clock was far ahead and is corrected: nothing scanned until then counts.
ClockBack ==
    /\ faults > 0 /\ faults' = faults - 1
    /\ now' \in First .. now - 1
    /\ \A m \in Marks : now' < m
    /\ settled' = [c \in Codes |-> {}]
    /\ UNCHANGED <<saved, pass, runVars, world>>

-----------------------------------------------------------------------------
Init ==
    /\ world \in Worlds
    /\ now = First
    /\ saved = [c \in Codes |-> Unsaved]
    /\ settled = [c \in Codes |-> {}]
    /\ pass = NoPass
    /\ chunk = FALSE /\ trigger = << >> /\ spawned = [k \in Kinds |-> 0]
    /\ loops = {} /\ life = "new" /\ cancelled = FALSE
    /\ faults = world.faults

PassStep == Load \/ Scan \/ Save \/ PassEnds
Schedules == Start \/ Dispatch \/ LoopExits \/ BeginEvents \/ BeginFull \/ EndFull
Closes == CloseCancels \/ CloseJoins \/ Restart

Next ==
    \/ PassStep \/ Schedules \/ EventTicker \/ Cron
    \/ ParentEnds \/ CloseBegins \/ Closes \/ Crash
    \/ Tick \/ ClockBack

Spec == Init /\ [][Next]_vars

\* Goroutines run, queries end (two minutes at most), the ticker ticks, a stopped application
\* closes the archive and is started again.  Cron fires at most once a minute, so it cannot keep
\* the channel full at every tick.  Nothing is assumed of the clock or of failures.
FairSpec ==
    /\ Spec
    /\ WF_vars(PassStep /\ UNCHANGED faults)
    /\ WF_vars(Start) /\ SF_vars(EventTicker) /\ WF_vars(Dispatch) /\ WF_vars(LoopExits)
    /\ WF_vars(BeginEvents) /\ WF_vars(BeginFull) /\ WF_vars(EndFull)
    /\ WF_vars(cancelled /\ CloseBegins) /\ WF_vars(Closes)
-----------------------------------------------------------------------------
(* Properties. *)

\* The cursors are pairs of times, the tables of the scheduler stay within their limits, and a
\* scan is always of a window that starts no later than it ends (the queries sent to the
\* recorder; config.go's prefetch_days, checkpoints.go:53-99).
TypeOK ==
    /\ world \in Worlds /\ now \in Nat /\ now >= First
    /\ saved \in [Codes -> Cursor] /\ settled \in [Codes -> SUBSET Int]
    /\ pass \in PassType
    /\ chunk \in BOOLEAN /\ trigger \in Seq(Kinds) /\ Len(trigger) <= TriggerCap
    /\ spawned \in [Kinds -> Nat] /\ \A k \in Kinds : spawned[k] <= Goroutines
    /\ loops \subseteq {"run", "ticker"} /\ life \in Lives /\ cancelled \in BOOLEAN
    /\ faults \in Nat

\* What a cursor claims is in the database.
Honest(c, s) == \A t \in s.before .. s.recent - Overlap : t \in settled[c]

\* No window is skipped: whatever failed, was repeated or was cut short by a crash or an outage,
\* every time between the two halves of a saved cursor has been stored with all its events.
\* (A cursor ahead of the clock claims nothing: the next pass discards it.)
\* bridge/docs/media-and-recording.md, "Restart resumes those cursors; a long outage prioritizes
\* the newest hour and fills the missed range through backfill"; checkpoints.go:45-48.
NoGap ==
    \A c \in Codes : saved[c].recent # Never /\ saved[c].recent <= now => Honest(c, saved[c])

\* Close joins the loops and every sync before it closes the database: from then on nothing of
\* the service runs, and nothing it had started begins (service.go:245-274, lifecycle.go:9-20).
ClosedIsQuiet ==
    life = "closed" => loops = {} /\ Idle /\ ~chunk /\ \A k \in Kinds : spawned[k] = 0

Due(c) == {t \in Earliest(now) .. now - Overlap : c \in world.codes}

\* Whatever the clock has reached is stored in the end, through dropped requests, failed scans,
\* outages, shutdowns, crashes and corrections: once the clock rests (it is bounded), all that
\* is in reach is settled for good (bridge/docs/media-and-recording.md, "until prefetch_days is
\* covered").
BackfillCompletes == <>[](\A c \in Codes : Due(c) \subseteq settled[c])
=============================================================================
