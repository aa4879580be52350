--------------------------- MODULE EventScanProofs ---------------------------
(***************************************************************************)
(* No window of the event index is ever skipped (NoGap), and nothing runs  *)
(* in a closed archive (ClosedIsQuiet), for every overlap, window, reach,  *)
(* number of windows in a pass, set of codes and number of failures.       *)
(*                                                                         *)
(* NoGap is not inductive: the cursor that a pass is about to save must be *)
(* honest already.  Sound says that once the window under way has been     *)
(* stored, the next cursor claims nothing that is not in the database.     *)
(***************************************************************************)
EXTENDS EventScan, TLAPS

\* What the window under way adds when it is scanned.
Pending == IF pass.pc = "scan" THEN pass.from .. pass.to ELSE {}

\* The next cursor claims what is settled and, while it is scanned, the window under way.
Sound ==
    pass.pc \in {"scan", "save"} /\ pass.now <= now =>
        \A t \in pass.next.before .. pass.now - Overlap :
            t \in settled[pass.code] \/ t \in Pending

\* A cursor is saved with the time of its pass.
Stamped == pass.pc \in {"scan", "save"} => pass.next.recent = pass.now

IInv == TypeOK /\ NoGap /\ Sound /\ Stamped

-----------------------------------------------------------------------------
(* Times stay integers. *)

\* checkpoints.go:53: the reach of a pass is a time whatever the clock shows.
LEMMA EarliestIsTime == ASSUME NEW n \in Int PROVE Earliest(n) \in Int
<1>1. Prefetch \in Int /\ Window \in Nat /\ Window > 0
  BY TimesAssumption
<1>2. n - Prefetch \in Int
  BY <1>1
<1>3. (n - Prefetch) \div Window \in Int
  BY <1>1, <1>2
<1> QED
  BY <1>1, <1>3 DEF Earliest

\* checkpoints.go:54-63: so are the ends of the window scanned first.
LEMMA WindowsAreTimes ==
  ASSUME NEW s \in Cursor, NEW n \in Int
  PROVE  /\ Since(s, n) \in Int /\ Before(s, n) \in Int
         /\ Later(Since(s, n), Earliest(n)) \in Int
         /\ Later(Before(s, n), Earliest(n)) \in Int
<1>1. s.recent \in Int /\ s.before \in Int
  BY DEF Cursor
<1>2. Overlap \in Int /\ Window \in Int
  BY TimesAssumption
<1>3. Since(s, n) \in Int /\ Before(s, n) \in Int
  BY <1>1, <1>2 DEF Since, Before
<1> QED
  BY <1>3, EarliestIsTime DEF Later

\* checkpoints.go:53-74: a pass about to scan the newest window of a code is well typed.
LEMMA RecentType ==
  ASSUME NEW p \in PassType, NEW s \in Cursor PROVE Recent(p, s) \in PassType
<1>1. p.now \in Int /\ PerPass \in Int
  BY TimesAssumption DEF PassType
<1>2. Later(Since(s, p.now), Earliest(p.now)) \in Int
      /\ Later(Before(s, p.now), Earliest(p.now)) \in Int
  BY <1>1, WindowsAreTimes
<1> QED
  BY <1>1, <1>2 DEF Recent, PassType, Cursor

\* checkpoints.go:77-92: so is one about to scan an older window.
LEMMA BackfillType ==
  ASSUME NEW p \in PassType PROVE Backfill(p) \in PassType
<1>1. p.now \in Int /\ p.next.before \in Int /\ p.windows \in Int /\ Window \in Int
  BY TimesAssumption DEF PassType, Cursor
<1> DEFINE start == Later(p.next.before - Window, Earliest(p.now))
           stop == p.next.before
           cursor == [recent |-> p.now, before |-> start]
<1>2. start \in Int /\ stop \in Int
  BY <1>1, EarliestIsTime DEF Later
<1>3. cursor \in Cursor
  BY <1>1, <1>2 DEF Cursor
<1>4. p.windows - 1 \in Int
  BY <1>1
<1>5. Backfill(p) = [p EXCEPT !.pc = "scan", !.from = start, !.to = stop, !.next = cursor,
                              !.windows = p.windows - 1]
  BY DEF Backfill
<1> HIDE DEF start, stop, cursor
<1> QED
  BY <1>2, <1>3, <1>4, <1>5 DEF PassType

LEMMA BegunType ==
  ASSUME NEW p \in PassType, NEW codes \in SUBSET Codes, NEW n \in Int
  PROVE  [p EXCEPT !.pc = "codes", !.left = codes, !.now = n] \in PassType
BY DEF PassType

LEMMA NoPassType == NoPass \in PassType
<1>1. (CHOOSE c \in Codes : TRUE) \in Codes
  BY BoundsAssumption
<1> QED
  BY <1>1 DEF NoPass, PassType, Unsaved, Cursor, Never

LEMMA FaultsNat ==
  ASSUME faults \in Nat, Fault PROVE faults' \in Nat
BY DEF Fault

-----------------------------------------------------------------------------
(* Every step keeps the types. *)

LEMMA TypeInit == Init => TypeOK
<1> SUFFICES ASSUME Init PROVE TypeOK
  OBVIOUS
<1>1. world \in WorldType /\ world.faults \in Nat
  BY BoundsAssumption DEF Init, WorldType
<1>2. First \in Nat
  BY TimesAssumption
<1>3. Unsaved \in Cursor
  BY DEF Unsaved, Cursor, Never
<1>4. << >> \in Seq(Kinds) /\ Len(<< >>) = 0
  OBVIOUS
<1>5. saved \in [Codes -> Cursor] /\ settled \in [Codes -> SUBSET Int]
  BY <1>3 DEF Init
<1>6. spawned \in [Kinds -> Nat] /\ \A k \in Kinds : spawned[k] <= Goroutines
  BY BoundsAssumption DEF Init
<1>7. now \in Nat /\ now >= First
  BY <1>2 DEF Init
<1>8. trigger \in Seq(Kinds) /\ Len(trigger) <= TriggerCap
  BY <1>4, BoundsAssumption DEF Init
<1>9. pass \in PassType
  BY NoPassType DEF Init
<1> QED
  BY <1>1, <1>5, <1>6, <1>7, <1>8, <1>9 DEF Init, TypeOK, Lives

LEMMA TypePass == ASSUME TypeOK, PassStep PROVE TypeOK'
<1> USE DEF TypeOK
<1>1. CASE Load
  <2>1. PICK c \in pass.left :
          LET p == [pass EXCEPT !.code = c, !.left = @ \ {c}]
          IN  \/ pass' = Recent(p, saved[c]) /\ UNCHANGED faults
              \/ pass' = p /\ Fault
    BY <1>1 DEF Load
  <2> DEFINE p == [pass EXCEPT !.code = c, !.left = @ \ {c}]
  <2>2. c \in Codes /\ p \in PassType
    BY DEF PassType
  <2>3. Recent(p, saved[c]) \in PassType
    BY <2>2, RecentType
  <2>4. pass' \in PassType /\ faults' \in Nat
    BY <2>1, <2>2, <2>3, FaultsNat
  <2> QED
    BY <1>1, <2>4 DEF Load, PassOnly
<1>2. CASE Scan
  <2>1. pass' \in PassType
    BY <1>2 DEF Scan, NextCode, PassType
  <2>2. faults' \in Nat
    BY <1>2, FaultsNat DEF Scan
  <2>3. settled' \in [Codes -> SUBSET Int]
    <3>1. pass.from \in Int /\ pass.to \in Int
      BY DEF PassType
    <3>2. Seen \subseteq Int
      BY <3>1 DEF Seen
    <3> QED
      BY <1>2, <3>2 DEF Scan, Stored
  <2> QED
    BY <1>2, <2>1, <2>2, <2>3 DEF Scan, PassOnly
<1>3. CASE Save
  <2>1. NextCode(pass) \in PassType
    BY DEF NextCode, PassType
  <2>2. pass' \in PassType
    BY <1>3, <2>1, BackfillType DEF Save
  <2>3. faults' \in Nat
    BY <1>3, FaultsNat DEF Save
  <2>4. saved' \in [Codes -> Cursor]
    <3>1. pass.next \in Cursor
      BY DEF PassType
    <3> QED
      BY <1>3, <3>1 DEF Save, Written
  <2> QED
    BY <1>3, <2>2, <2>3, <2>4 DEF Save, PassOnly
<1>4. CASE PassEnds
  BY <1>4, NoPassType DEF PassEnds, PassOnly
<1> QED
  BY <1>1, <1>2, <1>3, <1>4 DEF PassStep

LEMMA QueuedType ==
  ASSUME TypeOK, NEW k \in Kinds
  PROVE  Queued(k) \in Seq(Kinds) /\ Len(Queued(k)) <= TriggerCap
BY BoundsAssumption DEF TypeOK, Queued

LEMMA TypeSchedules == ASSUME TypeOK, Schedules \/ EventTicker \/ Cron PROVE TypeOK'
<1> USE DEF TypeOK
<1>1. CASE Start
  <2>1. <<"events", "full">> \in Seq(Kinds) /\ Len(<<"events", "full">>) = 2
    BY DEF Kinds
  <2> QED
    BY <1>1, <2>1, BoundsAssumption DEF Start, scanVars, Lives
<1>2. CASE Dispatch
  <2>1. Head(trigger) \in Kinds /\ Tail(trigger) \in Seq(Kinds)
        /\ Len(Tail(trigger)) <= TriggerCap
    BY <1>2, BoundsAssumption DEF Dispatch
  <2>2. spawned' \in [Kinds -> Nat] /\ \A k \in Kinds : spawned'[k] <= Goroutines
    BY <1>2, <2>1, BoundsAssumption DEF Dispatch
  <2> QED
    BY <1>2, <2>1, <2>2 DEF Dispatch, scanVars
<1>3. CASE LoopExits
  BY <1>3 DEF LoopExits, scanVars
<1>4. CASE BeginEvents
  <2>1. world.codes \in SUBSET Codes
    BY BoundsAssumption DEF WorldType
  <2> DEFINE begun == [pass EXCEPT !.pc = "codes", !.left = world.codes, !.now = now]
  <2>2. begun \in PassType
    <3>1. pass \in PassType /\ now \in Int
      OBVIOUS
    <3> HIDE DEF TypeOK
    <3> QED
      BY <2>1, <3>1, BegunType, Zenon
  <2>3. pass' = pass \/ pass' = begun
    BY <1>4 DEF BeginEvents
  <2>4. pass' \in PassType
    BY <2>2, <2>3
  <2>5. spawned' \in [Kinds -> Nat] /\ \A k \in Kinds : spawned'[k] <= Goroutines
    BY <1>4, BoundsAssumption DEF BeginEvents, Kinds
  <2> QED
    BY <1>4, <2>4, <2>5 DEF BeginEvents
<1>5. CASE BeginFull
  <2>1. spawned' \in [Kinds -> Nat] /\ \A k \in Kinds : spawned'[k] <= Goroutines
    BY <1>5, BoundsAssumption DEF BeginFull, Kinds
  <2>2. chunk' \in BOOLEAN
    BY <1>5 DEF BeginFull
  <2> QED
    BY <1>5, <2>1, <2>2 DEF BeginFull, scanVars
<1>6. CASE EndFull
  BY <1>6 DEF EndFull, scanVars
<1>7. CASE EventTicker
  BY <1>7, QueuedType DEF EventTicker, scanVars, Kinds
<1>8. CASE Cron
  BY <1>8, QueuedType DEF Cron, scanVars, Kinds
<1> QED
  BY <1>1, <1>2, <1>3, <1>4, <1>5, <1>6, <1>7, <1>8 DEF Schedules

LEMMA TypeEnds ==
  ASSUME TypeOK, ParentEnds \/ CloseBegins \/ Closes \/ Crash \/ Tick \/ ClockBack
  PROVE  TypeOK'
<1> USE DEF TypeOK
<1>1. CASE ParentEnds
  BY <1>1, FaultsNat DEF ParentEnds, scanVars
<1>2. CASE CloseBegins
  BY <1>2, FaultsNat DEF CloseBegins, scanVars, Lives
<1>3. CASE CloseCancels
  BY <1>3 DEF CloseCancels, scanVars, Lives
<1>4. CASE CloseJoins
  BY <1>4 DEF CloseJoins, scanVars, Lives
<1>5. CASE Restart \/ Crash
  <2>1. faults' \in Nat
    BY <1>5 DEF Restart, Crash
  <2>2. << >> \in Seq(Kinds) /\ Len(<< >>) = 0
    OBVIOUS
  <2>3. Fresh
    BY <1>5 DEF Restart, Crash
  <2>4. trigger' \in Seq(Kinds) /\ Len(trigger') <= TriggerCap
    BY <2>2, <2>3, BoundsAssumption DEF Fresh
  <2>5. spawned' \in [Kinds -> Nat] /\ \A k \in Kinds : spawned'[k] <= Goroutines
    BY <2>3, BoundsAssumption DEF Fresh
  <2> QED
    BY <2>1, <2>3, <2>4, <2>5, NoPassType DEF Fresh, Lives
<1>6. CASE Tick
  BY <1>6, TimesAssumption DEF Tick, scanVars, runVars
<1>7. CASE ClockBack
  BY <1>7, TimesAssumption DEF ClockBack, runVars
<1> QED
  BY <1>1, <1>2, <1>3, <1>4, <1>5, <1>6, <1>7 DEF Closes

LEMMA TypeNext == ASSUME TypeOK, [Next]_vars PROVE TypeOK'
<1>1. CASE UNCHANGED vars
  BY <1>1 DEF TypeOK, vars, scanVars, runVars
<1>2. CASE Next
  BY <1>2, TypePass, TypeSchedules, TypeEnds DEF Next
<1> QED
  BY <1>1, <1>2

-----------------------------------------------------------------------------
(* The cursors stay honest. *)

\* checkpoints.go:53-74: what the newest window leaves out was settled before, or is left to the
\* backfill.
LEMMA RecentCovers ==
  ASSUME TypeOK, NoGap, NEW c \in Codes, NEW n \in Int, n <= now,
         NEW t \in Later(Before(saved[c], n), Earliest(n)) .. n - Overlap
  PROVE  t \in settled[c] \/ t \in Later(Since(saved[c], n), Earliest(n)) .. n
<1> DEFINE s == saved[c]
           e == Earliest(n)
<1>1. s \in Cursor /\ now \in Int
  BY DEF TypeOK
<1>2. s.recent \in Int /\ s.before \in Int /\ e \in Int /\ Overlap \in Nat
  BY <1>1, EarliestIsTime, TimesAssumption DEF Cursor
<1>3. /\ Since(s, n) \in Int /\ Before(s, n) \in Int
      /\ Later(Since(s, n), e) \in Int /\ Later(Before(s, n), e) \in Int
  BY <1>1, WindowsAreTimes
<1>4. t \in Int /\ Before(s, n) <= t /\ e <= t /\ t <= n - Overlap /\ t <= n
  BY <1>2, <1>3 DEF Later
<1>5. CASE Unscanned(s, n) \/ Outage(s, n)
  <2>1. Before(s, n) = Since(s, n)
    BY <1>5 DEF Before
  <2>2. Later(Since(s, n), e) <= t
    BY <1>2, <1>3, <1>4, <2>1 DEF Later
  <2> QED
    BY <1>3, <1>4, <2>2
<1>6. CASE ~(Unscanned(s, n) \/ Outage(s, n))
  <2>1. Before(s, n) = s.before /\ Since(s, n) = s.recent - Overlap
    BY <1>6 DEF Before, Since
  <2>2. s.recent # Never /\ s.recent <= now
    BY <1>1, <1>2, <1>6 DEF Unscanned
  <2>3. CASE t <= s.recent - Overlap
    <3>1. Honest(c, s)
      BY <2>2 DEF NoGap
    <3> QED
      BY <1>2, <1>4, <2>1, <2>3, <3>1 DEF Honest
  <2>4. CASE ~(t <= s.recent - Overlap)
    <3>1. Later(Since(s, n), e) <= t
      BY <1>2, <1>3, <1>4, <2>1, <2>4 DEF Later
    <3> QED
      BY <1>3, <1>4, <3>1
  <2> QED
    BY <2>3, <2>4
<1> QED
  BY <1>5, <1>6

LEMMA InitHonest == Init => NoGap /\ Sound /\ Stamped
BY DEF Init, NoGap, Sound, Stamped, Unsaved, NoPass

LEMMA LoadHonest == ASSUME IInv, TypeOK', Load PROVE NoGap' /\ Sound' /\ Stamped'
<1>1. PICK c \in pass.left :
        LET p == [pass EXCEPT !.code = c, !.left = @ \ {c}]
        IN  \/ pass' = Recent(p, saved[c]) /\ UNCHANGED faults
            \/ pass' = p /\ Fault
  BY DEF Load
<1>2. c \in Codes /\ pass \in PassType /\ pass.now \in Int
  BY DEF IInv, TypeOK, PassType
<1>3. UNCHANGED <<saved, settled, now>>
  BY DEF Load, PassOnly
<1>4. NoGap'
  BY <1>3 DEF IInv, NoGap, Honest
<1>5. CASE pass'.pc = "codes"
  BY <1>4, <1>5 DEF Sound, Stamped
<1>6. CASE pass'.pc # "codes"
  <2> DEFINE p == [pass EXCEPT !.code = c, !.left = @ \ {c}]
  <2>1. p.now = pass.now /\ p.code = c /\ p.pc = "codes"
    BY <1>2 DEF PassType, Load
  <2>2. pass' = Recent(p, saved[c])
    BY <1>1, <1>6, <2>1
  <2>a. p \in PassType
    BY <1>2 DEF PassType
  <2>3. /\ pass'.pc = "scan" /\ pass'.now = pass.now /\ pass'.code = c
        /\ pass'.from = Later(Since(saved[c], pass.now), Earliest(pass.now))
        /\ pass'.to = pass.now
        /\ pass'.next = [recent |-> pass.now,
                        before |-> Later(Before(saved[c], pass.now), Earliest(pass.now))]
    BY <2>1, <2>2, <2>a DEF Recent, PassType
  <2>4. ASSUME pass'.now <= now',
               NEW t \in pass'.next.before .. pass'.now - Overlap
        PROVE  t \in settled'[pass'.code] \/ t \in Pending'
    <3>1. t \in settled[c] \/ t \in Later(Since(saved[c], pass.now), Earliest(pass.now)) .. pass.now
      BY <1>2, <1>3, <2>3, <2>4, RecentCovers DEF IInv
    <3> QED
      BY <1>3, <2>3, <3>1 DEF Pending
  <2>5. Sound'
    BY <2>4 DEF Sound
  <2>6. Stamped'
    BY <2>3 DEF Stamped
  <2> QED
    BY <1>4, <2>5, <2>6
<1> QED
  BY <1>5, <1>6

\* service.go:774-820: a scan settles its window up to the events that may still come late.
LEMMA ScanHonest == ASSUME IInv, TypeOK', Scan PROVE NoGap' /\ Sound' /\ Stamped'
<1>0. pass \in PassType
  BY DEF IInv, TypeOK
<1>1. /\ pass \in PassType /\ pass.code \in Codes /\ pass.now \in Int /\ now \in Int
      /\ settled \in [Codes -> SUBSET Int] /\ pass.next.before \in Int /\ Overlap \in Nat
  <2>1. pass.next \in Cursor /\ pass.code \in Codes /\ pass.now \in Int
    BY <1>0 DEF PassType
  <2>2. pass.next.before \in Int
    BY <2>1 DEF Cursor
  <2> QED
    BY <1>0, <2>1, <2>2, TimesAssumption DEF IInv, TypeOK
<1>2. saved' = saved /\ now' = now
  BY DEF Scan, PassOnly
<1>3. settled' = settled \/ Stored
  BY DEF Scan
<1>4. \A c \in Codes : settled[c] \subseteq settled'[c]
  BY <1>1, <1>3 DEF Stored
<1>5. NoGap'
  BY <1>2, <1>4 DEF IInv, NoGap, Honest
<1>6. CASE pass' = [pass EXCEPT !.pc = "save"] /\ Stored
  <2>1. /\ pass'.pc = "save" /\ pass'.now = pass.now /\ pass'.next = pass.next
        /\ pass'.code = pass.code
    BY <1>1, <1>6 DEF PassType
  <2>2. settled'[pass.code] = settled[pass.code] \cup Seen
    BY <1>1, <1>6 DEF Stored
  <2>3. ASSUME pass.now <= now, NEW t \in pass.next.before .. pass.now - Overlap
        PROVE  t \in settled'[pass.code]
    <3>1. pass.pc = "scan"
      BY DEF Scan
    <3>2. t \in settled[pass.code] \/ t \in pass.from .. pass.to
      BY <2>3, <3>1 DEF IInv, Sound, Pending
    <3>3. t + Overlap <= now
      BY <1>1, <2>3
    <3> QED
      BY <2>2, <3>2, <3>3 DEF Seen
  <2>4. Sound'
    BY <1>2, <2>1, <2>3 DEF Sound
  <2>5. Stamped'
    <3>1. pass.next.recent = pass.now
      BY DEF IInv, Stamped, Scan
    <3> QED
      BY <2>1, <3>1 DEF Stamped
  <2> QED
    BY <1>5, <2>4, <2>5
<1>7. CASE pass' = NextCode(pass)
  <2>1. pass'.pc = "codes"
    BY <1>1, <1>7 DEF NextCode, PassType
  <2> QED
    BY <1>5, <2>1 DEF Sound, Stamped
<1> QED
  BY <1>6, <1>7 DEF Scan

\* checkpoints.go:70-93: what is saved was stored, and what lies between the window stored last
\* and the next one is nothing.
LEMMA SaveHonest == ASSUME IInv, TypeOK', Save PROVE NoGap' /\ Sound' /\ Stamped'
<1>0. pass \in PassType
  BY DEF IInv, TypeOK
<1>1. /\ pass \in PassType /\ pass.code \in Codes /\ pass.now \in Int /\ now \in Int
      /\ pass.next \in Cursor /\ pass.next.before \in Int /\ Overlap \in Nat /\ Window \in Nat
      /\ saved \in [Codes -> Cursor]
  <2>1. pass.next \in Cursor /\ pass.code \in Codes /\ pass.now \in Int
    BY <1>0 DEF PassType
  <2>2. pass.next.before \in Int
    BY <2>1 DEF Cursor
  <2> QED
    BY <1>0, <2>1, <2>2, TimesAssumption DEF IInv, TypeOK
<1>2. settled' = settled /\ now' = now /\ pass.pc = "save"
  BY DEF Save, PassOnly
<1>3. pass.next.recent = pass.now
  BY <1>2 DEF IInv, Stamped
<1>4. ASSUME pass.now <= now, NEW t \in pass.next.before .. pass.now - Overlap
      PROVE  t \in settled[pass.code]
  BY <1>2, <1>4 DEF IInv, Sound, Pending
<1>5. NoGap'
  <2>1. CASE saved' = saved
    BY <1>2, <2>1 DEF IInv, NoGap, Honest
  <2>2. CASE Written
    <3>1. ASSUME NEW c \in Codes, saved'[c].recent # Never, saved'[c].recent <= now'
          PROVE  \A t \in saved'[c].before .. saved'[c].recent - Overlap : t \in settled'[c]
      <4>1. CASE c = pass.code
        <5>1. saved'[c] = pass.next
          BY <1>1, <2>2, <4>1 DEF Written
        <5> QED
          BY <1>2, <1>3, <1>4, <3>1, <4>1, <5>1
      <4>2. CASE c # pass.code
        <5>1. saved'[c] = saved[c]
          BY <1>1, <2>2, <4>2 DEF Written
        <5> QED
          BY <1>2, <3>1, <5>1 DEF IInv, NoGap, Honest
      <4> QED
        BY <4>1, <4>2
    <3> QED
      BY <3>1 DEF NoGap, Honest
  <2> QED
    BY <2>1, <2>2 DEF Save
<1>6. CASE pass' = NextCode(pass)
  <2>1. pass'.pc = "codes"
    BY <1>1, <1>6 DEF NextCode, PassType
  <2> QED
    BY <1>5, <2>1 DEF Sound, Stamped
<1>7. CASE pass' = Backfill(pass)
  <2> DEFINE start == Later(pass.next.before - Window, Earliest(pass.now))
  <2>1. start \in Int
    BY <1>1, EarliestIsTime DEF Later
  <2>2. /\ pass'.pc = "scan" /\ pass'.now = pass.now /\ pass'.code = pass.code
        /\ pass'.from = start /\ pass'.to = pass.next.before
        /\ pass'.next = [recent |-> pass.now, before |-> start]
    BY <1>1, <1>7 DEF Backfill, PassType
  <2> HIDE DEF start
  <2>3. ASSUME pass'.now <= now', NEW t \in pass'.next.before .. pass'.now - Overlap
        PROVE  t \in settled'[pass'.code] \/ t \in Pending'
    <3>1. t \in start .. pass.now - Overlap
      BY <2>2, <2>3
    <3>2. CASE t <= pass.next.before
      <4>1. t \in start .. pass.next.before
        BY <1>1, <2>1, <3>1, <3>2
      <4> QED
        BY <2>2, <4>1 DEF Pending
    <3>3. CASE ~(t <= pass.next.before)
      <4>1. t \in pass.next.before .. pass.now - Overlap
        BY <1>1, <2>1, <3>1, <3>3
      <4> QED
        BY <1>2, <1>4, <2>2, <2>3, <4>1
    <3> QED
      BY <3>2, <3>3
  <2>4. Sound'
    BY <2>3 DEF Sound
  <2>5. Stamped'
    BY <2>2 DEF Stamped
  <2> QED
    BY <1>5, <2>4, <2>5
<1> QED
  BY <1>6, <1>7 DEF Save

\* The clock moves past no cursor and no pass that it is behind of (checkpoints.go:55).
LEMMA TickHonest == ASSUME IInv, TypeOK', Tick PROVE NoGap' /\ Sound' /\ Stamped'
<1>1. now \in Int /\ saved \in [Codes -> Cursor] /\ pass \in PassType
  BY DEF IInv, TypeOK
<1>2. pass.now \in Int /\ \A c \in Codes : saved[c].recent \in Int
  BY <1>1 DEF PassType, Cursor
<1>3. now' = now + 1 /\ UNCHANGED <<saved, settled, pass>>
  BY DEF Tick, scanVars
<1>4. /\ Idle \/ now + 1 # pass.now
      /\ \A c \in Codes : saved[c].recent = Never \/ now + 1 # saved[c].recent
  BY DEF Tick, Marks
<1>5. Idle \/ (pass.now <= now' => pass.now <= now)
  BY <1>1, <1>2, <1>3, <1>4
<1>6. \A c \in Codes :
        saved[c].recent # Never /\ saved[c].recent <= now' => saved[c].recent <= now
  BY <1>1, <1>2, <1>3, <1>4
<1>7. NoGap'
  BY <1>3, <1>6 DEF IInv, NoGap, Honest
<1>8. Sound'
  BY <1>3, <1>5 DEF IInv, Sound, Pending, Idle
<1>9. Stamped'
  BY <1>3 DEF IInv, Stamped
<1> QED
  BY <1>7, <1>8, <1>9

\* A clock set back is behind every cursor and every pass.
LEMMA ClockBackHonest == ASSUME IInv, TypeOK', ClockBack PROVE NoGap' /\ Sound' /\ Stamped'
<1>1. now' \in Int /\ saved \in [Codes -> Cursor] /\ pass \in PassType
  BY DEF IInv, TypeOK
<1>2. pass.now \in Int /\ \A c \in Codes : saved[c].recent \in Int
  BY <1>1 DEF PassType, Cursor
<1>3. UNCHANGED <<saved, pass>>
  BY DEF ClockBack
<1>4. /\ Idle \/ now' < pass.now
      /\ \A c \in Codes : saved[c].recent = Never \/ now' < saved[c].recent
  BY DEF ClockBack, Marks
<1>5. NoGap'
  BY <1>1, <1>2, <1>3, <1>4 DEF NoGap
<1>6. Sound'
  BY <1>1, <1>2, <1>3, <1>4 DEF Sound, Idle
<1>7. Stamped'
  BY <1>3 DEF IInv, Stamped
<1> QED
  BY <1>5, <1>6, <1>7

\* Nothing else touches a cursor, the index or the pass, but to begin or to end one.
LEMMA OthersHonest ==
  ASSUME IInv, UNCHANGED <<now, saved, settled>>, pass' = pass \/ pass'.pc \in {"idle", "codes"}
  PROVE  NoGap' /\ Sound' /\ Stamped'
<1>1. NoGap'
  BY DEF IInv, NoGap, Honest
<1>2. CASE pass' = pass
  BY <1>1, <1>2 DEF IInv, Sound, Stamped, Pending
<1>3. CASE pass'.pc \in {"idle", "codes"}
  BY <1>1, <1>3 DEF Sound, Stamped
<1> QED
  BY <1>2, <1>3

LEMMA IInvNext == ASSUME IInv, [Next]_vars PROVE IInv'
<1>1. TypeOK'
  BY TypeNext DEF IInv
<1>2. CASE Load
  BY <1>1, <1>2, LoadHonest DEF IInv
<1>3. CASE Scan
  BY <1>1, <1>3, ScanHonest DEF IInv
<1>4. CASE Save
  BY <1>1, <1>4, SaveHonest DEF IInv
<1>5. CASE PassEnds
  <2>1. pass'.pc = "idle"
    BY <1>5 DEF PassEnds, NoPass
  <2> QED
    BY <1>1, <1>5, <2>1, OthersHonest DEF IInv, PassEnds, PassOnly
<1>6. CASE BeginEvents
  <2>1. pass' = pass \/ pass'.pc = "codes"
    BY <1>6 DEF BeginEvents, IInv, TypeOK, PassType
  <2> QED
    BY <1>1, <1>6, <2>1, OthersHonest DEF IInv, BeginEvents
<1>7. CASE Start \/ Dispatch \/ LoopExits \/ BeginFull \/ EndFull \/ EventTicker \/ Cron
  <2>1. UNCHANGED <<now, saved, settled, pass>>
    BY <1>7 DEF Start, Dispatch, LoopExits, BeginFull, EndFull, EventTicker, Cron, scanVars
  <2> QED
    BY <1>1, <2>1, OthersHonest DEF IInv
<1>8. CASE ParentEnds \/ CloseBegins \/ CloseCancels \/ CloseJoins \/ UNCHANGED vars
  <2>1. UNCHANGED <<now, saved, settled, pass>>
    BY <1>8 DEF ParentEnds, CloseBegins, CloseCancels, CloseJoins, scanVars, vars
  <2> QED
    BY <1>1, <2>1, OthersHonest DEF IInv
<1>9. CASE Restart \/ Crash
  <2>1. pass'.pc = "idle" /\ UNCHANGED <<now, saved, settled>>
    BY <1>9 DEF Restart, Crash, Fresh, NoPass
  <2> QED
    BY <1>1, <2>1, OthersHonest DEF IInv
<1>10. CASE Tick
  BY <1>1, <1>10, TickHonest DEF IInv
<1>11. CASE ClockBack
  BY <1>1, <1>11, ClockBackHonest DEF IInv
<1> QED
  BY <1>2, <1>3, <1>4, <1>5, <1>6, <1>7, <1>8, <1>9, <1>10, <1>11
     DEF Next, PassStep, Schedules, Closes

\* The cursors and the scheduler are well typed in every reachable state.
THEOREM TypeCorrect == Spec => []TypeOK
<1>1. TypeOK /\ [Next]_vars => TypeOK'
  BY TypeNext
<1> QED
  BY TypeInit, <1>1, PTL DEF Spec

\* No window of the event index is ever skipped, whatever fails, crashes or is cut short.
THEOREM IndexHasNoGap == Spec => []NoGap
<1>1. Init => IInv
  BY TypeInit, InitHonest DEF IInv
<1>2. IInv /\ [Next]_vars => IInv'
  BY IInvNext
<1>3. IInv => NoGap
  BY DEF IInv
<1> QED
  BY <1>1, <1>2, <1>3, PTL DEF Spec

-----------------------------------------------------------------------------
(* A closed archive is quiet. *)

\* service.go:241-268, lifecycle.go:9-19: a sync needs a loop to request it, and only Start makes
\* loops.
LEMMA QuietNext == ASSUME TypeOK, ClosedIsQuiet, [Next]_vars PROVE ClosedIsQuiet'
<1>1. CASE life # "closed"
  <2>1. CASE CloseJoins
    BY <2>1 DEF CloseJoins, Joined, ClosedIsQuiet, Idle, scanVars
  <2>2. CASE ~CloseJoins
    <3>1. life' # "closed"
      BY <1>1, <2>2 DEF Next, PassStep, Schedules, Closes, Load, Scan, Save, PassEnds, PassOnly,
         Start, Dispatch, LoopExits, BeginEvents, BeginFull, EndFull, EventTicker, Cron, ParentEnds,
         CloseBegins, CloseCancels, Restart, Crash, Fresh, Tick, ClockBack, runVars, vars
    <3> QED
      BY <3>1 DEF ClosedIsQuiet
  <2> QED
    BY <2>1, <2>2
<1>2. CASE life = "closed"
  <2>1. loops = {} /\ Idle /\ ~chunk /\ (\A k \in Kinds : spawned[k] = 0)
    BY <1>2 DEF ClosedIsQuiet
  <2>2. ~PassStep
    BY <2>1 DEF PassStep, Load, Scan, Save, PassEnds, Idle
  <2>3. ~Schedules
    BY <1>2, <2>1 DEF Schedules, Start, Dispatch, LoopExits, BeginEvents, BeginFull, EndFull, Kinds
  <2>4. ~EventTicker /\ ~Cron
    BY <2>1 DEF EventTicker, Cron
  <2>5. ~ParentEnds /\ ~CloseBegins /\ ~CloseCancels /\ ~CloseJoins /\ ~Crash
    BY <1>2 DEF ParentEnds, CloseBegins, CloseCancels, CloseJoins, Crash
  <2>6. CASE Restart
    BY <2>6 DEF Restart, Fresh, ClosedIsQuiet
  <2>7. CASE Tick \/ ClockBack \/ UNCHANGED vars
    <3>1. UNCHANGED <<loops, pass, chunk, spawned>>
      BY <2>7 DEF Tick, ClockBack, scanVars, runVars, vars
    <3> QED
      BY <2>1, <3>1 DEF ClosedIsQuiet, Idle
  <2> QED
    BY <2>2, <2>3, <2>4, <2>5, <2>6, <2>7 DEF Next, Closes
<1> QED
  BY <1>1, <1>2

\* Once Close has closed the database, no loop and no sync is left to use it.
THEOREM ClosedStaysQuiet == Spec => []ClosedIsQuiet
<1>1. Init => TypeOK /\ ClosedIsQuiet
  BY TypeInit DEF Init, ClosedIsQuiet
<1>2. TypeOK /\ ClosedIsQuiet /\ [Next]_vars => TypeOK' /\ ClosedIsQuiet'
  BY TypeNext, QuietNext
<1> QED
  BY <1>1, <1>2, PTL DEF Spec
=============================================================================
