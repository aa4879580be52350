-------------------------- MODULE DeviceStateProofs --------------------------
(***************************************************************************)
(* The state file is honest, for any number of requests, preferences,      *)
(* tokens and failures.                                                    *)
(*                                                                         *)
(* CleanIsSaved and PublishedIsDurable are inductive together with four    *)
(* facts about the writer that holds fileMu: there is at most one; the     *)
(* file is its snapshot once it has written; its snapshot is the store's   *)
(* results unless the revision has moved, and then the store is dirty; and *)
(* a flush carries the preferences that are published, because only the    *)
(* other writer replaces them, and only with the lock.  For ExitSaves the  *)
(* shutdown is followed to the last flush.                                 *)
(***************************************************************************)
EXTENDS DeviceState, TLAPS

Holds(s) == save[s].pc \in Holding
OneWriter == \A s, t \in Savers : Holds(s) /\ Holds(t) => s = t
Written == \A s \in Savers : save[s].pc \in {"mark", "publish"} => disk = save[s].snap
Current == \A s \in Savers :
    save[s].pc \in {"write", "mark"} => changed \/ save[s].snap.results = results
Noticed == changed => dirty
Carried == Holds("flush") => save["flush"].snap.prefs = prefs

FileInv == OneWriter /\ Written /\ Current /\ Noticed /\ Carried
           /\ CleanIsSaved /\ PublishedIsDurable

-----------------------------------------------------------------------------
(* Types. *)

LEMMA Nothing ==
  /\ [p \in Probers |-> NoJob] \in [Probers -> JobType] /\ Ready(NoJob)
  /\ [s \in Savers |-> NoSave] \in [Savers -> SaveType] /\ NoSave.pc = "idle"
BY DEF NoJob, NoSave, JobType, SaveType, Token, Ready

LEMMA TypeInit == Init => TypeOK
<1> SUFFICES ASSUME Init PROVE TypeOK
  OBVIOUS
<1>1. world \in WorldType
  BY WorldsAssumption DEF Init
<1>2. disk \in Snapshot
  BY ValuesAssumption DEF Init, Snapshot, Token
<1>3. \A p \in Probers : Ready(job[p])
  BY Nothing DEF Init
<1>4. \A s \in Savers : Armed(s)
  BY Nothing DEF Init, Armed, Holding
<1>5. job \in [Probers -> JobType] /\ save \in [Savers -> SaveType]
  BY Nothing DEF Init
<1> QED
  BY <1>1, <1>2, <1>3, <1>4, <1>5, ValuesAssumption DEF Init, TypeOK, WorldType, Phases, Token

LEMMA TypeFresh == ASSUME TypeOK, Fresh, faults' \in Nat PROVE TypeOK'
<1>3. (\A p \in Probers : Ready(job[p]))'
  BY Nothing DEF Fresh
<1>4. (\A s \in Savers : Armed(s))'
  BY Nothing DEF Fresh, Armed, Holding
<1>5. (job \in [Probers -> JobType] /\ save \in [Savers -> SaveType])'
  BY Nothing DEF Fresh
<1> QED
  BY <1>3, <1>4, <1>5, ValuesAssumption DEF TypeOK, Fresh, Phases, Snapshot, Token

\* A step of one request is checked on its new record.
LEMMA JobStep ==
  ASSUME TypeOK, NEW p \in Probers, NEW j \in JobType, Ready(j), job' = [job EXCEPT ![p] = j]
  PROVE  job' \in [Probers -> JobType] /\ \A q \in Probers : Ready(job'[q])
BY DEF TypeOK

LEMMA JobHas == ASSUME TypeOK, NEW p \in Probers PROVE job[p] \in JobType /\ Ready(job[p])
BY DEF TypeOK

\* Steps of the driver leave the rest of the state alone.
LEMMA DriverStep ==
  ASSUME TypeOK, DriverOnly, faults' \in Nat, cfg' \in Configs, client' \in Configs,
         inventory' \in SUBSET Configs, verdict' \in Configs \cup {Failed, None},
         job' \in [Probers -> JobType], \A q \in Probers : Ready(job'[q])
  PROVE  TypeOK'
BY DEF TypeOK, DriverOnly, storeVars, fileVars, appVars, Armed

LEMMA FaultsStay == ASSUME TypeOK, Fault \/ RequestFails \/ UNCHANGED faults PROVE faults' \in Nat
BY DEF TypeOK, Fault, RequestFails

LEMMA TypeAsk ==
  ASSUME TypeOK, PollTick \/ \E h \in Handlers : AskProbe(h) \/ AskRotate(h)
  PROVE  TypeOK'
<1>1. ASSUME NEW p \in Probers, At(p, "idle"),
             \E pc \in {"begin", "drop", "status"} : Goto(p, pc),
             DriverOnly, UNCHANGED <<cfg, client, inventory, verdict, faults>>
      PROVE  TypeOK'
  <2>1. PICK pc \in {"begin", "drop", "status"} : job' = [job EXCEPT ![p].pc = pc]
    BY <1>1 DEF Goto
  <2>2. job[p] = NoJob
    BY <1>1, JobHas DEF At, Ready
  <2> DEFINE j == [NoJob EXCEPT !.pc = pc]
  <2>3. j \in JobType /\ Ready(j)
    BY <2>1 DEF NoJob, JobType, Ready
  <2>4. job' = [job EXCEPT ![p] = j]
    BY <2>1, <2>2
  <2> QED
    BY <1>1, <2>3, <2>4, JobStep, DriverStep DEF TypeOK
<1>2. CASE PollTick
  BY <1>1, <1>2 DEF PollTick, Probers
<1>3. ASSUME NEW h \in Handlers, AskProbe(h) PROVE TypeOK'
  BY <1>1, <1>3 DEF AskProbe, Serves, Probers
<1>4. ASSUME NEW h \in Handlers, AskRotate(h) PROVE TypeOK'
  <2>1. h \in Probers /\ job[h] = NoJob
    BY <1>4, JobHas DEF AskRotate, Serves, At, Ready, Probers
  <2>2. PICK c \in Configs : job' = [job EXCEPT ![h] = [@ EXCEPT !.pc = "cfg", !.next = c]]
    BY <1>4 DEF AskRotate
  <2> DEFINE j == [NoJob EXCEPT !.pc = "cfg", !.next = c]
  <2>3. j \in JobType /\ Ready(j)
    BY <2>2, ValuesAssumption DEF NoJob, JobType, Ready
  <2>4. job' = [job EXCEPT ![h] = j]
    BY <2>1, <2>2
  <2>5. DriverOnly /\ faults' \in Nat /\ UNCHANGED <<cfg, client, inventory, verdict>>
    BY <1>4, FaultsStay DEF AskRotate
  <2> QED
    BY <2>1, <2>3, <2>4, <2>5, JobStep, DriverStep DEF TypeOK
<1> QED
  BY <1>2, <1>3, <1>4

LEMMA TypeRotates == ASSUME TypeOK, NEW h \in Handlers, Rotates(h) PROVE TypeOK'
<1>0. h \in Probers /\ job[h] \in JobType /\ Ready(job[h])
  BY JobHas DEF Probers
<1>1. CASE UpdateDriver(h)
  <2> DEFINE j == [job[h] EXCEPT !.pc = "client"]
  <2>1. j \in JobType /\ Ready(j) /\ job[h].next \in Configs
    BY <1>0, <1>1 DEF UpdateDriver, At, JobType, Ready
  <2>2. job' = [job EXCEPT ![h] = j]
    BY <1>1 DEF UpdateDriver, Goto
  <2> QED
    BY <1>0, <1>1, <2>1, <2>2, JobStep, DriverStep DEF UpdateDriver, TypeOK
<1>2. CASE UpdateClient(h)
  <2> DEFINE j == [job[h] EXCEPT !.pc = "drop"]
  <2>1. j \in JobType /\ Ready(j) /\ job[h].next \in Configs
    BY <1>0, <1>2 DEF UpdateClient, At, JobType, Ready
  <2>2. job' = [job EXCEPT ![h] = j]
    BY <1>2 DEF UpdateClient, Goto
  <2> QED
    BY <1>0, <1>2, <2>1, <2>2, JobStep, DriverStep DEF UpdateClient, TypeOK
<1>3. CASE InvalidateInventoryCache(h)
  <2> DEFINE j == [job[h] EXCEPT !.pc = IF job[h].next = None THEN "begin" ELSE "reset"]
  <2>1. j \in JobType /\ Ready(j)
    BY <1>0, <1>3 DEF InvalidateInventoryCache, At, JobType, Ready
  <2>2. job' = [job EXCEPT ![h] = j]
    BY <1>3 DEF InvalidateInventoryCache, Goto
  <2> QED
    BY <1>0, <1>3, <2>1, <2>2, JobStep, DriverStep DEF InvalidateInventoryCache, TypeOK
<1>4. CASE ResetConfigWriteStatus(h)
  <2> DEFINE j == [NoJob EXCEPT !.pc = "begin"]
  <2>1. j \in JobType /\ Ready(j)
    BY DEF NoJob, JobType, Ready
  <2>2. job' = [job EXCEPT ![h] = j]
    BY <1>4 DEF ResetConfigWriteStatus
  <2> QED
    BY <1>0, <1>4, <2>1, <2>2, JobStep, DriverStep DEF ResetConfigWriteStatus, TypeOK
<1> QED
  BY <1>1, <1>2, <1>3, <1>4 DEF Rotates

LEMMA TypeProbe == ASSUME TypeOK, NEW p \in Probers, ProbeStep(p) PROVE TypeOK'
<1>0. job[p] \in JobType /\ Ready(job[p]) /\ faults \in Nat /\ cfg \in Configs /\ client \in Configs
      /\ inventory \in SUBSET Configs /\ verdict \in Configs \cup {Failed, None}
  BY JobHas DEF TypeOK
<1> USE <1>0, ValuesAssumption DEF At, JobType
<1>1. CASE ProbeBegins(p)
  <2> DEFINE j == [job[p] EXCEPT !.pc = "info", !.cfg = cfg]
  <2>1. j \in JobType /\ Ready(j)
    BY DEF Ready
  <2> QED
    BY <1>1, <2>1, JobStep, DriverStep DEF ProbeBegins
<1>2. CASE ProbeInfo(p)
  <2> DEFINE j == [job[p] EXCEPT !.pc = "inventory", !.info = client]
  <2>1. j \in JobType /\ Ready(j)
    BY <1>2 DEF ProbeInfo, Ready
  <2>2. DriverOnly /\ UNCHANGED <<cfg, client, inventory, verdict>>
    BY <1>2 DEF ProbeInfo
  <2>3. CASE job' = [job EXCEPT ![p] = j] /\ UNCHANGED faults
    BY <2>1, <2>2, <2>3, JobStep, DriverStep
  <2>4. CASE RequestFails /\ job' = [job EXCEPT ![p] = NoJob]
    BY <2>2, <2>4, Nothing, JobStep, DriverStep, FaultsStay DEF NoJob
  <2> QED
    BY <1>2, <2>3, <2>4 DEF ProbeInfo
<1>3. CASE LookupInventory(p)
  <2>1. PICK j \in JobType : Ready(j) /\ job' = [job EXCEPT ![p] = j]
    <3>1. CASE inventory = {}
      <4> DEFINE j == [job[p] EXCEPT !.pc = "channels"]
      <4>1. j \in JobType /\ Ready(j)
        BY <1>3 DEF LookupInventory, Ready
      <4> QED
        BY <1>3, <3>1, <4>1 DEF LookupInventory, Goto
    <3>2. CASE inventory # {}
      <4> DEFINE j == [job[p] EXCEPT !.pc = "status", !.inventory = inventory]
      <4>1. j \in JobType /\ Ready(j)
        BY <1>3 DEF LookupInventory, Ready
      <4> QED
        BY <1>3, <3>2, <4>1 DEF LookupInventory
    <3> QED
      BY <3>1, <3>2
  <2> QED
    BY <1>3, <2>1, JobStep, DriverStep DEF LookupInventory
<1>4. CASE LoadInventory(p)
  <2>0. job[p].pc \in {"channels", "remote"}
    BY <1>4 DEF LoadInventory, After
  <2>1. PICK j \in JobType : Ready(j) /\ job' = [job EXCEPT ![p] = j]
    <3>1. CASE job' = [job EXCEPT ![p] = Answered(@)]
      <4> DEFINE j == Answered(job[p])
      <4>1. After[job[p].pc] \in {"remote", "cache"}
        BY <2>0 DEF After
      <4>2. j \in JobType /\ Ready(j)
        BY <2>0, <4>1 DEF Ready, Answered
      <4> QED
        BY <3>1, <4>2
    <3>2. CASE At(p, "remote") /\ Goto(p, "cache")
      <4> DEFINE j == [job[p] EXCEPT !.pc = "cache"]
      <4>1. j \in JobType /\ Ready(j)
        BY <3>2 DEF Ready
      <4> QED
        BY <3>2, <4>1 DEF Goto
    <3>3. CASE job' = [job EXCEPT ![p] = [@ EXCEPT !.pc = "status", !.inventory = {}]]
      <4> DEFINE j == [job[p] EXCEPT !.pc = "status", !.inventory = {}]
      <4>1. j \in JobType /\ Ready(j)
        BY <2>0 DEF Ready
      <4> QED
        BY <3>3, <4>1
    <3> QED
      BY <1>4, <3>1, <3>2, <3>3 DEF LoadInventory
  <2>2. DriverOnly /\ UNCHANGED <<cfg, client, inventory, verdict>> /\ faults' \in Nat
    BY <1>4, FaultsStay DEF LoadInventory
  <2> QED
    BY <2>1, <2>2, JobStep, DriverStep
<1>5. CASE CacheInventory(p)
  <2> DEFINE j == [job[p] EXCEPT !.pc = "status"]
  <2>1. j \in JobType /\ Ready(j)
    BY <1>5 DEF CacheInventory, Ready
  <2>2. job' = [job EXCEPT ![p] = j]
    BY <1>5 DEF CacheInventory, Goto
  <2> QED
    BY <1>5, <2>1, <2>2, JobStep, DriverStep DEF CacheInventory
<1>j. ASSUME NEW v \in Configs \cup {Failed}, job[p].pc \in {"status", "judge"}
      PROVE  Judged(job[p], v) \in JobType /\ Ready(Judged(job[p], v))
  BY <1>j, Nothing DEF Judged, Ready, NoJob
<1>6. CASE ConfigWriteStatus(p)
  <2>1. PICK j \in JobType : Ready(j) /\ job' = [job EXCEPT ![p] = j]
    <3>1. CASE verdict = None
      <4> DEFINE j == [job[p] EXCEPT !.pc = "modes"]
      <4>1. j \in JobType /\ Ready(j)
        BY <1>6 DEF ConfigWriteStatus, Ready
      <4> QED
        BY <1>6, <3>1, <4>1 DEF ConfigWriteStatus, Goto
    <3>2. CASE verdict # None
      BY <1>6, <1>j, <3>2 DEF ConfigWriteStatus
    <3> QED
      BY <3>1, <3>2
  <2> QED
    BY <1>6, <2>1, JobStep, DriverStep DEF ConfigWriteStatus
<1>7. CASE LoadRecordModes(p)
  <2>1. PICK v \in {client, Failed} :
               /\ job' = [job EXCEPT ![p] = [@ EXCEPT !.pc = "judge", !.verdict = v]]
               /\ RequestFails \/ UNCHANGED faults
    BY <1>7 DEF LoadRecordModes
  <2> DEFINE j == [job[p] EXCEPT !.pc = "judge", !.verdict = v]
  <2>2. j \in JobType /\ Ready(j)
    BY <1>7, <2>1 DEF LoadRecordModes, Ready
  <2> QED
    BY <1>7, <2>1, <2>2, JobStep, DriverStep, FaultsStay DEF LoadRecordModes
<1>8. CASE CacheVerdict(p)
  <2>1. job[p].verdict \in Configs \cup {Failed}
    BY <1>8 DEF CacheVerdict, Ready
  <2>2. PICK j \in JobType : Ready(j) /\ job' = [job EXCEPT ![p] = j]
    BY <1>8, <1>j, <2>1 DEF CacheVerdict
  <2> QED
    BY <1>8, <2>1, <2>2, JobStep, DriverStep DEF CacheVerdict
<1>9. CASE StoreResult(p)
  <2>1. results' \in Result
    BY <1>9 DEF StoreResult, Ready, Result
  <2>2. job' \in [Probers -> JobType] /\ \A q \in Probers : Ready(job'[q])
    BY <1>9, Nothing, JobStep DEF StoreResult, NoJob
  <2> QED
    BY <1>9, <2>1, <2>2 DEF StoreResult, TypeOK, MarkDirty, fileVars, appVars, Armed
<1> QED
  BY <1>1, <1>2, <1>3, <1>4, <1>5, <1>6, <1>7, <1>8, <1>9 DEF ProbeStep

LEMMA SaveHas == ASSUME TypeOK, NEW s \in Savers PROVE save[s] \in SaveType /\ Armed(s)
BY DEF TypeOK

LEMMA SaveStep ==
  ASSUME TypeOK, NEW s \in Savers, NEW r \in SaveType, save' = [save EXCEPT ![s] = r],
         r.pc \in Holding => r.snap \in Snapshot,
         r.pc = "queued" => r.arg \in IF s = "set" THEN Prefs ELSE Token
  PROVE  save' \in [Savers -> SaveType] /\ (\A x \in Savers : Armed(x))'
BY DEF TypeOK, Armed

\* Steps of a writer leave the driver and the world alone.
LEMMA WriterStep ==
  ASSUME TypeOK, UNCHANGED <<driverVars, results, token, forced, world>>, faults' \in Nat,
         phase' \in Phases, prefs' \in Prefs, kept' \in Token, dirty' \in BOOLEAN,
         changed' \in BOOLEAN, failed' \in BOOLEAN, disk' \in Snapshot,
         save' \in [Savers -> SaveType], (\A x \in Savers : Armed(x))'
  PROVE  TypeOK'
BY DEF TypeOK, driverVars

LEMMA TypeFile ==
  ASSUME TypeOK,
         \/ FlushBegins \/ FlushLocks \/ SetBegins \/ SetLocks \/ Publishes
         \/ \E s \in Savers : FileStep(s)
  PROVE  TypeOK'
<1>0. /\ token \in Token /\ kept \in Token /\ results \in Result \cup {None} /\ prefs \in Prefs
      /\ dirty \in BOOLEAN /\ changed \in BOOLEAN /\ failed \in BOOLEAN /\ disk \in Snapshot
      /\ faults \in Nat /\ phase \in Phases
  BY DEF TypeOK
<1>s. "flush" \in Savers /\ "set" \in Savers
  BY DEF Savers
<1>n. NoSave \in SaveType /\ NoSave.pc = "idle"
  BY DEF NoSave, SaveType, Token
<1> USE <1>0, <1>s DEF Saving, Holding
<1>1. CASE FlushBegins
  <2> DEFINE r == [NoSave EXCEPT !.pc = "queued", !.arg = token]
  <2>1. r \in SaveType /\ r.pc = "queued" /\ r.arg \in Token
    BY DEF NoSave, SaveType, Token
  <2>2. save' \in [Savers -> SaveType] /\ (\A x \in Savers : Armed(x))'
    BY <1>1, <2>1, SaveStep DEF FlushBegins
  <2> QED
    BY <1>1, <2>2, WriterStep DEF FlushBegins, Phases, storeVars
<1>2. CASE FlushLocks
  <2> DEFINE t == save["flush"].arg
             r == [NoSave EXCEPT !.pc = "write",
                                 !.snap = [results |-> results, prefs |-> prefs, token |-> t]]
  <2>1. t \in Token
    BY <1>2, SaveHas DEF FlushLocks, Armed
  <2>2. r \in SaveType /\ r.pc = "write" /\ r.snap \in Snapshot
    BY <2>1, ValuesAssumption DEF NoSave, SaveType, Snapshot, Token
  <2>3. save' = [save EXCEPT !["flush"] = r] \/ save' = [save EXCEPT !["flush"] = NoSave]
    BY <1>2 DEF FlushLocks
  <2>4. save' \in [Savers -> SaveType] /\ (\A x \in Savers : Armed(x))'
    BY <1>n, <2>2, <2>3, SaveStep
  <2> QED
    BY <1>2, <2>4, WriterStep DEF FlushLocks, appVars
<1>3. CASE SetBegins
  <2>1. PICK q \in Prefs : save' = [save EXCEPT !["set"] = [NoSave EXCEPT !.pc = "queued", !.arg = q]]
    BY <1>3 DEF SetBegins
  <2> DEFINE r == [NoSave EXCEPT !.pc = "queued", !.arg = q]
  <2>2. r \in SaveType /\ r.pc = "queued" /\ r.arg \in Prefs
    BY DEF NoSave, SaveType
  <2>3. save' \in [Savers -> SaveType] /\ (\A x \in Savers : Armed(x))'
    BY <2>1, <2>2, SaveStep
  <2> QED
    BY <1>3, <2>3, FaultsStay, WriterStep DEF SetBegins, storeVars, appVars
<1>4. CASE SetLocks
  <2> DEFINE r == [NoSave EXCEPT !.pc = "write",
                     !.snap = [results |-> results, prefs |-> save["set"].arg, token |-> kept]]
  <2>1. save["set"].arg \in Prefs
    BY <1>4, SaveHas DEF SetLocks, Armed
  <2>2. r \in SaveType /\ r.pc = "write" /\ r.snap \in Snapshot
    BY <2>1, ValuesAssumption DEF NoSave, SaveType, Snapshot, Token
  <2>3. save' \in [Savers -> SaveType] /\ (\A x \in Savers : Armed(x))'
    BY <1>4, <2>2, SaveStep DEF SetLocks
  <2> QED
    BY <1>4, <2>3, WriterStep DEF SetLocks, appVars
<1>5. CASE Publishes
  <2>1. save["set"].snap \in Snapshot
    BY <1>5, SaveHas DEF Publishes, Armed, SaveType
  <2>2. save' \in [Savers -> SaveType] /\ (\A x \in Savers : Armed(x))'
    BY <1>5, <1>n, SaveStep DEF Publishes, Ends
  <2> QED
    BY <1>5, <2>1, <2>2, WriterStep DEF Publishes, MarkDirty, Snapshot, appVars
<1>6. ASSUME NEW s \in Savers, FileStep(s) PROVE TypeOK'
  <2>0. save[s] \in SaveType /\ Armed(s)
    BY SaveHas
  <2>1. CASE WritesFile(s)
    <3> DEFINE r == [save[s] EXCEPT !.pc = "mark"]
    <3>1. r \in SaveType /\ r.pc = "mark" /\ r.snap \in Snapshot /\ save[s].snap \in Snapshot
      BY <2>0, <2>1 DEF WritesFile, Armed, SaveType
    <3>2. save' = [save EXCEPT ![s] = r]
      BY <2>1 DEF WritesFile
    <3>3. save' \in [Savers -> SaveType] /\ (\A x \in Savers : Armed(x))'
      BY <3>1, <3>2, SaveStep
    <3> QED
      BY <2>1, <3>1, <3>3, WriterStep DEF WritesFile, storeVars, appVars
  <2>2. CASE WriteFails(s)
    <3>1. save' \in [Savers -> SaveType] /\ (\A x \in Savers : Armed(x))'
      BY <1>n, <2>2, SaveStep DEF WriteFails, AfterError, Ends
    <3> QED
      BY <2>2, <3>1, FaultsStay, WriterStep DEF WriteFails, storeVars, appVars
  <2>3. CASE MarksClean(s)
    <3> DEFINE r == [save[s] EXCEPT !.pc = "publish"]
    <3>1. r \in SaveType /\ r.pc = "publish" /\ r.snap \in Snapshot /\ save[s].snap \in Snapshot
      BY <2>0, <2>3 DEF MarksClean, Armed, SaveType
    <3>2. save' = [save EXCEPT ![s] = r] \/ save' = [save EXCEPT ![s] = NoSave]
      BY <2>3 DEF MarksClean, Ends
    <3>3. save' \in [Savers -> SaveType] /\ (\A x \in Savers : Armed(x))'
      BY <1>n, <3>1, <3>2, SaveStep
    <3> QED
      BY <2>3, <3>1, <3>3, WriterStep DEF MarksClean, Snapshot, appVars
  <2> QED
    BY <1>6, <2>1, <2>2, <2>3 DEF FileStep
<1> QED
  BY <1>1, <1>2, <1>3, <1>4, <1>5, <1>6

\* What is left: the caches' age, the device, the cloud and the end of the process.
LEMMA TypeRest ==
  ASSUME TypeOK, VerdictExpires \/ InventoryExpires \/ Event \/ TokenRefresh \/ Shutdown
  PROVE  TypeOK'
<1>1. CASE VerdictExpires \/ InventoryExpires
  BY <1>1, DriverStep DEF VerdictExpires, InventoryExpires, TypeOK
<1>2. CASE Event
  <2>1. results' \in Result
    BY <1>2 DEF Event, TypeOK, Result
  <2> QED
    BY <1>2, <2>1, FaultsStay DEF Event, MarkDirty, TypeOK, driverVars, fileVars, appVars, Armed
<1>3. CASE TokenRefresh
  BY <1>3, FaultsStay DEF TokenRefresh, TypeOK, driverVars, storeVars, fileVars, Armed, Token
<1>4. CASE Shutdown
  BY <1>4 DEF Shutdown, Stop, ServerStops, LoopsJoin, Exits, RequestsLeft, Busy, At, Saving,
    TypeOK, Phases, driverVars, storeVars, fileVars, Armed
<1> QED
  BY <1>1, <1>2, <1>3, <1>4

LEMMA TypeNext == TypeOK /\ [Next]_vars => TypeOK'
<1> SUFFICES ASSUME TypeOK, [Next]_vars PROVE TypeOK'
  OBVIOUS
<1>1. CASE Crash \/ Restart
  BY <1>1, TypeFresh, FaultsStay DEF Crash, Restart
<1>2. CASE UNCHANGED vars
  BY <1>2 DEF vars, driverVars, storeVars, fileVars, appVars, TypeOK, Armed
<1> QED
  BY <1>1, <1>2, TypeAsk, TypeRotates, TypeProbe, TypeFile, TypeRest
  DEF Next, HandlerStep, Locks

\* The caches, the store, the file and what a step carries to the next are what driver.go and
\* store.go say they are, and no step uses what an earlier one has not read.
THEOREM TypeCorrect == Spec => []TypeOK
<1>1. Init => TypeOK
  BY TypeInit
<1>2. TypeOK /\ [Next]_vars => TypeOK'
  BY TypeNext
<1> QED
  BY <1>1, <1>2, PTL DEF Spec
-----------------------------------------------------------------------------
(* The state file. *)

LEMMA FileInit == Init => FileInv
<1> SUFFICES ASSUME Init PROVE FileInv
  OBVIOUS
<1>1. \A s \in Savers : save[s].pc = "idle"
  BY Nothing DEF Init
<1> QED
  BY <1>1 DEF Init, FileInv, OneWriter, Written, Current, Noticed, Carried, CleanIsSaved,
    PublishedIsDurable, Holds, Holding, Savers, Saving

LEMMA FileFresh == Fresh => FileInv'
<1> SUFFICES ASSUME Fresh PROVE FileInv'
  OBVIOUS
<1>1. \A s \in Savers : save'[s].pc = "idle"
  BY Nothing DEF Fresh
<1> QED
  BY <1>1 DEF Fresh, FileInv, OneWriter, Written, Current, Noticed, Carried, CleanIsSaved,
    PublishedIsDurable, Holds, Holding, Savers, Saving

\* A new result only ever makes the store dirty.
LEMMA FileResult ==
  ASSUME FileInv, MarkDirty, UNCHANGED <<prefs, kept, save, disk>> PROVE FileInv'
BY DEF FileInv, OneWriter, Written, Current, Noticed, Carried, CleanIsSaved,
    PublishedIsDurable, Holds, Holding, Saving, MarkDirty

LEMMA FileStays == ASSUME FileInv, UNCHANGED <<storeVars, save, disk>> PROVE FileInv'
BY DEF FileInv, OneWriter, Written, Current, Noticed, Carried, CleanIsSaved,
    PublishedIsDurable, Holds, Holding, Saving, storeVars

\* The writers, each with or without the lock.
LEMMA FileWriter ==
  ASSUME TypeOK, FileInv,
         \/ FlushBegins \/ FlushLocks \/ SetBegins \/ SetLocks \/ Publishes
         \/ \E s \in Savers : FileStep(s)
  PROVE  FileInv'
<1>0. save \in [Savers -> SaveType] /\ dirty \in BOOLEAN /\ changed \in BOOLEAN
  BY DEF TypeOK
<1>s. \A s : s \in Savers <=> s = "flush" \/ s = "set"
  BY DEF Savers
<1>n. NoSave.pc = "idle"
  BY DEF NoSave
<1>i. OneWriter /\ Written /\ Current /\ Noticed /\ Carried /\ CleanIsSaved /\ PublishedIsDurable
  BY DEF FileInv
<1> USE <1>0, <1>s, <1>n DEF Saving, Holding, Holds
\* A writer that begins to wait is no writer yet.
<1>1. ASSUME NEW s \in Savers, NEW r, save' = [save EXCEPT ![s] = r], r.pc \notin Holding,
             save[s].pc \notin Holding, UNCHANGED <<storeVars, disk>>
      PROVE  FileInv'
  <2>1. \A t \in Savers : \/ save'[t] = save[t]
                          \/ t = s /\ save'[t].pc \notin Holding
    BY <1>1
  <2>2. \A t \in Savers : save'[t].pc \in Holding => save'[t] = save[t]
    BY <2>1
  <2>3. \A t \in Savers : save[t].pc \in Holding => save'[t] = save[t]
    BY <1>1
  <2>4. UNCHANGED <<results, prefs, kept, dirty, changed, disk>>
    BY <1>1 DEF storeVars
  <2>5. (OneWriter /\ Written /\ Current /\ Noticed /\ Carried)'
    BY <1>i, <2>2, <2>4 DEF OneWriter, Written, Current, Noticed, Carried
  <2>6. (CleanIsSaved /\ PublishedIsDurable)'
    BY <1>i, <2>3, <2>4 DEF CleanIsSaved, PublishedIsDurable
  <2> QED
    BY <2>5, <2>6 DEF FileInv
<1>2. CASE FlushBegins
  <2>1. [NoSave EXCEPT !.pc = "queued", !.arg = token].pc = "queued"
    BY DEF NoSave
  <2> QED
    BY <1>1, <1>2, <2>1 DEF FlushBegins
<1>3. CASE SetBegins
  <2>1. PICK q \in Prefs : save' = [save EXCEPT !["set"] = [NoSave EXCEPT !.pc = "queued", !.arg = q]]
    BY <1>3 DEF SetBegins
  <2>2. [NoSave EXCEPT !.pc = "queued", !.arg = q].pc = "queued"
    BY DEF NoSave
  <2> QED
    BY <1>1, <1>3, <2>1, <2>2 DEF SetBegins
\* With the lock free, the file has what is published and what is clean.
<1>4. ASSUME Free, ~dirty PROVE disk.results = results /\ disk.token = kept
  BY <1>4, <1>i DEF Free, CleanIsSaved
<1>5. ASSUME Free PROVE prefs = disk.prefs
  BY <1>5, <1>i DEF Free, PublishedIsDurable
<1>6. CASE FlushLocks
  <2> DEFINE r == [NoSave EXCEPT !.pc = "write",
                     !.snap = [results |-> results, prefs |-> prefs, token |-> save["flush"].arg]]
  <2>0. r.pc = "write" /\ r.snap = [results |-> results, prefs |-> prefs, token |-> save["flush"].arg]
    BY DEF NoSave
  <2> HIDE DEF r
  <2>1. save' = [save EXCEPT !["flush"] = r] \/ save' = [save EXCEPT !["flush"] = NoSave]
    BY <1>6 DEF FlushLocks, r
  <2>2. Free /\ changed' = FALSE /\ UNCHANGED <<results, prefs, kept, dirty, disk>>
    BY <1>6 DEF FlushLocks
  <2>3. \A t \in Savers : save'[t].pc \in Holding => t = "flush" /\ save'[t] = r
    BY <2>1, <2>2 DEF Free
  <2>4. (OneWriter /\ Written /\ Current /\ Noticed /\ Carried)'
    BY <2>0, <2>2, <2>3 DEF OneWriter, Written, Current, Noticed, Carried
  <2>5. (CleanIsSaved /\ PublishedIsDurable)'
    BY <1>4, <1>5, <2>2 DEF CleanIsSaved, PublishedIsDurable
  <2> QED
    BY <2>4, <2>5 DEF FileInv
<1>7. CASE SetLocks
  <2> DEFINE r == [NoSave EXCEPT !.pc = "write",
                     !.snap = [results |-> results, prefs |-> save["set"].arg, token |-> kept]]
  <2>0. r.pc = "write" /\ r.snap = [results |-> results, prefs |-> save["set"].arg, token |-> kept]
    BY DEF NoSave
  <2> HIDE DEF r
  <2>1. save' = [save EXCEPT !["set"] = r]
    BY <1>7 DEF SetLocks, r
  <2>2. Free /\ changed' = FALSE /\ UNCHANGED <<results, prefs, kept, dirty, disk>>
    BY <1>7 DEF SetLocks
  <2>3. \A t \in Savers : save'[t].pc \in Holding => t = "set" /\ save'[t] = r
    BY <2>1, <2>2 DEF Free
  <2>4. (OneWriter /\ Written /\ Current /\ Noticed /\ Carried)'
    BY <2>0, <2>2, <2>3 DEF OneWriter, Written, Current, Noticed, Carried
  <2>5. (CleanIsSaved /\ PublishedIsDurable)'
    BY <1>4, <1>5, <2>2 DEF CleanIsSaved, PublishedIsDurable
  <2> QED
    BY <2>4, <2>5 DEF FileInv
\* The writer with the lock is the only one.
<1>8. ASSUME NEW s \in Savers, save[s].pc \in Holding, NEW r, save' = [save EXCEPT ![s] = r]
      PROVE  \A t \in Savers : save'[t].pc \in Holding => t = s /\ save'[t] = r
  BY <1>8, <1>i DEF OneWriter
<1>9. CASE Publishes
  <2>1. \A t \in Savers : save'[t].pc \notin Holding
    BY <1>8, <1>9 DEF Publishes, Ends
  <2>2. dirty' /\ prefs' = disk'.prefs
    BY <1>9, <1>i DEF Publishes, MarkDirty, Written
  <2> QED
    BY <2>1, <2>2 DEF FileInv, OneWriter, Written, Current, Noticed, Carried, CleanIsSaved,
      PublishedIsDurable
<1>10. ASSUME NEW s \in Savers, WritesFile(s) PROVE FileInv'
  <2> DEFINE r == [save[s] EXCEPT !.pc = "mark"]
  <2>0. save[s] \in SaveType
    OBVIOUS
  <2>1. save[s].pc = "write" /\ save' = [save EXCEPT ![s] = r] /\ disk' = r.snap
        /\ r.pc = "mark" /\ r.snap = save[s].snap /\ UNCHANGED storeVars
    BY <1>10, <2>0 DEF WritesFile, SaveType
  <2>2. \A t \in Savers : save'[t].pc \in Holding => t = s /\ save'[t] = r
    BY <1>8, <2>1
  <2>3. save'[s].pc = "mark"
    BY <2>1
  <2>4. changed \/ r.snap.results = results
    BY <1>i, <2>1 DEF Current
  <2>5. s = "flush" => r.snap.prefs = prefs
    BY <1>i, <2>1 DEF Carried
  <2>6. (OneWriter /\ Written /\ Current /\ Noticed /\ Carried)'
    BY <1>i, <2>1, <2>2, <2>4, <2>5
    DEF OneWriter, Written, Current, Noticed, Carried, storeVars
  <2>7. (CleanIsSaved /\ PublishedIsDurable)'
    BY <1>i, <2>1, <2>3, <2>4, <2>5 DEF Noticed, CleanIsSaved, PublishedIsDurable, storeVars
  <2> QED
    BY <2>6, <2>7 DEF FileInv
<1>11. ASSUME NEW s \in Savers, WriteFails(s) PROVE FileInv'
  <2>1. save[s].pc = "write" /\ save' = [save EXCEPT ![s] = NoSave] /\ UNCHANGED <<storeVars, disk>>
    BY <1>11 DEF WriteFails, AfterError, Ends
  <2>2. \A t \in Savers : save[t].pc \notin {"mark", "publish"}
    BY <1>i, <2>1 DEF OneWriter
  <2>3. \A t \in Savers : save'[t].pc \notin Holding
    <3>1. \A t \in Savers : save'[t].pc \in Holding => t = s /\ save'[t] = NoSave
      BY <1>8, <2>1
    <3> QED
      BY <3>1
  <2> QED
    BY <1>i, <2>1, <2>2, <2>3 DEF FileInv, OneWriter, Written, Current, Noticed, Carried, CleanIsSaved,
      PublishedIsDurable, storeVars
<1>12. ASSUME NEW s \in Savers, MarksClean(s) PROVE FileInv'
  <2> DEFINE r == IF s = "set" THEN [save[s] EXCEPT !.pc = "publish"] ELSE NoSave
  <2>0. save[s] \in SaveType
    OBVIOUS
  <2>1. save[s].pc = "mark" /\ save' = [save EXCEPT ![s] = r] /\ UNCHANGED <<results, prefs, changed, disk>>
    BY <1>12 DEF MarksClean, Ends
  <2>2. dirty' = (dirty /\ changed) /\ kept' = IF changed THEN kept ELSE save[s].snap.token
    BY <1>12 DEF MarksClean, Covered
  <2>3. \A t \in Savers : save'[t].pc \in Holding => t = s /\ save'[t] = r
    <3> HIDE DEF r
    <3>1. save[s].pc \in Holding
      BY <2>1
    <3> QED
      BY <1>8, <2>1, <3>1
  <2>4. disk = save[s].snap /\ (changed \/ disk.results = results)
    BY <1>i, <2>1 DEF Written, Current
  <2>5. s = "set" => r.pc = "publish" /\ r.snap = save[s].snap
    BY <2>0 DEF SaveType
  <2>6. s = "flush" => r.pc = "idle" /\ disk.prefs = prefs
    BY <1>i, <2>1, <2>4 DEF Carried
  <2>7. (OneWriter /\ Written /\ Current /\ Noticed /\ Carried)'
    BY <1>i, <2>1, <2>2, <2>3, <2>4, <2>5, <2>6 DEF OneWriter, Written, Current, Noticed, Carried
  <2>8. CleanIsSaved'
    BY <1>i, <2>1, <2>2, <2>4 DEF Noticed, CleanIsSaved
  <2>9. PublishedIsDurable'
    BY <2>1, <2>5, <2>6 DEF PublishedIsDurable
  <2> QED
    BY <2>7, <2>8, <2>9 DEF FileInv
<1> QED
  BY <1>2, <1>3, <1>6, <1>7, <1>9, <1>10, <1>11, <1>12 DEF FileStep

LEMMA FileNext == TypeOK /\ FileInv /\ [Next]_vars => FileInv'
<1> SUFFICES ASSUME TypeOK, FileInv, [Next]_vars PROVE FileInv'
  OBVIOUS
<1> USE DEF DriverOnly, fileVars
<1>1. CASE Crash \/ Restart
  BY <1>1, FileFresh DEF Crash, Restart
<1>2. ASSUME NEW p \in Probers, ProbeStep(p) PROVE FileInv'
  <2>1. CASE StoreResult(p)
    BY <2>1, FileResult DEF StoreResult
  <2> QED
    BY <1>2, <2>1, FileStays DEF ProbeStep, ProbeBegins, ProbeInfo, LookupInventory, LoadInventory,
      CacheInventory, ConfigWriteStatus, LoadRecordModes, CacheVerdict
<1>3. ASSUME NEW h \in Handlers, HandlerStep(h) PROVE FileInv'
  BY <1>3, FileStays DEF HandlerStep, AskProbe, AskRotate, Rotates, UpdateDriver, UpdateClient,
    InvalidateInventoryCache, ResetConfigWriteStatus
<1>4. CASE PollTick \/ VerdictExpires \/ InventoryExpires \/ TokenRefresh
  BY <1>4, FileStays DEF PollTick, VerdictExpires, InventoryExpires, TokenRefresh
<1>5. CASE Event
  BY <1>5, FileResult DEF Event
<1>6. CASE Shutdown \/ UNCHANGED vars
  BY <1>6, FileStays DEF Shutdown, Stop, ServerStops, LoopsJoin, Exits, vars
<1> QED
  BY <1>1, <1>2, <1>3, <1>4, <1>5, <1>6, FileWriter DEF Next, Locks

LEMMA FileInvariant == Spec => []FileInv
<1>1. Init => TypeOK /\ FileInv
  BY TypeInit, FileInit
<1>2. TypeOK /\ FileInv /\ [Next]_vars => (TypeOK /\ FileInv)'
  BY TypeNext, FileNext
<1> QED
  BY <1>1, <1>2, PTL DEF Spec

\* A store that counts as clean is on file, whatever arrives while either writer writes: the
\* periodic flush may skip its write (store.go:139-142).
THEOREM CleanStoreIsOnFile == Spec => []CleanIsSaved
BY FileInvariant, PTL DEF FileInv

\* Readers never see a preference that a restart would lose, unless a newer one has just been
\* written (store/live_source.go:22-23).
THEOREM PublishedPreferencesAreOnFile == Spec => []PublishedIsDurable
BY FileInvariant, PTL DEF FileInv
-----------------------------------------------------------------------------
(* The shutdown. *)

Now == [results |-> results, prefs |-> prefs, token |-> token]
Leaving == phase \in {"final", "flushing", "exited"}

\* Whoever has been waited for does nothing any more.
Quiet ==
    /\ phase \notin {"up", "stopping"} /\ ~forced => ~RequestsLeft
    /\ Leaving => At("poll", "idle")
    /\ phase \in {"final", "exited"} => Saving("flush", "idle")

\* So the last flush carries what there is.
LastFlush ==
    phase = "flushing" /\ ~forced =>
        /\ Saving("flush", "queued") => save["flush"].arg = token
        /\ save["flush"].pc \in {"write", "mark"} => save["flush"].snap = Now
        /\ Saving("flush", "idle") /\ ~failed => disk = Now

ExitInv == Quiet /\ LastFlush /\ ExitSaves

LEMMA ExitInit == Init => ExitInv
BY DEF Init, Fresh, ExitInv, Quiet, LastFlush, ExitSaves, Leaving

\* A step of a request comes before the server stops, or after it gave up waiting.
LEMMA ExitRequest ==
  ASSUME ExitInv, phase \in {"up", "stopping"} \/ forced,
         UNCHANGED <<phase, forced, job["poll"], save["flush"]>>
  PROVE  ExitInv'
BY DEF ExitInv, Quiet, LastFlush, ExitSaves, Leaving, At, Saving

\* A step of the loops comes before they are joined.
LEMMA ExitLoop ==
  ASSUME ExitInv, ~Leaving, UNCHANGED <<phase, forced, save["set"]>>,
         \A h \in Handlers : UNCHANGED job[h]
  PROVE  ExitInv'
BY DEF ExitInv, Quiet, LastFlush, ExitSaves, Leaving, RequestsLeft, Busy, At, Saving

LEMMA ExitStays ==
  ASSUME ExitInv, UNCHANGED <<appVars, job, storeVars, fileVars>>
  PROVE  ExitInv'
BY DEF ExitInv, Quiet, LastFlush, ExitSaves, Leaving, RequestsLeft, Busy, At, Saving, Now,
    appVars, storeVars, fileVars

LEMMA OthersStay ==
  ASSUME TypeOK, NEW p \in Probers,
         ProbeStep(p) \/ AskProbe(p) \/ AskRotate(p) \/ Rotates(p) \/ (p = "poll" /\ PollTick)
  PROVE  /\ \A q \in Probers \ {p} : UNCHANGED job[q]
         /\ UNCHANGED <<appVars, save>>
<1>0. job \in [Probers -> JobType]
  BY DEF TypeOK
<1> USE <1>0 DEF Goto, DriverOnly, fileVars
<1>1. CASE AskProbe(p) \/ (p = "poll" /\ PollTick)
  BY <1>1 DEF AskProbe, PollTick
<1>2. CASE AskRotate(p)
  BY <1>2 DEF AskRotate
<1>3. CASE Rotates(p)
  BY <1>3 DEF Rotates, UpdateDriver, UpdateClient, InvalidateInventoryCache, ResetConfigWriteStatus
<1>4. CASE ProbeBegins(p) \/ ProbeInfo(p) \/ LookupInventory(p)
  BY <1>4 DEF ProbeBegins, ProbeInfo, LookupInventory
<1>5. CASE LoadInventory(p) \/ CacheInventory(p)
  BY <1>5 DEF LoadInventory, CacheInventory
<1>6. CASE ConfigWriteStatus(p) \/ LoadRecordModes(p) \/ CacheVerdict(p)
  BY <1>6 DEF ConfigWriteStatus, LoadRecordModes, CacheVerdict
<1>7. CASE StoreResult(p)
  BY <1>7 DEF StoreResult
<1> QED
  BY <1>1, <1>2, <1>3, <1>4, <1>5, <1>6, <1>7 DEF ProbeStep

LEMMA ExitHandler ==
  ASSUME TypeOK, ExitInv, NEW h \in Handlers, HandlerStep(h) \/ ProbeStep(h)
  PROVE  ExitInv'
<1>0. h \in Probers /\ "poll" \in Probers /\ h # "poll"
  BY ValuesAssumption DEF Probers
<1>1. UNCHANGED <<phase, forced, job["poll"], save["flush"]>>
  BY <1>0, OthersStay DEF HandlerStep, appVars
<1>2. Busy(h) \/ phase \in {"up", "stopping"}
  <2>1. CASE AskProbe(h) \/ AskRotate(h)
    BY <2>1 DEF AskProbe, AskRotate, Serves
  <2>2. CASE Rotates(h)
    BY <2>2 DEF Rotates, UpdateDriver, UpdateClient, InvalidateInventoryCache,
      ResetConfigWriteStatus, Busy, At
  <2>3. CASE ProbeStep(h)
    BY <2>3 DEF ProbeStep, ProbeBegins, ProbeInfo, LookupInventory, LoadInventory, CacheInventory,
      ConfigWriteStatus, LoadRecordModes, CacheVerdict, StoreResult, After, Busy, At
  <2> QED
    BY <2>1, <2>2, <2>3 DEF HandlerStep
<1>3. phase \in {"up", "stopping"} \/ forced
  BY <1>2 DEF ExitInv, Quiet, RequestsLeft
<1> QED
  BY <1>1, <1>3, ExitRequest

LEMMA ExitPoll == ASSUME TypeOK, ExitInv, PollTick \/ ProbeStep("poll") PROVE ExitInv'
<1>0. "poll" \in Probers /\ \A h \in Handlers : h \in Probers \ {"poll"}
  BY ValuesAssumption DEF Probers
<1>1. UNCHANGED <<phase, forced, save["set"]>> /\ \A h \in Handlers : UNCHANGED job[h]
  BY <1>0, OthersStay DEF appVars
<1>2. ~Leaving
  <2>1. CASE PollTick
    BY <2>1 DEF PollTick, Leaving
  <2>2. CASE ProbeStep("poll")
    BY <2>2 DEF ProbeStep, ProbeBegins, ProbeInfo, LookupInventory, LoadInventory, CacheInventory,
      ConfigWriteStatus, LoadRecordModes, CacheVerdict, StoreResult, After, At, ExitInv, Quiet
  <2> QED
    BY <2>1, <2>2
<1> QED
  BY <1>1, <1>2, ExitLoop

LEMMA ExitSet ==
  ASSUME TypeOK, ExitInv, SetBegins \/ SetLocks \/ Publishes \/ FileStep("set")
  PROVE  ExitInv'
<1>1. UNCHANGED <<phase, forced, job["poll"], save["flush"]>>
  BY DEF SetBegins, SetLocks, Publishes, FileStep, WritesFile, WriteFails, AfterError, MarksClean,
    Ends, TypeOK, Savers, driverVars, appVars
<1>2. phase \in {"up", "stopping"} \/ ~Saving("set", "idle")
  BY DEF SetBegins, SetLocks, Publishes, FileStep, WritesFile, WriteFails, MarksClean, Saving
<1>3. phase \in {"up", "stopping"} \/ forced
  BY <1>2 DEF ExitInv, Quiet, RequestsLeft
<1> QED
  BY <1>1, <1>3, ExitRequest

LEMMA ExitFlush ==
  ASSUME TypeOK, FileInv, ExitInv, FlushBegins \/ FlushLocks \/ FileStep("flush")
  PROVE  ExitInv'
<1>0. /\ save \in [Savers -> SaveType] /\ "flush" \in Savers /\ "set" \in Savers
      /\ save["flush"] \in SaveType /\ failed \in BOOLEAN
  BY DEF TypeOK, Savers
<1>n. NoSave.pc = "idle"
  BY DEF NoSave
<1>i. Quiet /\ LastFlush /\ ExitSaves
  BY DEF ExitInv
<1>1. UNCHANGED <<save["set"], job, results, prefs, token, forced, world>> /\ RequestsLeft' = RequestsLeft
  BY <1>0 DEF FlushBegins, FlushLocks, FileStep, WritesFile, WriteFails, AfterError, MarksClean, Ends,
    driverVars, storeVars, appVars, RequestsLeft, Busy, At, Saving
<1>2. CASE FlushBegins
  <2> DEFINE r == [NoSave EXCEPT !.pc = "queued", !.arg = token]
  <2>1. r.pc = "queued" /\ r.arg = token
    BY DEF NoSave
  <2>2. save'["flush"] = r
    BY <1>0, <1>2 DEF FlushBegins
  <2>3. phase \in {"up", "stopping", "joining", "final"}
        /\ phase' = IF phase = "final" THEN "flushing" ELSE phase
    BY <1>2 DEF FlushBegins
  <2> QED
    BY <1>1, <1>i, <2>1, <2>2, <2>3 DEF ExitInv, Quiet, LastFlush, ExitSaves, Leaving, At, Saving
<1>3. CASE FlushLocks
  <2> DEFINE t == save["flush"].arg
             r == [NoSave EXCEPT !.pc = "write",
                     !.snap = [results |-> results, prefs |-> prefs, token |-> t]]
  <2>0. r.pc = "write" /\ r.snap = [results |-> results, prefs |-> prefs, token |-> t]
    BY DEF NoSave
  <2>1. Saving("flush", "queued") /\ Free /\ UNCHANGED <<phase, disk>>
        /\ save'["flush"] = IF Unsaved(t) THEN r ELSE NoSave
    BY <1>0, <1>3 DEF FlushLocks, appVars
  <2> HIDE DEF r
  <2>2. ASSUME ~Unsaved(t), t = token PROVE disk = Now
    <3>1. disk.results = results /\ disk.token = token
      BY <2>1, <2>2 DEF Unsaved, FileInv, CleanIsSaved, Free, Holding, Saving
    <3>2. disk.prefs = prefs
      BY <2>1 DEF FileInv, PublishedIsDurable, Free, Holding, Savers
    <3>3. disk \in Snapshot
      BY DEF TypeOK
    <3> QED
      BY <3>1, <3>2, <3>3 DEF Snapshot, Now
  <2>3. Now' = Now
    BY <1>1 DEF Now
  <2>4. t = token => r.snap = Now
    BY <2>0 DEF Now
  <2>5. LastFlush'
    BY <1>1, <1>n, <1>i, <2>0, <2>1, <2>2, <2>3, <2>4 DEF LastFlush, Saving
  <2>6. phase \notin {"final", "exited"}
    BY <1>i, <2>1 DEF Quiet, Saving
  <2> QED
    BY <1>1, <1>i, <2>1, <2>5, <2>6 DEF ExitInv, Quiet, ExitSaves, Leaving, At
<1>4. CASE FileStep("flush")
  <2>1. save["flush"].pc \in {"write", "mark"} /\ UNCHANGED phase
    BY <1>4 DEF FileStep, WritesFile, WriteFails, MarksClean, Saving, appVars
  <2>2. Now' = Now
    BY <1>1 DEF Now
  <2>3. phase \notin {"final", "exited"}
    BY <1>i, <2>1 DEF Quiet, Saving
  <2>4. phase = "flushing" /\ ~forced => save["flush"].snap = Now
    BY <1>i, <2>1 DEF LastFlush
  <2>5. LastFlush'
    <3>1. CASE WritesFile("flush")
      <4> DEFINE r == [save["flush"] EXCEPT !.pc = "mark"]
      <4>1. save'["flush"] = r
        BY <1>0, <3>1 DEF WritesFile
      <4>2. r.pc = "mark" /\ r.snap = save["flush"].snap
        BY <1>0 DEF SaveType
      <4> QED
        BY <1>1, <2>1, <2>2, <2>4, <4>1, <4>2 DEF LastFlush, Saving
    <3>2. CASE WriteFails("flush")
      <4>1. save'["flush"] = NoSave /\ failed'
        BY <1>0, <3>2 DEF WriteFails, AfterError, Ends
      <4> QED
        BY <1>n, <4>1 DEF LastFlush, Saving
    <3>3. CASE MarksClean("flush")
      <4>1. save'["flush"] = NoSave /\ disk' = save["flush"].snap
        BY <1>0, <3>3 DEF MarksClean, Ends, FileInv, Written, Saving
      <4> QED
        BY <1>1, <1>n, <2>1, <2>2, <2>4, <4>1 DEF LastFlush, Saving
    <3> QED
      BY <1>4, <3>1, <3>2, <3>3 DEF FileStep
  <2> QED
    BY <1>1, <1>i, <2>1, <2>3, <2>5 DEF ExitInv, Quiet, ExitSaves, Leaving, At
<1> QED
  BY <1>2, <1>3, <1>4

LEMMA ExitShutdown == ASSUME TypeOK, ExitInv, Shutdown PROVE ExitInv'
<1>0. UNCHANGED <<job, save, disk, failed, results, prefs, token, world>> /\ RequestsLeft' = RequestsLeft
      /\ phase \in Phases
  BY DEF TypeOK, Shutdown, Stop, ServerStops, LoopsJoin, Exits, driverVars, storeVars, fileVars,
    RequestsLeft, Busy, At, Saving
<1>1. CASE Stop \/ ServerStops
  BY <1>0, <1>1 DEF Stop, ServerStops, ExitInv, Quiet, LastFlush, ExitSaves, Leaving
<1>2. CASE LoopsJoin
  BY <1>0, <1>2 DEF LoopsJoin, Joined, ExitInv, Quiet, LastFlush, ExitSaves, Leaving, At, Saving
<1>3. CASE Exits
  BY <1>0, <1>3 DEF Exits, ExitInv, Quiet, LastFlush, ExitSaves, Leaving, At, Saving, Now
<1> QED
  BY <1>1, <1>2, <1>3 DEF Shutdown

LEMMA ExitNext == TypeOK /\ FileInv /\ ExitInv /\ [Next]_vars => ExitInv'
<1> SUFFICES ASSUME TypeOK, FileInv, ExitInv, [Next]_vars PROVE ExitInv'
  OBVIOUS
<1>1. CASE Crash \/ Restart
  BY <1>1 DEF Crash, Restart, Fresh, ExitInv, Quiet, LastFlush, ExitSaves, Leaving
<1>2. CASE Event \/ TokenRefresh
  <2>1. UNCHANGED <<phase, forced, job, save>> /\ ~Leaving
    BY <1>2 DEF Event, TokenRefresh, driverVars, fileVars, appVars, Leaving
  <2> QED
    BY <2>1, ExitLoop
<1>3. CASE VerdictExpires \/ InventoryExpires \/ UNCHANGED vars
  BY <1>3, ExitStays DEF VerdictExpires, InventoryExpires, DriverOnly, vars, driverVars
<1>4. ASSUME NEW p \in Probers, ProbeStep(p) PROVE ExitInv'
  BY <1>4, ExitPoll, ExitHandler DEF Probers
<1>5. ASSUME NEW s \in Savers, FileStep(s) PROVE ExitInv'
  BY <1>5, ExitSet, ExitFlush DEF Savers
<1> QED
  BY <1>1, <1>2, <1>3, <1>4, <1>5, ExitPoll, ExitHandler, ExitSet, ExitFlush, ExitShutdown
  DEF Next, Locks

\* A shutdown whose requests ended in time and whose last flush succeeded leaves everything the
\* loops and the requests have stored on file (app.go:63-88).
THEOREM ShutdownSaves == Spec => []ExitSaves
<1>1. Init => TypeOK /\ FileInv /\ ExitInv
  BY TypeInit, FileInit, ExitInit
<1>2. TypeOK /\ FileInv /\ ExitInv /\ [Next]_vars => (TypeOK /\ FileInv /\ ExitInv)'
  BY TypeNext, FileNext, ExitNext
<1>3. ExitInv => ExitSaves
  BY DEF ExitInv
<1> QED
  BY <1>1, <1>2, <1>3, PTL DEF Spec
=============================================================================
