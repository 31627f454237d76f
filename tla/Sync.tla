------------------------------- MODULE Sync ---------------------------------
(***************************************************************************)
(* The pull synchronisation from the Pi to the PC: the request handlers of *)
(* api-service that read and write the sync state file, pull the exports   *)
(* of scraper-service and upsert them into the PC's database.              *)
(*                                                                         *)
(* Every request is served by a thread of its own with its own             *)
(* ScrapeControlService and SyncStateStore, so the lock of the store       *)
(* excludes nobody: the file is the shared variable and a request works on *)
(* the copy it loaded.                                                     *)
(*                                                                         *)
(* A definition marked "Fault" is a plausible bug in the definition that   *)
(* follows it; no specification uses it.                                   *)
(***************************************************************************)
EXTENDS DiffKeys, FiniteSets

CONSTANTS
  Req,           \* threads serving POST /scrape/sync, /sync/scheduled, /sync/schedule
  Batch,         \* the batches the Pi may export (DiffKeys)
  MaxPayload,    \* bound: payloads 1..MaxPayload of a batch, 0 is "none yet"
  CapturedOnce,  \* bound: the batches that get no second payload
  MaxDay,        \* bound: JST days 0..MaxDay of the run
  Schedules,     \* the [enabled, interval_days, diff_enabled] a user may post
  DefaultSchedule, \* SyncSchedule()
  None,          \* no fingerprint; last_synced_at = None
  OverlappingSyncs,  \* may two synchronisations be in flight at once?
  OverlappingSaves,  \* may a schedule update or a skipped run overlap another request?
  MayCrash,      \* may the api process die between two steps?
  OldScraper     \* may the Pi run a scraper without the race-cards export?

Payload == 0 .. MaxPayload
Day == 0 .. MaxDay
Key == {DiffKey(b) : b \in Batch}
Schedule == [enabled : BOOLEAN, interval_days : Nat \ {0}, diff_enabled : BOOLEAN]

ASSUME BoundsAssumption == MaxPayload \in Nat /\ MaxDay \in Nat
ASSUME BatchAssumption == \A b \in Batch : b.kind \in Kind
ASSUME ScheduleAssumption == Schedules \subseteq Schedule /\ DefaultSchedule \in Schedule
ASSUME NoneAssumption == None \notin (Batch \X Payload) \cup Day
ASSUME FlagAssumption == {OverlappingSyncs, OverlappingSaves, MayCrash, OldScraper} \subseteq BOOLEAN

VARIABLES
  day,        \* the JST date of the PC's clock
  pi,         \* what /control/export answers for each batch, 0 for nothing
  db,         \* the payload last upserted into the PC's database
  file,       \* the sync state file, as it parses
  torn,       \* TRUE while the file does not parse (truncated or garbled)
  req,        \* the requests in flight
  committed,  \* history: every fingerprint whose upsert has been committed
  acked       \* history: the schedule of the last answered POST /sync/schedule

vars == <<day, pi, db, file, torn, req, committed, acked>>

SyncState ==
  [items : [Key -> (Batch \X Payload) \cup {None}],
   schedule : Schedule,
   last_synced_at : Day \cup {None},
   last_status : {"none", "success", "failed", "disabled", "not_due"}]

NewState ==
  [items |-> [k \in Key |-> None], schedule |-> DefaultSchedule,
   last_synced_at |-> None, last_status |-> "none"]

NothingExported == [b \in Batch |-> 0]

\* A thread serving no request.  st is the SyncState object of the request,
\* now its clock reading, exp what its exports returned, calls the exports
\* still to call and todo the batches still to apply.
Idle == [pc |-> "idle", op |-> "none", diff |-> TRUE, st |-> NewState, now |-> 0,
         exp |-> NothingExported, calls |-> {}, todo |-> {}]

Request ==
  [pc : {"idle", "load", "export", "apply", "save", "write", "overwrite"},
   op : {"none", "manual", "scheduled", "skip", "update"},
   diff : BOOLEAN, st : SyncState, now : Day, exp : [Batch -> Payload],
   calls : SUBSET Kind, todo : SUBSET Batch]

TypeOK ==
  /\ day \in Day
  /\ pi \in [Batch -> Payload]
  /\ db \in [Batch -> Payload]
  /\ file \in SyncState
  /\ torn \in BOOLEAN
  /\ req \in [Req -> Request]
  /\ committed \in SUBSET (Batch \X Payload)
  /\ acked \in Schedule

Init ==
  /\ day = 0
  /\ pi = NothingExported
  /\ db = NothingExported
  /\ file = NewState
  /\ torn = FALSE
  /\ req = [r \in Req |-> Idle]
  /\ committed = {}
  /\ acked = DefaultSchedule

-----------------------------------------------------------------------------
(* Policy: scrape_sync_policy.py and _should_sync. *)

\* Fault: counts the day of the last run.
ShouldRunSyncOneDayEarly(last, interval, now) ==
  \/ last = None
  \/ now - last >= interval - 1

ShouldRunSync(last, interval, now) ==
  \/ last = None
  \/ now - last >= interval

\* Fault: a recorded key is enough, its fingerprint is not compared.
ShouldSyncByKeyOnly(st, b, p, diff) ==
  \/ ~diff
  \/ st.items[DiffKey(b)] = None

ShouldSync(st, b, p, diff) ==
  \/ ~diff
  \/ st.items[DiffKey(b)] # Fingerprint(b, p)

First(kinds) == {k \in kinds : \A j \in kinds : Rank[k] <= Rank[j]}

SyncOp == {"manual", "scheduled"}

\* Nothing in the code keeps requests apart; the constants say what the
\* deployment lets overlap.
CanStart(r, op) ==
  /\ req[r].pc = "idle"
  /\ \A q \in Req :
       \/ req[q].pc = "idle"
       \/ IF {op, req[q].op} \subseteq SyncOp THEN OverlappingSyncs ELSE OverlappingSaves

Goes(r, changed) == req' = [req EXCEPT ![r] = changed]

-----------------------------------------------------------------------------
(* The handlers of scrape_control_service.py.  A load that finds a torn file *)
(* raises and the request ends with no effect, so every handler needs ~torn. *)

\* trigger_sync reads the state once for diff_enabled; run_sync reads it again.
ManualTrigger(r) ==
  /\ CanStart(r, "manual")
  /\ ~torn
  /\ Goes(r, [Idle EXCEPT !.pc = "load", !.op = "manual",
                          !.diff = file.schedule.diff_enabled])
  /\ UNCHANGED <<day, pi, db, file, torn, committed, acked>>

SkipReason ==
  IF ~file.schedule.enabled THEN "disabled"
  ELSE IF ShouldRunSync(file.last_synced_at, file.schedule.interval_days, day)
       THEN "none" ELSE "not_due"

\* Fault: a skipped run saves a new state that has nothing but the reason.
ScheduledTriggerForgets(r) ==
  /\ ~torn
  /\ SkipReason # "none"
  /\ CanStart(r, "skip")
  /\ Goes(r, [Idle EXCEPT !.pc = "save", !.op = "skip",
                          !.st = [NewState EXCEPT !.last_status = SkipReason]])
  /\ UNCHANGED <<day, pi, db, file, torn, committed, acked>>

\* trigger_scheduled_sync: run when due, else save the state with the reason.
ScheduledTrigger(r) ==
  /\ ~torn
  /\ \/ /\ SkipReason = "none"
        /\ CanStart(r, "scheduled")
        /\ Goes(r, [Idle EXCEPT !.pc = "load", !.op = "scheduled",
                                !.diff = file.schedule.diff_enabled])
     \/ /\ SkipReason # "none"
        /\ CanStart(r, "skip")
        /\ Goes(r, [Idle EXCEPT !.pc = "save", !.op = "skip",
                                !.st = [file EXCEPT !.last_status = SkipReason]])
  /\ UNCHANGED <<day, pi, db, file, torn, committed, acked>>

\* Fault: saves a new state that has nothing but the schedule.
ScheduleUpdateForgets(r, s) ==
  /\ CanStart(r, "update")
  /\ ~torn
  /\ Goes(r, [Idle EXCEPT !.pc = "save", !.op = "update",
                          !.st = [NewState EXCEPT !.schedule = s]])
  /\ UNCHANGED <<day, pi, db, file, torn, committed, acked>>

\* update_sync_schedule: the whole state is loaded, changed and written back.
ScheduleUpdate(r, s) ==
  /\ CanStart(r, "update")
  /\ ~torn
  /\ Goes(r, [Idle EXCEPT !.pc = "save", !.op = "update",
                          !.st = [file EXCEPT !.schedule = s]])
  /\ UNCHANGED <<day, pi, db, file, torn, committed, acked>>

-----------------------------------------------------------------------------
(* run_sync *)

\* Fault: last_synced_at is set with last_attempted_at, before anything is done.
RunSyncCountsAttempt(r) ==
  /\ req[r].pc = "load"
  /\ ~torn
  /\ Goes(r, [req[r] EXCEPT !.pc = "export", !.now = day,
                            !.st = [file EXCEPT !.last_synced_at = day],
                            !.calls = {b.kind : b \in Batch}])
  /\ UNCHANGED <<day, pi, db, file, torn, committed, acked>>

\* The load stands before the try: a torn file ends the request at once.
RunSync(r) ==
  /\ req[r].pc = "load"
  /\ IF torn
     THEN Goes(r, Idle)
     ELSE Goes(r, [req[r] EXCEPT !.pc = "export", !.st = file, !.now = day,
                                 !.calls = {b.kind : b \in Batch}])
  /\ UNCHANGED <<day, pi, db, file, torn, committed, acked>>

\* What the request knows after the answer to /control/export/<kind>.
Answered(r, k, missing) ==
  [b \in Batch |-> IF b.kind = k /\ ~missing THEN pi[b] ELSE req[r].exp[b]]

AfterExport(r, k, missing) ==
  LET left == req[r].calls \ {k}
  IN  [req[r] EXCEPT
         !.exp = Answered(r, k, missing),
         !.calls = left,
         !.pc = IF left = {} THEN "apply" ELSE "export",
         !.todo = IF left = {} THEN {b \in Batch : Answered(r, k, missing)[b] # 0} ELSE {}]

\* One HTTP call; after the last one every exported batch waits to be applied.
\* Only the race-cards export may be missing, on an older scraper, which then
\* counts as an empty list.
Export(r, k) ==
  /\ req[r].pc = "export"
  /\ k \in First(req[r].calls)
  /\ \E missing \in BOOLEAN : /\ missing => OldScraper /\ k = "race_cards"
                             /\ Goes(r, AfterExport(r, k, missing))
  /\ UNCHANGED <<day, pi, db, file, torn, committed, acked>>

NextBatches(r) == {b \in req[r].todo : b.kind \in First({c.kind : c \in req[r].todo})}

Recorded(st, b, p) == [st EXCEPT !.items[DiffKey(b)] = Fingerprint(b, p)]

\* One batch: nothing if its fingerprint is the recorded one, else the upsert,
\* which commits on its own, and then the record in the state in memory.
ApplyBatch(r, b) ==
  /\ req[r].pc = "apply"
  /\ b \in NextBatches(r)
  /\ LET p == req[r].exp[b]
         done == [req[r] EXCEPT !.todo = @ \ {b}]
     IN IF ShouldSync(req[r].st, b, p, req[r].diff)
        THEN /\ db' = [db EXCEPT ![b] = p]
             /\ committed' = committed \cup {Fingerprint(b, p)}
             /\ Goes(r, [done EXCEPT !.st = Recorded(req[r].st, b, p)])
        ELSE /\ Goes(r, done)
             /\ UNCHANGED <<db, committed>>
  /\ UNCHANGED <<day, pi, file, torn, acked>>

\* Fault: the fingerprint is recorded before the upsert that then fails.
FailAfterRecord(r) ==
  /\ req[r].pc = "apply"
  /\ \E b \in NextBatches(r) :
       Goes(r, [req[r] EXCEPT !.pc = "save",
                  !.st = [Recorded(req[r].st, b, req[r].exp[b]) EXCEPT !.last_status = "failed"]])
  /\ UNCHANGED <<day, pi, db, file, torn, committed, acked>>

\* Any exception of an export, a validation or an upsert: what earlier batches
\* recorded stays in the state, which is saved as failed.
Fail(r) ==
  /\ req[r].pc = "export" \/ (req[r].pc = "apply" /\ req[r].todo # {})
  /\ Goes(r, [req[r] EXCEPT !.pc = "save", !.st.last_status = "failed"])
  /\ UNCHANGED <<day, pi, db, file, torn, committed, acked>>

\* Fault: records the day after the run.
CompleteAsOfTomorrow(r) ==
  /\ req[r].pc = "apply"
  /\ req[r].todo = {}
  /\ Goes(r, [req[r] EXCEPT !.pc = "save", !.st.last_status = "success",
                            !.st.last_synced_at = req[r].now + 1])
  /\ UNCHANGED <<day, pi, db, file, torn, committed, acked>>

Complete(r) ==
  /\ req[r].pc = "apply"
  /\ req[r].todo = {}
  /\ Goes(r, [req[r] EXCEPT !.pc = "save", !.st.last_status = "success",
                            !.st.last_synced_at = req[r].now])
  /\ UNCHANGED <<day, pi, db, file, torn, committed, acked>>

-----------------------------------------------------------------------------
(* SyncStateStore.save: write_text truncates the file, then writes it. *)

SaveBegin(r) ==
  /\ req[r].pc = "save"
  /\ torn' = TRUE
  /\ Goes(r, [req[r] EXCEPT !.pc = "write"])
  /\ UNCHANGED <<day, pi, db, file, committed, acked>>

\* A writer that truncated before another one finished overwrites the other's
\* text from the start: the tail of a longer text survives and garbles it.
SaveEnd(r) ==
  /\ req[r].pc \in {"write", "overwrite"}
  /\ torn' \in IF req[r].pc = "write" THEN {FALSE} ELSE BOOLEAN
  /\ file' = req[r].st
  /\ acked' = IF req[r].op = "update" THEN req[r].st.schedule ELSE acked
  /\ req' = [q \in Req |->
               IF q = r THEN Idle
               ELSE IF req[q].pc = "write" THEN [req[q] EXCEPT !.pc = "overwrite"]
               ELSE req[q]]
  /\ UNCHANGED <<day, pi, db, committed>>

-----------------------------------------------------------------------------
(* Environment *)

\* The api process dies: every request is lost, the file and the database stay.
Crash ==
  /\ MayCrash
  /\ \E r \in Req : req[r].pc # "idle"
  /\ req' = [r \in Req |-> Idle]
  /\ UNCHANGED <<day, pi, db, file, torn, committed, acked>>

\* Fault: the export answers any of the records of a key, not its last one.
PiIngestAnyRecord(b) ==
  /\ \E p \in Payload \ {0} : p # pi[b] /\ pi' = [pi EXCEPT ![b] = p]
  /\ UNCHANGED <<day, db, file, torn, req, committed, acked>>

\* A scrape on the Pi appends records: list_latest now answers another payload.
PiIngest(b) ==
  /\ \E p \in Payload \ {0} :
       /\ p # pi[b]
       /\ Stamped(b) => p > pi[b]
       /\ b \in CapturedOnce => p = 1
       /\ pi' = [pi EXCEPT ![b] = p]
  /\ UNCHANGED <<day, db, file, torn, req, committed, acked>>

NextDay ==
  /\ day < MaxDay
  /\ day' = day + 1
  /\ UNCHANGED <<pi, db, file, torn, req, committed, acked>>

Handle(r) ==
  \/ RunSync(r)
  \/ \E k \in Kind : Export(r, k)
  \/ \E b \in Batch : ApplyBatch(r, b)
  \/ Complete(r)
  \/ SaveBegin(r)
  \/ SaveEnd(r)

Next ==
  \/ \E r \in Req : \/ ManualTrigger(r)
                    \/ ScheduledTrigger(r)
                    \/ \E s \in Schedules : ScheduleUpdate(r, s)
                    \/ Handle(r)
                    \/ Fail(r)
  \/ \E b \in Batch : PiIngest(b)
  \/ Crash
  \/ NextDay

Spec == Init /\ [][Next]_vars

(* The server goes on with every handler: each HTTP call and each statement  *)
(* ends or raises (the client's timeout is 5 s).  Someone keeps asking for    *)
(* syncs, and no step that is retried for ever is for ever the one that fails *)
(* or is cut short.                                                          *)
Fairness ==
  /\ \A r \in Req : WF_vars(Handle(r))
  /\ SF_vars(\E r \in Req : ManualTrigger(r))
  /\ SF_vars(\E r \in Req : ~torn /\ RunSync(r))
  /\ \A b \in Batch : /\ SF_vars(\E r \in Req : Export(r, b.kind))
                     /\ SF_vars(\E r \in Req : ApplyBatch(r, b))

FairSpec == Spec /\ Fairness

-----------------------------------------------------------------------------
(* Properties *)

Quiet == ~torn /\ \A r \in Req : req[r].pc = "idle"

\* When the next synchronisation would skip a batch because its fingerprint
\* is the recorded one, the database holds that payload.
SkipIsSafe(b) ==
  Quiet /\ pi[b] # 0 /\ file.items[DiffKey(b)] = Fingerprint(b, pi[b]) => db[b] = pi[b]

\* The skip of run_sync never hides data that a capture replaced, whatever
\* crashed or failed between the commit of an upsert and the save of the state
\* file, and whatever else wrote that file, as long as no two synchronisations
\* overlap.
StampedSkipIsSafe == \A b \in Batch : Stamped(b) => SkipIsSafe(b)

\* The same of every batch, those that may come back to an earlier payload
\* included: this needs that the process does not die in the middle of a sync.
EverySkipIsSafe == \A b \in Batch : SkipIsSafe(b)

\* A request that is about to save "success" has everything it was given in
\* the database, the batches it skipped included.
SuccessMeansStored ==
  \A r \in Req :
    req[r].op \in SyncOp /\ req[r].st.last_status = "success"
      /\ req[r].pc \in {"save", "write", "overwrite"}
    => \A b \in Batch : Stamped(b) /\ req[r].exp[b] # 0 => db[b] = req[r].exp[b]

\* The state file never records a fingerprint whose upsert was not committed:
\* the record follows the commit in run_sync, in every interleaving, with
\* crashes, failed batches and garbled files.
RecordedWasCommitted ==
  \A k \in Key : file.items[k] # None => file.items[k] \in committed

\* With diff_enabled a run uploads a batch and records it.
Uploads(r, b) ==
  /\ req[r].pc = "apply" /\ req[r].diff
  /\ req[r].st.items[DiffKey(b)] # Fingerprint(b, req[r].exp[b])
  /\ req'[r].st.items[DiffKey(b)] = Fingerprint(b, req[r].exp[b])

\* The differential rule: what the database holds already is uploaded again only
\* if another batch has taken its key meanwhile, as bet types that share a page do,
\* and what that one recorded is in the database.
UnchangedIsSkipped ==
  [][\A r \in Req, b \in Batch :
       Uploads(r, b) /\ db[b] = req[r].exp[b] =>
         \E c \in Batch \ {b} :
           DiffKey(c) = DiffKey(b) /\ req[r].st.items[DiffKey(b)] = Fingerprint(c, db[c])]_vars

\* A posted schedule is the one in force once its request is answered, and
\* stays in force until the next one is posted.
AcknowledgedScheduleStands == Quiet => file.schedule = acked

\* Only a successful synchronisation moves last_synced_at, and never back: a
\* failed or skipped one leaves the next scheduled run due when it was.
OnlySuccessPostpones ==
  [][file'.last_synced_at # file.last_synced_at
       => /\ file'.last_status = "success"
          /\ file.last_synced_at # None => file'.last_synced_at > file.last_synced_at]_vars

\* Two successful scheduled synchronisations, or a manual and a scheduled one,
\* are at least interval_days JST days apart.
ScheduledSyncsKeepApart ==
  [][\A r \in Req :
       SaveEnd(r) /\ req[r].op = "scheduled" /\ req[r].st.last_status = "success"
         /\ file.last_synced_at # None
       => file'.last_synced_at - file.last_synced_at >= file.schedule.interval_days]_vars

\* Once the Pi has captured all it will, the database comes to hold it, even
\* if runs go on failing or being cut short by crashes, unless a crash has
\* torn the state file: no handler repairs it.
CatchesUp == <>[]torn \/ \A b \in Batch : <>[](db[b] = pi[b])

\* The detailed synchronisation of captured data implements the abstract copy.
Captured == {b \in Batch : Stamped(b)}
Copy == INSTANCE MonotoneCopy WITH
          Item <- Captured,
          Version <- Payload,
          source <- [b \in Captured |-> pi[b]],
          copy <- [b \in Captured |-> db[b]]
ImplementsCopy == Copy!Spec

=============================================================================
