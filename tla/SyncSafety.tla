----------------------------- MODULE SyncSafety -----------------------------
(***************************************************************************)
(* The safety properties of Sync, proved from the invariants of            *)
(* SyncInvariant and the type invariant of SyncProofs.                     *)
(***************************************************************************)
EXTENDS SyncInvariant, SyncProofs

-----------------------------------------------------------------------------
(* What the steps do to the requests *)

LEMMA GoesTo ==
  ASSUME TypeOK, NEW r \in Req, NEW c, Goes(r, c)
  PROVE  req'[r] = c /\ \A q \in Req : q # r => req'[q] = req[q]
  BY DEF Goes, TypeOK

\* A state that records nothing.
LEMMA NewRecordsNothing ==
  /\ Idle.pc = "idle" /\ Idle.op = "none" /\ Idle.st = NewState
  /\ Idle.exp = NothingExported
  /\ \A k \in Key : NewState.items[k] = None
  BY DEF Idle, NewState

\* The handlers that only read or write the schedule start with the items of
\* the file, or with none.
LEMMA Started ==
  ASSUME TypeOK, NEW r \in Req,
         \/ ManualTrigger(r)
         \/ ScheduledTrigger(r)
         \/ \E s \in Schedules : ScheduleUpdate(r, s)
  PROVE  /\ req[r].pc = "idle"
         /\ \A q \in Req : q # r => req'[q] = req[q]
         /\ \/ /\ req'[r].pc = "load" /\ req'[r].op \in SyncOp
               /\ req'[r].st = NewState /\ req'[r].exp = NothingExported
               /\ CanStart(r, req'[r].op)
            \/ /\ req'[r].pc = "save" /\ req'[r].op \in {"skip", "update"}
               /\ req'[r].st.items = file.items /\ req'[r].exp = NothingExported
               /\ req'[r].op # "update" => req'[r].st.schedule = file.schedule
               /\ CanStart(r, req'[r].op)
         /\ UNCHANGED <<day, pi, db, file, torn, committed, acked>>
  <1>1. CASE ManualTrigger(r)
    <2>1. req'[r] = [Idle EXCEPT !.pc = "load", !.op = "manual",
                                 !.diff = file.schedule.diff_enabled]
          /\ \A q \in Req : q # r => req'[q] = req[q]
      BY <1>1, GoesTo DEF ManualTrigger
    <2>2. QED
      BY <1>1, <2>1 DEF ManualTrigger, CanStart, Idle, SyncOp
  <1>2. CASE ScheduledTrigger(r)
    <2>1. CASE SkipReason = "none"
      <3>1. req'[r] = [Idle EXCEPT !.pc = "load", !.op = "scheduled",
                                   !.diff = file.schedule.diff_enabled]
            /\ \A q \in Req : q # r => req'[q] = req[q]
        BY <1>2, <2>1, GoesTo DEF ScheduledTrigger
      <3>2. QED
        BY <1>2, <2>1, <3>1 DEF ScheduledTrigger, CanStart, Idle, SyncOp
    <2>2. CASE SkipReason # "none"
      <3>1. req'[r] = [Idle EXCEPT !.pc = "save", !.op = "skip",
                                   !.st = [file EXCEPT !.last_status = SkipReason]]
            /\ \A q \in Req : q # r => req'[q] = req[q]
        BY <1>2, <2>2, GoesTo DEF ScheduledTrigger
      <3>2. /\ req'[r].st.items = file.items /\ req'[r].st.schedule = file.schedule
        BY <3>1 DEF Idle, TypeOK, SyncState
      <3>3. QED
        BY <1>2, <2>2, <3>1, <3>2 DEF ScheduledTrigger, CanStart, Idle
    <2>3. QED
      BY <2>1, <2>2
  <1>3. ASSUME NEW s \in Schedules, ScheduleUpdate(r, s)
        PROVE  /\ req[r].pc = "idle"
               /\ \A q \in Req : q # r => req'[q] = req[q]
               /\ req'[r].pc = "save" /\ req'[r].op = "update"
               /\ req'[r].st.items = file.items /\ req'[r].exp = NothingExported
               /\ CanStart(r, "update")
               /\ UNCHANGED <<day, pi, db, file, torn, committed, acked>>
    <2>1. req'[r] = [Idle EXCEPT !.pc = "save", !.op = "update",
                                 !.st = [file EXCEPT !.schedule = s]]
          /\ \A q \in Req : q # r => req'[q] = req[q]
      BY <1>3, GoesTo DEF ScheduleUpdate
    <2>2. req'[r].st.items = file.items
      BY <2>1 DEF Idle, TypeOK, SyncState
    <2>3. QED
      BY <1>3, <2>1, <2>2 DEF ScheduleUpdate, CanStart, Idle
  <1>4. QED
    BY <1>1, <1>2, <1>3

\* The steps of a request that change neither the database nor what the state
\* in memory records.
LEMMA Ended ==
  ASSUME TypeOK, NEW r \in Req, Fail(r) \/ Complete(r) \/ SaveBegin(r)
  PROVE  /\ req[r].pc \in {"export", "apply", "save"}
         /\ req'[r].pc = IF SaveBegin(r) THEN "write" ELSE "save"
         /\ req'[r].op = req[r].op /\ req'[r].exp = req[r].exp
         /\ req'[r].st.items = req[r].st.items
         /\ req'[r].st.schedule = req[r].st.schedule
         /\ Fail(r) => req'[r].st.last_status = "failed"
         /\ SaveBegin(r) => req'[r].st = req[r].st /\ req[r].pc = "save"
         /\ Complete(r) => req[r].pc = "apply" /\ req[r].todo = {}
         /\ \A q \in Req : q # r => req'[q] = req[q]
         /\ UNCHANGED <<day, pi, db, file, committed, acked>>
  <1>0. req[r] \in Request /\ req[r].st \in SyncState
    BY DEF TypeOK, Request
  <1>1. CASE Fail(r)
    <2>1. req'[r] = [req[r] EXCEPT !.pc = "save", !.st.last_status = "failed"]
          /\ \A q \in Req : q # r => req'[q] = req[q]
      BY <1>1, GoesTo DEF Fail
    <2>2. ~SaveBegin(r) /\ ~Complete(r)
      BY <1>1 DEF Fail, SaveBegin, Complete
    <2>3. QED
      BY <1>0, <1>1, <2>1, <2>2 DEF Fail, Request, SyncState
  <1>2. CASE Complete(r)
    <2>1. req'[r] = [req[r] EXCEPT !.pc = "save", !.st.last_status = "success",
                                   !.st.last_synced_at = req[r].now]
          /\ \A q \in Req : q # r => req'[q] = req[q]
      BY <1>2, GoesTo DEF Complete
    <2>2. ~SaveBegin(r)
      BY <1>2 DEF SaveBegin, Complete
    <2>3. /\ req'[r].pc = "save" /\ req'[r].op = req[r].op /\ req'[r].exp = req[r].exp
          /\ req'[r].st.items = req[r].st.items
          /\ req'[r].st.schedule = req[r].st.schedule
      <3>1. req'[r] = [req[r] EXCEPT !.pc = "save",
                                     !.st = [req[r].st EXCEPT !.last_status = "success",
                                                !.last_synced_at = req[r].now]]
        BY <1>0, <2>1 DEF Request
      <3> DEFINE st == [req[r].st EXCEPT !.last_status = "success",
                                         !.last_synced_at = req[r].now]
      <3>2. st.items = req[r].st.items /\ st.schedule = req[r].st.schedule
        BY <1>0 DEF SyncState
      <3>3. req'[r] = [req[r] EXCEPT !.pc = "save", !.st = st]
        BY <3>1
      <3> HIDE DEF st
      <3>4. req'[r].pc = "save" /\ req'[r].op = req[r].op /\ req'[r].exp = req[r].exp
            /\ req'[r].st = st
        BY <1>0, <3>3 DEF Request
      <3>5. QED
        BY <3>2, <3>4
    <2>4. ~Fail(r)
      BY <1>2 DEF Complete, Fail
    <2>5. QED
      BY <1>2, <2>1, <2>2, <2>3, <2>4 DEF Complete
  <1>3. CASE SaveBegin(r)
    <2>1. req'[r] = [req[r] EXCEPT !.pc = "write"]
          /\ \A q \in Req : q # r => req'[q] = req[q]
      BY <1>3, GoesTo DEF SaveBegin
    <2>2. ~Complete(r) /\ ~Fail(r)
      BY <1>3 DEF Fail, SaveBegin, Complete
    <2>3. QED
      BY <1>0, <1>3, <2>1, <2>2 DEF SaveBegin, Request, SyncState
  <1>4. QED
    BY <1>1, <1>2, <1>3

LEMMA Loaded ==
  ASSUME TypeOK, NEW r \in Req, RunSync(r)
  PROVE  /\ req[r].pc = "load"
         /\ \A q \in Req : q # r => req'[q] = req[q]
         /\ \/ req'[r] = Idle
            \/ /\ req'[r].pc = "export" /\ req'[r].op = req[r].op
               /\ req'[r].st = file /\ req'[r].exp = req[r].exp
         /\ UNCHANGED <<day, pi, db, file, torn, committed, acked>>
  <1>0. req[r] \in Request
    BY DEF TypeOK
  <1>1. CASE torn
    BY <1>1, GoesTo DEF RunSync
  <1>2. CASE ~torn
    <2>1. req'[r] = [req[r] EXCEPT !.pc = "export", !.st = file, !.now = day,
                                   !.calls = {b.kind : b \in Batch}]
          /\ \A q \in Req : q # r => req'[q] = req[q]
      BY <1>2, GoesTo DEF RunSync
    <2>2. QED
      BY <1>0, <2>1 DEF RunSync, Request
  <1>3. QED
    BY <1>1, <1>2

LEMMA Exported ==
  ASSUME TypeOK, NEW r \in Req, NEW k \in Kind, Export(r, k)
  PROVE  /\ req[r].pc = "export"
         /\ \A q \in Req : q # r => req'[q] = req[q]
         /\ req'[r].pc \in {"export", "apply"}
         /\ req'[r].op = req[r].op /\ req'[r].st = req[r].st
         /\ \A b \in Batch : req'[r].exp[b] \in {pi[b], req[r].exp[b]}
         /\ req'[r].pc = "apply" => req'[r].todo = {b \in Batch : req'[r].exp[b] # 0}
         /\ UNCHANGED <<day, pi, db, file, torn, committed, acked>>
  <1>0. req[r] \in Request
    BY DEF TypeOK
  <1>1. PICK missing \in BOOLEAN : Goes(r, AfterExport(r, k, missing))
    BY DEF Export
  <1>2. req'[r] = AfterExport(r, k, missing) /\ \A q \in Req : q # r => req'[q] = req[q]
    BY <1>1, GoesTo
  <1> DEFINE left == req[r].calls \ {k}
             mode == IF left = {} THEN "apply" ELSE "export"
             work == IF left = {} THEN {b \in Batch : Answered(r, k, missing)[b] # 0} ELSE {}
  <1>3. AfterExport(r, k, missing)
          = [req[r] EXCEPT !.exp = Answered(r, k, missing), !.calls = left,
                           !.pc = mode, !.todo = work]
    BY DEF AfterExport
  <1>4. mode \in {"export", "apply"}
        /\ (mode = "apply" => work = {b \in Batch : Answered(r, k, missing)[b] # 0})
    OBVIOUS
  <1>5. \A b \in Batch : Answered(r, k, missing)[b] \in {pi[b], req[r].exp[b]}
    BY DEF Answered
  <1> HIDE DEF left, mode, work
  <1>6. /\ req'[r].exp = Answered(r, k, missing) /\ req'[r].pc = mode
        /\ req'[r].todo = work /\ req'[r].op = req[r].op /\ req'[r].st = req[r].st
    BY <1>0, <1>2, <1>3 DEF Request
  <1>7. QED
    BY <1>2, <1>4, <1>5, <1>6 DEF Export

LEMMA Applied ==
  ASSUME TypeOK, NEW r \in Req, NEW b \in Batch, ApplyBatch(r, b)
  PROVE  /\ req[r].pc = "apply" /\ b \in req[r].todo
         /\ \A q \in Req : q # r => req'[q] = req[q]
         /\ req'[r].pc = "apply" /\ req'[r].op = req[r].op
         /\ req'[r].exp = req[r].exp /\ req'[r].todo = req[r].todo \ {b}
         /\ req'[r].st.schedule = req[r].st.schedule
         /\ \/ /\ db' = [db EXCEPT ![b] = req[r].exp[b]]
               /\ committed' = committed \cup {Fingerprint(b, req[r].exp[b])}
               /\ req'[r].st.items = [req[r].st.items EXCEPT
                                       ![DiffKey(b)] = Fingerprint(b, req[r].exp[b])]
            \/ /\ req'[r].st = req[r].st /\ UNCHANGED <<db, committed>>
               /\ req[r].st.items[DiffKey(b)] = Fingerprint(b, req[r].exp[b])
         /\ UNCHANGED <<day, pi, file, torn, acked>>
  <1>0. req[r] \in Request /\ req[r].st \in SyncState
    BY DEF TypeOK, Request
  <1>1. req[r].pc = "apply" /\ b \in req[r].todo
    BY DEF ApplyBatch, NextBatches
  <1> DEFINE p == req[r].exp[b]
             done == [req[r] EXCEPT !.todo = @ \ {b}]
  <1>2. CASE ShouldSync(req[r].st, b, p, req[r].diff)
    <2>1. /\ req'[r] = [done EXCEPT !.st = Recorded(req[r].st, b, p)]
          /\ \A q \in Req : q # r => req'[q] = req[q]
      BY <1>2, GoesTo DEF ApplyBatch
    <2>2. Recorded(req[r].st, b, p).schedule = req[r].st.schedule
          /\ Recorded(req[r].st, b, p).items
               = [req[r].st.items EXCEPT ![DiffKey(b)] = Fingerprint(b, p)]
      BY <1>0 DEF Recorded, SyncState
    <2>3. /\ req'[r].pc = "apply" /\ req'[r].op = req[r].op
          /\ req'[r].exp = req[r].exp /\ req'[r].todo = req[r].todo \ {b}
          /\ req'[r].st = Recorded(req[r].st, b, p)
      BY <1>0, <1>1, <2>1 DEF Request
    <2>4. QED
      BY <1>1, <1>2, <2>1, <2>2, <2>3 DEF ApplyBatch
  <1>3. CASE ~ShouldSync(req[r].st, b, p, req[r].diff)
    <2>1. /\ req'[r] = done
          /\ \A q \in Req : q # r => req'[q] = req[q]
      BY <1>3, GoesTo DEF ApplyBatch
    <2>2. /\ req'[r].pc = "apply" /\ req'[r].op = req[r].op
          /\ req'[r].exp = req[r].exp /\ req'[r].todo = req[r].todo \ {b}
          /\ req'[r].st = req[r].st
      BY <1>0, <1>1, <2>1 DEF Request
    <2>3. req[r].st.items[DiffKey(b)] = Fingerprint(b, p)
      BY <1>3 DEF ShouldSync
    <2>4. QED
      BY <1>1, <1>3, <2>1, <2>2, <2>3 DEF ApplyBatch
  <1>4. QED
    BY <1>2, <1>3

LEMMA Saved ==
  ASSUME TypeOK, NEW r \in Req, SaveEnd(r)
  PROVE  /\ req[r].pc \in {"write", "overwrite"} /\ req'[r] = Idle
         /\ file' = req[r].st
         /\ acked' = IF req[r].op = "update" THEN req[r].st.schedule ELSE acked
         /\ \A q \in Req : q # r =>
               /\ req'[q].op = req[q].op /\ req'[q].exp = req[q].exp
               /\ req'[q].st = req[q].st /\ req'[q].todo = req[q].todo
               /\ \/ req'[q].pc = req[q].pc
                  \/ req[q].pc = "write" /\ req'[q].pc = "overwrite"
         /\ UNCHANGED <<day, pi, db, committed>>
  <1>1. ASSUME NEW q \in Req, q # r
        PROVE  /\ req'[q].op = req[q].op /\ req'[q].exp = req[q].exp
               /\ req'[q].st = req[q].st /\ req'[q].todo = req[q].todo
               /\ \/ req'[q].pc = req[q].pc
                  \/ req[q].pc = "write" /\ req'[q].pc = "overwrite"
    <2>1. req[q] \in Request
      BY DEF TypeOK
    <2>2. \/ req'[q] = req[q]
          \/ req[q].pc = "write" /\ req'[q] = [req[q] EXCEPT !.pc = "overwrite"]
      BY <1>1 DEF SaveEnd
    <2>3. QED
      BY <2>1, <2>2 DEF Request
  <1>2. req'[r] = Idle
    BY DEF SaveEnd
  <1>3. QED
    BY <1>1, <1>2 DEF SaveEnd

LEMMA InitialRequests ==
  ASSUME Init
  PROVE  \A r \in Req : req[r] = Idle
  BY DEF Init

-----------------------------------------------------------------------------
(* Every interleaving, crash and failure *)

\* Neither the state file nor the state of a request in flight ever records a
\* fingerprint whose upsert was not committed.
THEOREM HistoryHolds == Spec => []HistoryInv
  <1>1. Init => HistoryInv
    BY InitialRequests, NewRecordsNothing DEF Init, HistoryInv, OnlyCommitted
  <1>2. TypeOK /\ HistoryInv /\ [Next]_vars => HistoryInv'
    <2> SUFFICES ASSUME TypeOK, HistoryInv, [Next]_vars PROVE HistoryInv'
      OBVIOUS
    <2>1. ASSUME NEW r \in Req, \/ ManualTrigger(r)
                               \/ ScheduledTrigger(r)
                               \/ \E s \in Schedules : ScheduleUpdate(r, s)
          PROVE  HistoryInv'
      BY <2>1, Started, NewRecordsNothing DEF HistoryInv, OnlyCommitted
    <2>2. ASSUME NEW r \in Req, RunSync(r) PROVE HistoryInv'
      BY <2>2, Loaded, NewRecordsNothing DEF HistoryInv, OnlyCommitted
    <2>3. ASSUME NEW r \in Req, NEW k \in Kind, Export(r, k) PROVE HistoryInv'
      BY <2>3, Exported DEF HistoryInv, OnlyCommitted
    <2>4. ASSUME NEW r \in Req, NEW b \in Batch, ApplyBatch(r, b) PROVE HistoryInv'
      <3> DEFINE p == req[r].exp[b]
      <3>1. committed \subseteq committed' /\ file' = file
            /\ \A q \in Req : q # r => req'[q] = req[q]
        BY <2>4, Applied
      <3>2. CASE req'[r].st = req[r].st
        BY <3>1, <3>2 DEF HistoryInv, OnlyCommitted
      <3>3. CASE /\ committed' = committed \cup {Fingerprint(b, p)}
                 /\ req'[r].st.items = [req[r].st.items EXCEPT
                                         ![DiffKey(b)] = Fingerprint(b, p)]
        <4>1. req[r].st.items \in [Key -> (Batch \X Payload) \cup {None}]
          BY DEF TypeOK, Request, SyncState
        <4>2. \A k \in Key : req'[r].st.items[k] \in {req[r].st.items[k], Fingerprint(b, p)}
          BY <3>3, <4>1
        <4>3. QED
          BY <3>1, <3>3, <4>2 DEF HistoryInv, OnlyCommitted
      <3>4. QED
        BY <2>4, <3>2, <3>3, Applied
    <2>5. ASSUME NEW r \in Req, Fail(r) \/ Complete(r) \/ SaveBegin(r) PROVE HistoryInv'
      BY <2>5, Ended DEF HistoryInv, OnlyCommitted
    <2>6. ASSUME NEW r \in Req, SaveEnd(r) PROVE HistoryInv'
      BY <2>6, Saved, NewRecordsNothing DEF HistoryInv, OnlyCommitted
    <2>7. ASSUME Crash PROVE HistoryInv'
      BY <2>7, NewRecordsNothing DEF Crash, HistoryInv, OnlyCommitted
    <2>8. ASSUME (\E b \in Batch : PiIngest(b)) \/ NextDay \/ UNCHANGED vars PROVE HistoryInv'
      BY <2>8 DEF PiIngest, NextDay, vars, HistoryInv, OnlyCommitted
    <2>9. QED
      BY <2>1, <2>2, <2>3, <2>4, <2>5, <2>6, <2>7, <2>8 DEF Next, Handle
  <1>3. QED
    BY <1>1, <1>2, TypeCorrect, PTL DEF Spec

\* The file names no fingerprint that was not committed, whatever overlaps,
\* fails, crashes or garbles the file.
THEOREM RecordsAreCommitted == Spec => []RecordedWasCommitted
  <1>1. HistoryInv => RecordedWasCommitted
    BY DEF HistoryInv, OnlyCommitted, RecordedWasCommitted
  <1>2. QED
    BY <1>1, HistoryHolds, PTL

-----------------------------------------------------------------------------
(* No two synchronisations at once *)

\* A synchronisation only starts when none is in flight, so while every save
\* of the state may still be interleaved with it, every upsert is its own.
LEMMA SyncsStayApart ==
  ASSUME ~OverlappingSyncs, TypeOK, OnlySyncsPull, AtMostOneSync, [Next]_vars
  PROVE  OnlySyncsPull' /\ AtMostOneSync'
  <1> USE DEF OnlySyncsPull, AtMostOneSync, Syncing, Busy
  <1>1. ASSUME NEW r \in Req, \/ ManualTrigger(r)
                             \/ ScheduledTrigger(r)
                             \/ \E s \in Schedules : ScheduleUpdate(r, s)
        PROVE  OnlySyncsPull' /\ AtMostOneSync'
    <2>1. req'[r].op \in SyncOp => \A q \in Req : ~Syncing(q)
      BY <1>1, Started DEF CanStart, SyncOp
    <2>2. \A q \in Req : q # r => req'[q] = req[q]
      BY <1>1, Started
    <2>3. req'[r].pc \in {"load", "export", "apply"} => req'[r].op \in SyncOp
      BY <1>1, Started
    <2>4. QED
      BY <2>1, <2>2, <2>3
  <1>2. ASSUME NEW r \in Req, RunSync(r) PROVE OnlySyncsPull' /\ AtMostOneSync'
    BY <1>2, Loaded, NewRecordsNothing
  <1>3. ASSUME NEW r \in Req, NEW k \in Kind, Export(r, k)
        PROVE  OnlySyncsPull' /\ AtMostOneSync'
    BY <1>3, Exported
  <1>4. ASSUME NEW r \in Req, NEW b \in Batch, ApplyBatch(r, b)
        PROVE  OnlySyncsPull' /\ AtMostOneSync'
    BY <1>4, Applied
  <1>5. ASSUME NEW r \in Req, Fail(r) \/ Complete(r) \/ SaveBegin(r)
        PROVE  OnlySyncsPull' /\ AtMostOneSync'
    BY <1>5, Ended
  <1>6. ASSUME NEW r \in Req, SaveEnd(r) PROVE OnlySyncsPull' /\ AtMostOneSync'
    BY <1>6, Saved, NewRecordsNothing
  <1>7. ASSUME Crash PROVE OnlySyncsPull' /\ AtMostOneSync'
    BY <1>7, NewRecordsNothing DEF Crash
  <1>8. ASSUME (\E b \in Batch : PiIngest(b)) \/ NextDay \/ UNCHANGED vars
        PROVE  OnlySyncsPull' /\ AtMostOneSync'
    BY <1>8 DEF PiIngest, NextDay, vars
  <1>9. QED
    BY <1>1, <1>2, <1>3, <1>4, <1>5, <1>6, <1>7, <1>8 DEF Next, Handle

LEMMA ExportedStayApplied ==
  ASSUME TypeOK, OnlyExportedApplied, [Next]_vars
  PROVE  OnlyExportedApplied'
  <1> USE DEF OnlyExportedApplied
  <1>1. ASSUME NEW r \in Req, \/ ManualTrigger(r)
                             \/ ScheduledTrigger(r)
                             \/ \E s \in Schedules : ScheduleUpdate(r, s)
        PROVE  OnlyExportedApplied'
    BY <1>1, Started
  <1>2. ASSUME NEW r \in Req, RunSync(r) PROVE OnlyExportedApplied'
    BY <1>2, Loaded, NewRecordsNothing
  <1>3. ASSUME NEW r \in Req, NEW k \in Kind, Export(r, k) PROVE OnlyExportedApplied'
    <2>1. req'[r].pc = "apply" => \A b \in req'[r].todo : req'[r].exp[b] # 0
      BY <1>3, Exported
    <2>2. \A q \in Req : q # r => req'[q] = req[q]
      BY <1>3, Exported
    <2>3. QED
      BY <2>1, <2>2
  <1>4. ASSUME NEW r \in Req, NEW b \in Batch, ApplyBatch(r, b) PROVE OnlyExportedApplied'
    <2>1. req'[r].pc = "apply" => \A c \in req'[r].todo : req'[r].exp[c] # 0
      <3>1. /\ req[r].pc = "apply" /\ req'[r].exp = req[r].exp
            /\ req'[r].todo = req[r].todo \ {b}
        BY <1>4, Applied
      <3>2. QED
        BY <3>1
    <2>2. \A q \in Req : q # r => req'[q] = req[q]
      BY <1>4, Applied
    <2>3. QED
      BY <2>1, <2>2
  <1>5. ASSUME NEW r \in Req, Fail(r) \/ Complete(r) \/ SaveBegin(r)
        PROVE  OnlyExportedApplied'
    BY <1>5, Ended
  <1>6. ASSUME NEW r \in Req, SaveEnd(r) PROVE OnlyExportedApplied'
    BY <1>6, Saved, NewRecordsNothing
  <1>7. ASSUME Crash PROVE OnlyExportedApplied'
    BY <1>7, NewRecordsNothing DEF Crash
  <1>8. ASSUME (\E b \in Batch : PiIngest(b)) \/ NextDay \/ UNCHANGED vars
        PROVE  OnlyExportedApplied'
    BY <1>8 DEF PiIngest, NextDay, vars
  <1>9. QED
    BY <1>1, <1>2, <1>3, <1>4, <1>5, <1>6, <1>7, <1>8 DEF Next, Handle

LEMMA PayloadIsNat == \A p \in Payload : p \in Nat
  BY BoundsAssumption DEF Payload

\* What an upsert does to a captured batch: the payload it stores is neither
\* older than the stored one nor newer than the captured one.
LEMMA UpsertMovesForward ==
  ASSUME TypeOK, CaptureInv, NEW r \in Req, NEW b \in Batch, ApplyBatch(r, b)
  PROVE  \A c \in Captured : db[c] <= db'[c] /\ db'[c] <= pi[c]
  <1>1. b \in Captured => db[b] <= req[r].exp[b] /\ req[r].exp[b] <= pi[b]
    BY Applied DEF CaptureInv, OnlyExportedApplied
  <1>2. \A c \in Captured : db[c] <= db[c] /\ db[c] <= pi[c]
    BY PayloadIsNat DEF TypeOK, Captured, CaptureInv
  <1>3. db' = db \/ db' = [db EXCEPT ![b] = req[r].exp[b]]
    BY Applied
  <1>4. QED
    BY <1>1, <1>2, <1>3 DEF TypeOK, Captured

\* The data of captured batches moves one way, whatever crashes, fails or
\* interleaves with the one synchronisation in flight.
THEOREM CaptureHolds ==
  ASSUME ~OverlappingSyncs
  PROVE  Spec => []CaptureInv
  <1>1. Init => CaptureInv
    <2> SUFFICES ASSUME Init PROVE CaptureInv
      OBVIOUS
    <2>1. \A r \in Req : /\ req[r].pc = "idle" /\ req[r].op = "none"
                         /\ req[r].exp = NothingExported
                         /\ \A k \in Key : req[r].st.items[k] = None
      BY InitialRequests, NewRecordsNothing
    <2>2. \A b \in Batch, p \in Payload : None # Fingerprint(b, p) /\ DiffKey(b) \in Key
      BY NoneAssumption DEF Fingerprint, Key
    <2>3. NotAhead(file) /\ \A r \in Req : NotAhead(req[r].st)
      BY <2>1, <2>2, NewRecordsNothing DEF Init, NotAhead, Captured
    <2>4. \A b \in Captured : db[b] = 0 /\ pi[b] = 0 /\ NothingExported[b] = 0
      BY DEF Init, NothingExported, Captured
    <2>5. QED
      BY <2>1, <2>3, <2>4 DEF CaptureInv, OnlySyncsPull, OnlyExportedApplied,
                             AtMostOneSync, Syncing, Busy
  <1>2. TypeOK /\ CaptureInv /\ [Next]_vars => CaptureInv'
    <2> SUFFICES ASSUME TypeOK, CaptureInv, [Next]_vars PROVE CaptureInv'
      OBVIOUS
    <2> DEFINE Order == /\ NotAhead(file)
                        /\ \A r \in Req : NotAhead(req[r].st)
                        /\ \A b \in Captured : db[b] <= pi[b]
                        /\ \A r \in Req, b \in Captured :
                             /\ req[r].exp[b] <= pi[b]
                             /\ req[r].pc \in {"load", "export", "apply"} /\ req[r].exp[b] # 0
                                  => db[b] <= req[r].exp[b]
    <2>0. \A b \in Captured : /\ b \in Batch /\ db[b] \in Nat /\ pi[b] \in Nat
                              /\ NothingExported[b] = 0
                              /\ \A r \in Req : req[r].exp[b] \in Nat
      BY PayloadIsNat DEF Captured, TypeOK, NothingExported, Request
    <2>00. \A b \in Batch, p \in Payload : None # Fingerprint(b, p) /\ DiffKey(b) \in Key
      BY NoneAssumption DEF Fingerprint, Key
    <2>01. NotAhead(NewState)
      BY <2>00, NewRecordsNothing DEF NotAhead, Captured
    <2>1. ASSUME NEW r \in Req, \/ ManualTrigger(r)
                               \/ ScheduledTrigger(r)
                               \/ \E s \in Schedules : ScheduleUpdate(r, s)
          PROVE  Order'
      <3>1. \A q \in Req : q # r => req'[q] = req[q]
        BY <2>1, Started
      <3>2. /\ req'[r].pc \in {"load", "save"} /\ req'[r].exp = NothingExported
            /\ req'[r].st.items = file.items \/ req'[r].st = NewState
            /\ UNCHANGED <<pi, db, file>>
        BY <2>1, Started
      <3>3. \A q \in Req : NotAhead(req[q].st)'
        BY <2>01, <3>1, <3>2 DEF CaptureInv, NotAhead
      <3>4. QED
        BY <2>0, <3>1, <3>2, <3>3 DEF CaptureInv, NotAhead
    <2>2. ASSUME NEW r \in Req, RunSync(r) PROVE Order'
      <3>1. UNCHANGED <<pi, db, file>> /\ \A q \in Req : q # r => req'[q] = req[q]
        BY <2>2, Loaded
      <3>2. req'[r].st \in {file, NewState} /\ req'[r].exp \in {NothingExported, req[r].exp}
        BY <2>2, Loaded, NewRecordsNothing
      <3>3. req'[r].exp = req[r].exp \/ req'[r].exp = NothingExported
        BY <3>2
      <3>4. req[r].pc = "load"
        BY <2>2, Loaded
      <3>5. \A q \in Req : NotAhead(req[q].st)'
        BY <2>01, <3>1, <3>2 DEF CaptureInv, NotAhead
      <3>6. QED
        BY <2>0, <3>1, <3>3, <3>4, <3>5 DEF CaptureInv, NotAhead
    <2>3. ASSUME NEW r \in Req, NEW k \in Kind, Export(r, k) PROVE Order'
      BY <2>0, <2>3, Exported DEF CaptureInv, NotAhead
    <2>4. ASSUME NEW r \in Req, NEW b \in Batch, ApplyBatch(r, b) PROVE Order'
      <3> DEFINE p == req[r].exp[b]
      <3>1. \A c \in Captured : db[c] <= db'[c] /\ db'[c] <= pi[c] /\ db'[c] \in Nat
        <4>1. p \in Nat
          BY PayloadIsNat DEF TypeOK, Request
        <4>a. db' = db \/ db' = [db EXCEPT ![b] = p]
          BY <2>4, Applied
        <4>2. \A c \in Captured : db'[c] \in Nat
          BY <2>0, <4>1, <4>a DEF TypeOK
        <4>3. QED
          BY <2>4, <4>2, UpsertMovesForward
      <3>2. ASSUME NEW st, NotAhead(st), NEW c \in Captured, NEW v \in Payload,
                   st.items[DiffKey(c)] = Fingerprint(c, v)
            PROVE  v <= db'[c]
        <4>1. v <= db[c] /\ v \in Nat
          BY <3>2, PayloadIsNat DEF NotAhead
        <4>2. QED
          BY <2>0, <3>1, <4>1
      <3>3. NotAhead(file)' /\ \A q \in Req : q # r => NotAhead(req[q].st)'
        <4>1. file' = file /\ \A q \in Req : q # r => req'[q].st = req[q].st
          BY <2>4, Applied
        <4>2. ASSUME NEW st, NotAhead(st)
              PROVE  \A c \in Captured, v \in Payload :
                       st.items[DiffKey(c)] = Fingerprint(c, v) => v <= db'[c]
          BY <3>2, <4>2
        <4>3. NotAhead(file)'
          BY <4>1, <4>2 DEF CaptureInv, NotAhead
        <4>4. ASSUME NEW q \in Req, q # r PROVE NotAhead(req[q].st)'
          <5>1. NotAhead(req[q].st)
            BY DEF CaptureInv
          <5>2. \A c \in Captured, v \in Payload :
                  req[q].st.items[DiffKey(c)] = Fingerprint(c, v) => v <= db'[c]
            BY <4>2, <5>1
          <5>3. QED
            BY <4>1, <4>4, <5>2 DEF NotAhead
        <4>5. QED
          BY <4>3, <4>4
      <3>4. NotAhead(req[r].st)'
        <4> SUFFICES ASSUME NEW c \in Captured, NEW v \in Payload,
                            req'[r].st.items[DiffKey(c)] = Fingerprint(c, v)
                     PROVE  v <= db'[c]
          BY DEF NotAhead
        <4>1. CASE req[r].st.items[DiffKey(c)] = Fingerprint(c, v)
          BY <3>2, <4>1 DEF CaptureInv
        <4>2. CASE req[r].st.items[DiffKey(c)] # Fingerprint(c, v)
          <5>1. /\ db' = [db EXCEPT ![b] = p]
                /\ req'[r].st.items = [req[r].st.items EXCEPT
                                        ![DiffKey(b)] = Fingerprint(b, p)]
            BY <2>4, <4>2, Applied
          <5>2. req[r].st.items \in [Key -> (Batch \X Payload) \cup {None}]
            BY DEF TypeOK, Request, SyncState
          <5>3. Fingerprint(c, v) = Fingerprint(b, p)
            BY <2>0, <2>00, <4>2, <5>1, <5>2
          <5>4. c = b /\ v = p
            BY <5>3 DEF Fingerprint
          <5>5. db'[c] = v
            BY <2>0, <5>1, <5>4 DEF TypeOK
          <5>6. QED
            BY <3>1, <5>5
        <4>3. QED
          BY <4>1, <4>2
      <3>5. \A q \in Req : q # r => req[q].pc \notin {"load", "export", "apply"}
        BY <2>4, Applied DEF CaptureInv, OnlySyncsPull, AtMostOneSync, Syncing, Busy
      <3>6. ASSUME NEW c \in Captured, req[r].exp[c] # 0
            PROVE  db'[c] <= req[r].exp[c]
        <4>1. db[c] <= req[r].exp[c]
          BY <2>4, <3>6, Applied DEF CaptureInv
        <4>a. db' = db \/ db' = [db EXCEPT ![b] = p]
          BY <2>4, Applied
        <4>2. db'[c] = db[c] \/ db'[c] = req[r].exp[c]
          BY <2>0, <4>a DEF TypeOK
        <4>3. QED
          BY <2>0, <4>1, <4>2
      <3>7. \A q \in Req : req'[q].exp = req[q].exp
        BY <2>4, Applied
      <3>8. \A q \in Req, c \in Captured :
              req'[q].pc \in {"load", "export", "apply"} /\ req'[q].exp[c] # 0
                => db'[c] <= req'[q].exp[c]
        <4>1. \A q \in Req : req'[q].pc \in {"load", "export", "apply"} => q = r
          BY <2>4, <3>5, Applied
        <4>2. QED
          BY <3>6, <3>7, <4>1
      <3>9. pi' = pi
        BY <2>4, Applied
      <3>10. QED
        BY <3>1, <3>3, <3>4, <3>7, <3>8, <3>9 DEF CaptureInv
    <2>5. ASSUME NEW r \in Req, Fail(r) \/ Complete(r) \/ SaveBegin(r) PROVE Order'
      BY <2>0, <2>5, Ended DEF CaptureInv, NotAhead
    <2>6. ASSUME NEW r \in Req, SaveEnd(r) PROVE Order'
      BY <2>0, <2>01, <2>6, Saved, NewRecordsNothing DEF CaptureInv, NotAhead
    <2>7. ASSUME Crash PROVE Order'
      BY <2>0, <2>01, <2>7, NewRecordsNothing DEF Crash, CaptureInv, NotAhead
    <2>8. ASSUME NEW b \in Batch, PiIngest(b) PROVE Order'
      <3>1. \A c \in Captured : pi[c] <= pi'[c] /\ pi'[c] \in Nat
        BY <2>0, <2>8, PayloadIsNat DEF PiIngest, Captured, TypeOK
      <3>2. QED
        BY <2>0, <2>8, <3>1 DEF PiIngest, CaptureInv, NotAhead
    <2>9. ASSUME NextDay \/ UNCHANGED vars PROVE Order'
      BY <2>9 DEF NextDay, vars, CaptureInv, NotAhead
    <2>10. Order'
      BY <2>1, <2>2, <2>3, <2>4, <2>5, <2>6, <2>7, <2>8, <2>9 DEF Next, Handle
    <2>11. QED
      BY <2>10, SyncsStayApart, ExportedStayApplied DEF CaptureInv
  <1>3. QED
    BY <1>1, <1>2, TypeCorrect, PTL DEF Spec

\* A batch the next run would skip is in the database as captured: neither a
\* crash between the commit and the save, nor a failed run, nor an interleaved
\* save of an old state makes the differential rule hide captured data.
THEOREM StampedSkipsAreSafe ==
  ASSUME ~OverlappingSyncs
  PROVE  Spec => []StampedSkipIsSafe
  <1>1. TypeOK /\ CaptureInv => StampedSkipIsSafe
    <2> SUFFICES ASSUME TypeOK, CaptureInv, NEW b \in Captured,
                        file.items[DiffKey(b)] = Fingerprint(b, pi[b])
                 PROVE  db[b] = pi[b]
      BY DEF StampedSkipIsSafe, SkipIsSafe, Captured
    <2>1. db[b] \in Nat /\ pi[b] \in Nat /\ pi[b] \in Payload
      BY PayloadIsNat DEF TypeOK, Captured
    <2>2. pi[b] <= db[b] /\ db[b] <= pi[b]
      BY <2>1 DEF CaptureInv, NotAhead
    <2>3. QED
      BY <2>1, <2>2
  <1>2. QED
    BY <1>1, CaptureHolds, TypeCorrect, PTL

\* What a run has dealt with stays stored until the run has ended: it alone
\* writes the database, and it skips only what is already there.
THEOREM StoredHolds ==
  ASSUME ~OverlappingSyncs
  PROVE  Spec => []StoredInv
  <1>1. Init => StoredInv
    BY InitialRequests, NewRecordsNothing DEF StoredInv, SyncOp
  <1>2. TypeOK /\ CaptureInv /\ StoredInv /\ [Next]_vars => StoredInv'
    <2> SUFFICES ASSUME TypeOK, CaptureInv, StoredInv, [Next]_vars PROVE StoredInv'
      OBVIOUS
    <2>0. \A b \in Captured : b \in Batch
      BY DEF Captured
    <2>1. ASSUME NEW r \in Req, \/ ManualTrigger(r)
                               \/ ScheduledTrigger(r)
                               \/ \E s \in Schedules : ScheduleUpdate(r, s)
          PROVE  StoredInv'
      <3>1. /\ db' = db /\ \A q \in Req : q # r => req'[q] = req[q]
            /\ req'[r].exp = NothingExported
        BY <2>1, Started
      <3>2. \A b \in Captured : NothingExported[b] = 0
        BY DEF NothingExported, Captured
      <3>3. QED
        BY <3>1, <3>2 DEF StoredInv
    <2>2. ASSUME NEW r \in Req, RunSync(r) PROVE StoredInv'
      <3>1. /\ db' = db /\ \A q \in Req : q # r => req'[q] = req[q]
            /\ req'[r].pc \in {"idle", "export"}
        BY <2>2, Loaded, NewRecordsNothing
      <3>2. QED
        BY <3>1 DEF StoredInv
    <2>3. ASSUME NEW r \in Req, NEW k \in Kind, Export(r, k) PROVE StoredInv'
      <3>1. /\ db' = db /\ \A q \in Req : q # r => req'[q] = req[q]
            /\ req'[r].pc \in {"export", "apply"}
            /\ req'[r].pc = "apply" => req'[r].todo = {b \in Batch : req'[r].exp[b] # 0}
        BY <2>3, Exported
      <3>2. QED
        BY <2>0, <3>1 DEF StoredInv
    <2>4. ASSUME NEW r \in Req, NEW b \in Batch, ApplyBatch(r, b) PROVE StoredInv'
      <3> DEFINE p == req[r].exp[b]
      <3>1. \A q \in Req : req'[q].op \in SyncOp /\ req'[q].pc # "idle" => q = r
        BY <2>4, Applied DEF CaptureInv, OnlySyncsPull, AtMostOneSync, Syncing, Busy
      <3>2. /\ req[r].pc = "apply" /\ req'[r].pc = "apply"
            /\ req'[r].exp = req[r].exp /\ req'[r].todo = req[r].todo \ {b}
            /\ req'[r].op = req[r].op /\ b \in req[r].todo
        BY <2>4, Applied
      <3>3. ASSUME NEW c \in Captured, c \notin req'[r].todo, req[r].exp[c] # 0,
                   req[r].op \in SyncOp
            PROVE  db'[c] = req[r].exp[c]
        <4>1. CASE c # b
          <5>1. db' = db \/ db' = [db EXCEPT ![b] = p]
            BY <2>4, Applied
          <5>2. db[c] = req[r].exp[c]
            BY <3>2, <3>3, <4>1 DEF StoredInv
          <5>3. QED
            BY <2>0, <4>1, <5>1, <5>2 DEF TypeOK
        <4>2. CASE c = b
          <5>1. CASE db' = [db EXCEPT ![b] = p]
            BY <4>2, <5>1 DEF TypeOK
          <5>2. CASE db' = db /\ req[r].st.items[DiffKey(b)] = Fingerprint(b, p)
            <6>1. p \in Payload /\ db[b] \in Payload
              BY DEF TypeOK, Request
            <6>2. p <= db[b]
              BY <4>2, <5>2, <6>1 DEF CaptureInv, NotAhead
            <6>3. db[b] <= p
              BY <3>2, <3>3, <4>2 DEF CaptureInv
            <6>4. QED
              BY <4>2, <5>2, <6>1, <6>2, <6>3, PayloadIsNat
          <5>3. QED
            BY <2>4, <5>1, <5>2, Applied
        <4>3. QED
          BY <4>1, <4>2
      <3>4. QED
        BY <3>1, <3>2, <3>3 DEF StoredInv
    <2>5. ASSUME NEW r \in Req, Fail(r) \/ Complete(r) \/ SaveBegin(r) PROVE StoredInv'
      <3>1. /\ db' = db /\ \A q \in Req : q # r => req'[q] = req[q]
            /\ req'[r].op = req[r].op /\ req'[r].exp = req[r].exp
        BY <2>5, Ended
      <3>2. CASE Fail(r)
        <4>1. req'[r].st.last_status = "failed" /\ req'[r].pc # "apply"
          BY <3>2, Ended
        <4>2. QED
          BY <3>1, <4>1 DEF StoredInv
      <3>3. CASE Complete(r)
        <4>1. req[r].pc = "apply" /\ req[r].todo = {}
          BY <3>3, Ended
        <4>2. req'[r].pc # "apply"
          BY <3>3, Ended
        <4>3. QED
          BY <3>1, <4>1, <4>2 DEF StoredInv
      <3>4. CASE SaveBegin(r)
        <4>1. req[r].pc = "save" /\ req'[r].pc = "write" /\ req'[r].st = req[r].st
          BY <3>4, Ended
        <4>2. QED
          BY <3>1, <4>1 DEF StoredInv
      <3>5. QED
        BY <2>5, <3>2, <3>3, <3>4
    <2>6. ASSUME NEW r \in Req, SaveEnd(r) PROVE StoredInv'
      <3>1. db' = db /\ req'[r].op \notin SyncOp
        BY <2>6, Saved, NewRecordsNothing DEF SyncOp
      <3>2. ASSUME NEW q \in Req, q # r
            PROVE  /\ req'[q].op = req[q].op /\ req'[q].exp = req[q].exp
                   /\ req'[q].st = req[q].st /\ req'[q].todo = req[q].todo
                   /\ \/ req'[q].pc = req[q].pc
                      \/ req[q].pc = "write" /\ req'[q].pc = "overwrite"
        BY <2>6, <3>2, Saved
      <3>3. QED
        BY <3>1, <3>2 DEF StoredInv
    <2>7. ASSUME Crash PROVE StoredInv'
      BY <2>7, NewRecordsNothing DEF Crash, StoredInv
    <2>8. ASSUME (\E b \in Batch : PiIngest(b)) \/ NextDay \/ UNCHANGED vars PROVE StoredInv'
      BY <2>8 DEF PiIngest, NextDay, vars, StoredInv
    <2>9. QED
      BY <2>1, <2>2, <2>3, <2>4, <2>5, <2>6, <2>7, <2>8 DEF Next, Handle
  <1>3. QED
    BY <1>1, <1>2, TypeCorrect, CaptureHolds, PTL DEF Spec

\* A run that is about to save "success" has everything captured that it was
\* given in the database.
THEOREM SuccessIsStored ==
  ASSUME ~OverlappingSyncs
  PROVE  Spec => []SuccessMeansStored
  <1>1. StoredInv => SuccessMeansStored
    BY DEF StoredInv, SuccessMeansStored, Captured
  <1>2. QED
    BY <1>1, StoredHolds, PTL

\* The synchronisation of captured data implements the abstract copy: every
\* scrape on the Pi publishes, every upsert pulls, all else stutters.
THEOREM SyncImplementsCopy ==
  ASSUME ~OverlappingSyncs
  PROVE  Spec => ImplementsCopy
  <1>1. Init => Copy!Init
    BY DEF Init, Copy!Init, Captured, NothingExported
  <1>2. TypeOK /\ CaptureInv /\ [Next]_vars
          => [Copy!Next]_<<[b \in Captured |-> pi[b]], [b \in Captured |-> db[b]]>>
    <2> DEFINE from == [b \in Captured |-> pi[b]]
               to == [b \in Captured |-> db[b]]
    <2> SUFFICES ASSUME TypeOK, CaptureInv, [Next]_vars
                 PROVE  Copy!Next \/ (from' = from /\ to' = to)
      OBVIOUS
    <2>1. ASSUME NEW b \in Batch, PiIngest(b) PROVE Copy!Next \/ (from' = from /\ to' = to)
      <3>1. CASE b \notin Captured
        BY <2>1, <3>1 DEF PiIngest, TypeOK, Captured
      <3>2. CASE b \in Captured
        <4>1. PICK p \in Payload : p > pi[b] /\ pi' = [pi EXCEPT ![b] = p]
          BY <2>1, <3>2 DEF PiIngest, Captured
        <4>2. from' = [from EXCEPT ![b] = p] /\ to' = to /\ p > from[b]
          BY <2>1, <3>2, <4>1 DEF PiIngest, TypeOK, Captured
        <4>3. Copy!Publish(b)
          BY <4>2 DEF Copy!Publish
        <4>4. \E i \in Captured : Copy!Publish(i) \/ Copy!Pull(i)
          BY <3>2, <4>3
        <4>5. QED
          BY <4>4 DEF Copy!Next
      <3>3. QED
        BY <3>1, <3>2
    <2>2. ASSUME NEW r \in Req, NEW b \in Batch, ApplyBatch(r, b)
          PROVE  Copy!Next \/ (from' = from /\ to' = to)
      <3> DEFINE p == req[r].exp[b]
      <3>1. pi' = pi /\ (db' = db \/ db' = [db EXCEPT ![b] = p])
        BY <2>2, Applied
      <3>2. CASE db' = db \/ b \notin Captured
        BY <3>1, <3>2 DEF TypeOK, Captured
      <3>3. CASE b \in Captured /\ db' = [db EXCEPT ![b] = p]
        <4>1. from' = from /\ to' = [to EXCEPT ![b] = p]
          BY <3>1, <3>3 DEF TypeOK, Captured
        <4>2. db'[b] = p
          BY <3>3 DEF TypeOK
        <4>3. to[b] <= p /\ p <= from[b] /\ p \in Payload
          BY <2>2, <3>3, <4>2, UpsertMovesForward DEF TypeOK, Request
        <4>4. Copy!Pull(b)
          BY <4>1, <4>3 DEF Copy!Pull
        <4>5. \E i \in Captured : Copy!Publish(i) \/ Copy!Pull(i)
          BY <3>3, <4>4
        <4>6. QED
          BY <4>5 DEF Copy!Next
      <3>4. QED
        BY <3>1, <3>2, <3>3
    <2>3. ASSUME UNCHANGED <<pi, db>> PROVE from' = from /\ to' = to
      BY <2>3
    <2>4. ASSUME NEW r \in Req,
                 \/ ManualTrigger(r) \/ ScheduledTrigger(r)
                 \/ \E s \in Schedules : ScheduleUpdate(r, s)
                 \/ RunSync(r) \/ \E k \in Kind : Export(r, k)
                 \/ Fail(r) \/ Complete(r) \/ SaveBegin(r) \/ SaveEnd(r)
          PROVE  UNCHANGED <<pi, db>>
      BY <2>4 DEF ManualTrigger, ScheduledTrigger, ScheduleUpdate, RunSync, Export,
                  Fail, Complete, SaveBegin, SaveEnd
    <2>5. ASSUME Crash \/ NextDay \/ UNCHANGED vars PROVE UNCHANGED <<pi, db>>
      BY <2>5 DEF Crash, NextDay, vars
    <2> HIDE DEF from, to
    <2>6. QED
      BY <2>1, <2>2, <2>3, <2>4, <2>5 DEF Next, Handle
  <1>3. QED
    BY <1>1, <1>2, TypeCorrect, CaptureHolds, PTL DEF Spec, ImplementsCopy, Copy!Spec

=============================================================================
