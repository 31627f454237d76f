---------------------------- MODULE SyncExclusive ----------------------------
(***************************************************************************)
(* What holds only while the api serves one request at a time: schedules   *)
(* stand, skips are safe for every payload, nothing unchanged is stored    *)
(* again, and scheduled synchronisations keep their interval.              *)
(***************************************************************************)
EXTENDS SyncSafety

LEMMA RequestsStayApart ==
  ASSUME ~OverlappingSyncs, ~OverlappingSaves, TypeOK, AtMostOneRequest, [Next]_vars
  PROVE  AtMostOneRequest'
  <1> USE DEF AtMostOneRequest, Busy
  <1>1. ASSUME NEW r \in Req, \/ ManualTrigger(r)
                             \/ ScheduledTrigger(r)
                             \/ \E s \in Schedules : ScheduleUpdate(r, s)
        PROVE  AtMostOneRequest'
    <2>1. \A q \in Req : req[q].pc = "idle"
      BY <1>1, Started DEF CanStart
    <2>2. \A q \in Req : q # r => req'[q] = req[q]
      BY <1>1, Started
    <2>3. QED
      BY <2>1, <2>2
  <1>2. ASSUME NEW r \in Req, RunSync(r) PROVE AtMostOneRequest'
    BY <1>2, Loaded, NewRecordsNothing
  <1>3. ASSUME NEW r \in Req, NEW k \in Kind, Export(r, k) PROVE AtMostOneRequest'
    BY <1>3, Exported
  <1>4. ASSUME NEW r \in Req, NEW b \in Batch, ApplyBatch(r, b) PROVE AtMostOneRequest'
    <2>1. req[r].pc = "apply" /\ \A q \in Req : q # r => req'[q] = req[q]
      BY <1>4, Applied
    <2>2. QED
      BY <2>1
  <1>5. ASSUME NEW r \in Req, Fail(r) \/ Complete(r) \/ SaveBegin(r) PROVE AtMostOneRequest'
    BY <1>5, Ended
  <1>6. ASSUME NEW r \in Req, SaveEnd(r) PROVE AtMostOneRequest'
    BY <1>6, Saved, NewRecordsNothing
  <1>7. ASSUME Crash PROVE AtMostOneRequest'
    BY <1>7, NewRecordsNothing DEF Crash
  <1>8. ASSUME (\E b \in Batch : PiIngest(b)) \/ NextDay \/ UNCHANGED vars
        PROVE  AtMostOneRequest'
    BY <1>8 DEF PiIngest, NextDay, vars
  <1>9. QED
    BY <1>1, <1>2, <1>3, <1>4, <1>5, <1>6, <1>7, <1>8 DEF Next, Handle

\* While one request is in flight every other thread is idle.
LEMMA OthersIdle ==
  ASSUME AtMostOneRequest, NEW r \in Req, req[r].pc # "idle"
  PROVE  \A q \in Req : q # r => req[q].pc = "idle"
  BY DEF AtMostOneRequest, Busy

-----------------------------------------------------------------------------
(* The schedule *)

\* The file's schedule is the acknowledged one, crashes included.
THEOREM ScheduleHolds ==
  ASSUME ~OverlappingSyncs, ~OverlappingSaves
  PROVE  Spec => []ScheduleInv
  <1>1. Init => ScheduleInv
    BY InitialRequests, NewRecordsNothing
    DEF Init, NewState, ScheduleInv, OnlySyncsPull, AtMostOneRequest, Busy
  <1>2. TypeOK /\ ScheduleInv /\ [Next]_vars => ScheduleInv'
    <2> SUFFICES ASSUME TypeOK, ScheduleInv, [Next]_vars PROVE ScheduleInv'
      OBVIOUS
    <2> DEFINE Carried == /\ OnlySyncsPull
                          /\ file.schedule = acked
                          /\ \A r \in Req : Busy(r) /\ req[r].op # "update"
                                              => Held(r).schedule = acked
    <2> USE DEF ScheduleInv, OnlySyncsPull, Busy, Held
    <2>1. ASSUME NEW r \in Req, \/ ManualTrigger(r)
                               \/ ScheduledTrigger(r)
                               \/ \E s \in Schedules : ScheduleUpdate(r, s)
          PROVE  Carried'
      <3>1. /\ \A q \in Req : q # r => req'[q] = req[q]
            /\ file' = file /\ acked' = acked
        BY <2>1, Started
      <3>2. \/ req'[r].pc = "load" /\ req'[r].op \in SyncOp
            \/ /\ req'[r].pc = "save"
               /\ req'[r].op # "update" => req'[r].st.schedule = file.schedule
        BY <2>1, Started
      <3>3. QED
        BY <3>1, <3>2
    <2>2. ASSUME NEW r \in Req, RunSync(r) PROVE Carried'
      BY <2>2, Loaded, NewRecordsNothing
    <2>3. ASSUME NEW r \in Req, NEW k \in Kind, Export(r, k) PROVE Carried'
      BY <2>3, Exported
    <2>4. ASSUME NEW r \in Req, NEW b \in Batch, ApplyBatch(r, b) PROVE Carried'
      <3>1. /\ req[r].pc = "apply" /\ req'[r].pc = "apply" /\ req'[r].op = req[r].op
            /\ req'[r].st.schedule = req[r].st.schedule
            /\ file' = file /\ acked' = acked
        BY <2>4, Applied
      <3>2. \A q \in Req : q # r => req'[q] = req[q]
        BY <2>4, Applied
      <3>3. QED
        BY <3>1, <3>2
    <2>5. ASSUME NEW r \in Req, Fail(r) \/ Complete(r) \/ SaveBegin(r) PROVE Carried'
      BY <2>5, Ended
    <2>6. ASSUME NEW r \in Req, SaveEnd(r) PROVE Carried'
      <3>1. \A q \in Req : req'[q].pc = "idle"
        <4>1. req[r].pc # "idle" /\ req'[r].pc = "idle"
          BY <2>6, Saved, NewRecordsNothing
        <4>2. \A q \in Req : q # r => req[q].pc = "idle"
          BY <4>1, OthersIdle
        <4>3. QED
          BY <2>6, <4>1, <4>2, Saved
      <3>2. file' = req[r].st
            /\ acked' = IF req[r].op = "update" THEN req[r].st.schedule ELSE acked
        BY <2>6 DEF SaveEnd
      <3>3. req[r].pc \in {"write", "overwrite"}
        BY <2>6 DEF SaveEnd
      <3>4. req[r].op # "update" => req[r].st.schedule = acked
        BY <3>3
      <3>5. file'.schedule = acked'
        BY <3>2, <3>4
      <3>6. QED
        BY <3>1, <3>5
    <2>7. ASSUME Crash PROVE Carried'
      BY <2>7, NewRecordsNothing DEF Crash
    <2>8. ASSUME (\E b \in Batch : PiIngest(b)) \/ NextDay \/ UNCHANGED vars PROVE Carried'
      BY <2>8 DEF PiIngest, NextDay, vars
    <2>9. Carried'
      BY <2>1, <2>2, <2>3, <2>4, <2>5, <2>6, <2>7, <2>8 DEF Next, Handle
    <2>10. QED
      BY <2>9, RequestsStayApart
  <1>3. QED
    BY <1>1, <1>2, TypeCorrect, PTL DEF Spec

\* A posted schedule stands until the next one is posted, even if the process
\* dies in between.
THEOREM AcknowledgedSchedulesStand ==
  ASSUME ~OverlappingSyncs, ~OverlappingSaves
  PROVE  Spec => []AcknowledgedScheduleStands
  <1>1. ScheduleInv => AcknowledgedScheduleStands
    BY DEF ScheduleInv, AcknowledgedScheduleStands
  <1>2. QED
    BY <1>1, ScheduleHolds, PTL

-----------------------------------------------------------------------------
(* Payloads that may come back *)

\* The file, or the state that will replace it, agrees with the database.
THEOREM InStepHolds ==
  ASSUME ~OverlappingSyncs, ~OverlappingSaves, ~MayCrash
  PROVE  Spec => []InStepInv
  <1>1. Init => InStepInv
    <2> SUFFICES ASSUME Init PROVE InStepInv
      OBVIOUS
    <2>1. \A b \in Batch, p \in Payload : None # Fingerprint(b, p) /\ DiffKey(b) \in Key
      BY NoneAssumption DEF Fingerprint, Key
    <2>2. InStep(file)
      BY <2>1, NewRecordsNothing DEF Init, InStep
    <2>3. \A r \in Req : req[r].pc = "idle"
      BY InitialRequests, NewRecordsNothing
    <2>4. QED
      BY <2>2, <2>3 DEF InStepInv, AtMostOneRequest, Busy
  <1>2. TypeOK /\ InStepInv /\ [Next]_vars => InStepInv'
    <2> SUFFICES ASSUME TypeOK, InStepInv, [Next]_vars PROVE InStepInv'
      OBVIOUS
    <2> DEFINE Agreed == /\ (\A r \in Req : ~Busy(r)) => InStep(file)
                         /\ \A r \in Req : Busy(r) => InStep(Held(r))
    <2> USE DEF InStepInv, Busy, Held, InStep
    <2>1. ASSUME NEW r \in Req, \/ ManualTrigger(r)
                               \/ ScheduledTrigger(r)
                               \/ \E s \in Schedules : ScheduleUpdate(r, s)
          PROVE  Agreed'
      <3>1. \A q \in Req : req[q].pc = "idle"
        BY <2>1, Started DEF CanStart
      <3>2. /\ \A q \in Req : q # r => req'[q].pc = "idle"
            /\ file' = file /\ db' = db
        BY <2>1, <3>1, Started
      <3>3. \/ req'[r].pc = "load"
            \/ req'[r].pc = "save" /\ req'[r].st.items = file.items
        BY <2>1, Started
      <3>4. InStep(file)
        BY <3>1
      <3>5. QED
        BY <3>2, <3>3, <3>4
    <2>2. ASSUME NEW r \in Req, RunSync(r) PROVE Agreed'
      <3>1. /\ req[r].pc = "load" /\ file' = file /\ db' = db
            /\ \/ req'[r].pc = "idle"
               \/ req'[r].pc = "export" /\ req'[r].st = file
        BY <2>2, Loaded, NewRecordsNothing
      <3>2. \A q \in Req : q # r => req'[q].pc = "idle"
        BY <2>2, <3>1, Loaded, OthersIdle
      <3>3. InStep(file)
        BY <3>1
      <3>4. QED
        BY <3>1, <3>2, <3>3
    <2>3. ASSUME NEW r \in Req, NEW k \in Kind, Export(r, k) PROVE Agreed'
      <3>1. /\ req[r].pc = "export" /\ file' = file /\ db' = db
            /\ req'[r].pc \in {"export", "apply"} /\ req'[r].st = req[r].st
        BY <2>3, Exported
      <3>2. \A q \in Req : q # r => req'[q].pc = "idle"
        BY <2>3, <3>1, Exported, OthersIdle
      <3>3. QED
        BY <3>1, <3>2
    <2>4. ASSUME NEW r \in Req, NEW b \in Batch, ApplyBatch(r, b) PROVE Agreed'
      <3> DEFINE p == req[r].exp[b]
      <3>1. req[r].pc = "apply" /\ req'[r].pc = "apply"
        BY <2>4, Applied
      <3>2. \A q \in Req : q # r => req'[q].pc = "idle"
        BY <2>4, <3>1, Applied, OthersIdle
      <3>3. InStep(req[r].st)
        BY <3>1
      <3>4. CASE req'[r].st = req[r].st /\ db' = db
        BY <3>1, <3>2, <3>3, <3>4
      <3>5. CASE /\ db' = [db EXCEPT ![b] = p]
                 /\ req'[r].st.items = [req[r].st.items EXCEPT
                                         ![DiffKey(b)] = Fingerprint(b, p)]
        <4>1. req[r].st.items \in [Key -> (Batch \X Payload) \cup {None}]
          BY DEF TypeOK, Request, SyncState
        <4>2. ASSUME NEW c \in Batch, NEW v \in Payload,
                     req'[r].st.items[DiffKey(c)] = Fingerprint(c, v)
              PROVE  db'[c] = v
          <5>1. DiffKey(c) \in Key
            BY DEF Key
          <5>2. CASE c = b
            <6>1. Fingerprint(c, v) = Fingerprint(b, p)
              BY <3>5, <4>1, <4>2, <5>1, <5>2
            <6>2. QED
              BY <3>5, <5>2, <6>1 DEF TypeOK, Fingerprint
          <5>3. CASE c # b
            <6>1. Fingerprint(c, v) # Fingerprint(b, p)
              BY <5>3 DEF Fingerprint
            <6>2. req[r].st.items[DiffKey(c)] = Fingerprint(c, v)
              BY <3>5, <4>1, <4>2, <5>1, <6>1
            <6>3. QED
              BY <3>3, <3>5, <5>3, <6>2 DEF TypeOK
          <5>4. QED
            BY <5>2, <5>3
        <4>3. QED
          BY <3>1, <3>2, <4>2
      <3>6. QED
        BY <2>4, <3>4, <3>5, Applied
    <2>5. ASSUME NEW r \in Req, Fail(r) \/ Complete(r) \/ SaveBegin(r) PROVE Agreed'
      <3>1. /\ req[r].pc \in {"export", "apply", "save"} /\ file' = file /\ db' = db
            /\ req'[r].pc \in {"save", "write"} /\ req'[r].st.items = req[r].st.items
        BY <2>5, Ended
      <3>2. \A q \in Req : q # r => req'[q].pc = "idle"
        BY <2>5, <3>1, Ended, OthersIdle
      <3>3. QED
        BY <3>1, <3>2
    <2>6. ASSUME NEW r \in Req, SaveEnd(r) PROVE Agreed'
      <3>1. /\ req[r].pc \in {"write", "overwrite"} /\ file' = req[r].st /\ db' = db
            /\ req'[r].pc = "idle"
        BY <2>6, Saved, NewRecordsNothing
      <3>2. \A q \in Req : q # r => req'[q].pc = "idle"
        BY <2>6, <3>1, Saved, OthersIdle
      <3>3. QED
        BY <3>1, <3>2
    <2>7. ASSUME (\E b \in Batch : PiIngest(b)) \/ Crash \/ NextDay \/ UNCHANGED vars
          PROVE  Agreed'
      BY <2>7 DEF PiIngest, Crash, NextDay, vars
    <2>8. Agreed'
      BY <2>1, <2>2, <2>3, <2>4, <2>5, <2>6, <2>7 DEF Next, Handle
    <2>9. QED
      BY <2>8, RequestsStayApart
  <1>3. QED
    BY <1>1, <1>2, TypeCorrect, PTL DEF Spec

\* Even a payload that came back is never skipped unless the database holds it.
THEOREM EverySkipsAreSafe ==
  ASSUME ~OverlappingSyncs, ~OverlappingSaves, ~MayCrash
  PROVE  Spec => []EverySkipIsSafe
  <1>1. TypeOK /\ InStepInv => EverySkipIsSafe
    <2> SUFFICES ASSUME TypeOK, InStepInv, NEW b \in Batch, Quiet,
                        file.items[DiffKey(b)] = Fingerprint(b, pi[b])
                 PROVE  db[b] = pi[b]
      BY DEF EverySkipIsSafe, SkipIsSafe
    <2>1. InStep(file)
      BY DEF InStepInv, Quiet, Busy
    <2>2. QED
      BY <2>1 DEF InStep, TypeOK
  <1>2. QED
    BY <1>1, InStepHolds, TypeCorrect, PTL

-----------------------------------------------------------------------------
(* Unchanged batches *)

\* What is recorded, and what will be, names the payloads of the database.
THEOREM MirrorHolds ==
  ASSUME ~OverlappingSyncs, ~OverlappingSaves, ~MayCrash
  PROVE  Spec => []MirrorInv
  <1>1. Init => MirrorInv
    <2> SUFFICES ASSUME Init PROVE MirrorInv
      OBVIOUS
    <2>1. \A r \in Req : req[r].pc = "idle"
      BY InitialRequests, NewRecordsNothing
    <2>2. Mirrors(file)
      BY DEF Init, Mirrors, NothingExported
    <2>3. QED
      BY <2>1, <2>2 DEF MirrorInv, AtMostOneRequest, OnlyExportedApplied, Busy
  <1>2. TypeOK /\ MirrorInv /\ [Next]_vars => MirrorInv'
    <2> SUFFICES ASSUME TypeOK, MirrorInv, [Next]_vars PROVE MirrorInv'
      OBVIOUS
    <2> DEFINE Agreed == /\ (\A r \in Req : ~Busy(r)) => Mirrors(file)
                         /\ \A r \in Req : Busy(r) => Mirrors(Held(r))
    <2> USE DEF MirrorInv, Busy, Held, Mirrors
    <2>1. ASSUME NEW r \in Req, \/ ManualTrigger(r)
                               \/ ScheduledTrigger(r)
                               \/ \E s \in Schedules : ScheduleUpdate(r, s)
          PROVE  Agreed'
      <3>1. \A q \in Req : req[q].pc = "idle"
        BY <2>1, Started DEF CanStart
      <3>2. /\ \A q \in Req : q # r => req'[q].pc = "idle"
            /\ file' = file /\ db' = db
        BY <2>1, <3>1, Started
      <3>3. \/ req'[r].pc = "load"
            \/ req'[r].pc = "save" /\ req'[r].st.items = file.items
        BY <2>1, Started
      <3>4. QED
        BY <3>1, <3>2, <3>3
    <2>2. ASSUME NEW r \in Req, RunSync(r) PROVE Agreed'
      <3>1. /\ req[r].pc = "load" /\ file' = file /\ db' = db
            /\ \/ req'[r].pc = "idle"
               \/ req'[r].pc = "export" /\ req'[r].st = file
        BY <2>2, Loaded, NewRecordsNothing
      <3>2. \A q \in Req : q # r => req'[q].pc = "idle"
        BY <2>2, <3>1, Loaded, OthersIdle
      <3>3. Mirrors(file)
        BY <3>1
      <3>4. QED
        BY <3>1, <3>2, <3>3
    <2>3. ASSUME NEW r \in Req, NEW k \in Kind, Export(r, k) PROVE Agreed'
      <3>1. /\ req[r].pc = "export" /\ file' = file /\ db' = db
            /\ req'[r].pc \in {"export", "apply"} /\ req'[r].st = req[r].st
        BY <2>3, Exported
      <3>2. \A q \in Req : q # r => req'[q].pc = "idle"
        BY <2>3, <3>1, Exported, OthersIdle
      <3>3. QED
        BY <3>1, <3>2
    <2>4. ASSUME NEW r \in Req, NEW b \in Batch, ApplyBatch(r, b) PROVE Agreed'
      <3> DEFINE p == req[r].exp[b]
      <3>1. req[r].pc = "apply" /\ req'[r].pc = "apply"
        BY <2>4, Applied
      <3>2. \A q \in Req : q # r => req'[q].pc = "idle"
        BY <2>4, <3>1, Applied, OthersIdle
      <3>3. Mirrors(req[r].st)
        BY <3>1
      <3>4. CASE req'[r].st = req[r].st /\ db' = db
        BY <3>1, <3>2, <3>3, <3>4
      <3>5. CASE /\ db' = [db EXCEPT ![b] = p]
                 /\ req'[r].st.items = [req[r].st.items EXCEPT
                                         ![DiffKey(b)] = Fingerprint(b, p)]
        <4>1. /\ req[r].st.items \in [Key -> (Batch \X Payload) \cup {None}]
              /\ db \in [Batch -> Payload]
          BY DEF TypeOK, Request, SyncState
        <4>2. ASSUME NEW c \in Batch, db'[c] # 0
              PROVE  \E d \in Batch : /\ DiffKey(d) = DiffKey(c)
                                      /\ req'[r].st.items[DiffKey(c)] = Fingerprint(d, db'[d])
          <5>1. DiffKey(b) \in Key /\ DiffKey(c) \in Key
            BY DEF Key
          <5>2. CASE DiffKey(c) = DiffKey(b)
            BY <3>5, <4>1, <5>1, <5>2
          <5>3. CASE DiffKey(c) # DiffKey(b)
            <6>1. db[c] # 0
              BY <3>5, <4>1, <4>2, <5>3
            <6>2. PICK d \in Batch : /\ DiffKey(d) = DiffKey(c)
                                     /\ req[r].st.items[DiffKey(c)] = Fingerprint(d, db[d])
              BY <3>3, <6>1
            <6>3. db'[d] = db[d] /\ req'[r].st.items[DiffKey(c)] = req[r].st.items[DiffKey(c)]
              BY <3>5, <4>1, <5>1, <5>3, <6>2
            <6>4. QED
              BY <6>2, <6>3
          <5>4. QED
            BY <5>2, <5>3
        <4>3. QED
          BY <3>1, <3>2, <4>2
      <3>6. QED
        BY <2>4, <3>4, <3>5, Applied
    <2>5. ASSUME NEW r \in Req, Fail(r) \/ Complete(r) \/ SaveBegin(r) PROVE Agreed'
      <3>1. /\ req[r].pc \in {"export", "apply", "save"} /\ file' = file /\ db' = db
            /\ req'[r].pc \in {"save", "write"} /\ req'[r].st.items = req[r].st.items
        BY <2>5, Ended
      <3>2. \A q \in Req : q # r => req'[q].pc = "idle"
        BY <2>5, <3>1, Ended, OthersIdle
      <3>3. QED
        BY <3>1, <3>2
    <2>6. ASSUME NEW r \in Req, SaveEnd(r) PROVE Agreed'
      <3>1. /\ req[r].pc \in {"write", "overwrite"} /\ file' = req[r].st /\ db' = db
            /\ req'[r].pc = "idle"
        BY <2>6, Saved, NewRecordsNothing
      <3>2. \A q \in Req : q # r => req'[q].pc = "idle"
        BY <2>6, <3>1, Saved, OthersIdle
      <3>3. QED
        BY <3>1, <3>2
    <2>7. ASSUME (\E b \in Batch : PiIngest(b)) \/ Crash \/ NextDay \/ UNCHANGED vars
          PROVE  Agreed'
      BY <2>7 DEF PiIngest, Crash, NextDay, vars
    <2>8. Agreed'
      BY <2>1, <2>2, <2>3, <2>4, <2>5, <2>6, <2>7 DEF Next, Handle
    <2>9. QED
      BY <2>8, RequestsStayApart, ExportedStayApplied
  <1>3. QED
    BY <1>1, <1>2, TypeCorrect, PTL DEF Spec

\* A payload that the database holds is not uploaded and recorded again, unless its
\* key was taken by another batch (scrape_sync_service.py, _diff_key: bet types that
\* share a page share a key).
THEOREM UnchangedAreSkipped ==
  ASSUME ~OverlappingSyncs, ~OverlappingSaves, ~MayCrash
  PROVE  Spec => UnchangedIsSkipped
  <1> DEFINE Other(r, b) == \E c \in Batch \ {b} :
        DiffKey(c) = DiffKey(b) /\ req[r].st.items[DiffKey(b)] = Fingerprint(c, db[c])
  <1>1. ASSUME TypeOK, MirrorInv, [Next]_vars, NEW r \in Req, NEW b \in Batch, Uploads(r, b),
               db[b] = req[r].exp[b]
        PROVE  Other(r, b)
    <2> DEFINE p == req[r].exp[b]
    <2>1. /\ req[r].pc = "apply" /\ \A q \in Req : q # r => req[q].pc = "idle"
          /\ Mirrors(req[r].st) /\ p \in Payload
          /\ req[r].st.items \in [Key -> (Batch \X Payload) \cup {None}]
      BY <1>1, OthersIdle DEF MirrorInv, Busy, Held, TypeOK, Request, SyncState, Uploads
    <2>2. req'[r].st.items # req[r].st.items /\ req'[r].st.items[DiffKey(b)] # None
      BY <1>1, <2>1, NoneAssumption DEF Fingerprint, Uploads
    \* Only the upsert of a batch changes what a run in this phase has recorded.
    <2>3. \E c \in Batch : ApplyBatch(r, c)
      <3>1. ASSUME NEW q \in Req, \/ ManualTrigger(q)
                                 \/ ScheduledTrigger(q)
                                 \/ \E s \in Schedules : ScheduleUpdate(q, s)
            PROVE  FALSE
        BY <1>1, <2>1, <2>2, <3>1, Started
      <3>2. ASSUME NEW q \in Req, RunSync(q) PROVE FALSE
        BY <1>1, <2>1, <2>2, <3>2, Loaded
      <3>3. ASSUME NEW q \in Req, NEW k \in Kind, Export(q, k) PROVE FALSE
        BY <1>1, <2>1, <2>2, <3>3, Exported
      <3>4. ASSUME NEW q \in Req, Fail(q) \/ Complete(q) \/ SaveBegin(q) PROVE FALSE
        BY <1>1, <2>1, <2>2, <3>4, Ended
      <3>5. ASSUME NEW q \in Req, SaveEnd(q) PROVE FALSE
        BY <1>1, <2>1, <2>2, <3>5, Saved
      <3>6. ASSUME (\E c \in Batch : PiIngest(c)) \/ Crash \/ NextDay \/ UNCHANGED vars PROVE FALSE
        BY <1>1, <2>2, <3>6 DEF PiIngest, Crash, NextDay, vars
      <3>7. ASSUME NEW q \in Req, NEW c \in Batch, ApplyBatch(q, c) PROVE q = r
        BY <1>1, <2>1, <3>7, Applied
      <3>8. QED
        BY <1>1, <3>1, <3>2, <3>3, <3>4, <3>5, <3>6, <3>7 DEF Next, Handle
    <2>4. PICK c \in Batch : ApplyBatch(r, c)
      BY <2>3
    <2>5. c = b
      <3>1. req'[r].st.items = [req[r].st.items EXCEPT ![DiffKey(c)] = Fingerprint(c, req[r].exp[c])]
        BY <1>1, <2>2, <2>4, Applied
      <3>2. DiffKey(b) \in Key
        BY DEF Key
      <3>3. req'[r].st.items[DiffKey(b)] = Fingerprint(c, req[r].exp[c])
        BY <1>1, <2>1, <3>1, <3>2 DEF Uploads
      <3>4. QED
        BY <1>1, <3>3 DEF Uploads, Fingerprint
    <2>6. p # 0
      BY <1>1, <2>4, <2>5, Applied DEF MirrorInv, OnlyExportedApplied
    <2>7. PICK d \in Batch : /\ DiffKey(d) = DiffKey(b)
                             /\ req[r].st.items[DiffKey(b)] = Fingerprint(d, db[d])
      BY <1>1, <2>1, <2>6 DEF Mirrors
    <2>8. d # b
      BY <1>1, <2>7 DEF Uploads
    <2>9. QED
      BY <2>7, <2>8
  <1>2. TypeOK /\ MirrorInv /\ [Next]_vars =>
          \A r \in Req, b \in Batch : Uploads(r, b) /\ db[b] = req[r].exp[b] => Other(r, b)
    BY <1>1
  <1>3. TypeOK /\ MirrorInv /\ [Next]_vars =>
          [\A r \in Req, b \in Batch : Uploads(r, b) /\ db[b] = req[r].exp[b] =>
             \E c \in Batch \ {b} :
               DiffKey(c) = DiffKey(b) /\ req[r].st.items[DiffKey(b)] = Fingerprint(c, db[c])]_vars
    BY <1>2
  <1>4. QED
    BY <1>3, MirrorHolds, TypeCorrect, PTL DEF Spec, UnchangedIsSkipped

-----------------------------------------------------------------------------
(* The days of synchronisations *)

\* What starts leaves the last success as it is, and a scheduled run is due.
LEMMA StartedDates ==
  ASSUME TypeOK, NEW r \in Req,
         \/ ManualTrigger(r)
         \/ ScheduledTrigger(r)
         \/ \E s \in Schedules : ScheduleUpdate(r, s)
  PROVE  \/ /\ req'[r].pc = "load" /\ req'[r].op \in SyncOp
            /\ req'[r].op = "scheduled" /\ file.last_synced_at # None =>
                 day - file.last_synced_at >= file.schedule.interval_days
         \/ /\ req'[r].pc = "save" /\ req'[r].op \notin SyncOp
            /\ req'[r].st.last_synced_at = file.last_synced_at
  <1>0. file \in SyncState
    BY DEF TypeOK
  <1>1. CASE ManualTrigger(r)
    <2>1. req'[r] = [Idle EXCEPT !.pc = "load", !.op = "manual", !.diff = file.schedule.diff_enabled]
      BY <1>1, GoesTo DEF ManualTrigger
    <2>2. req'[r].pc = "load" /\ req'[r].op = "manual"
      BY <2>1 DEF Idle
    <2>3. QED
      BY <2>2 DEF SyncOp
  <1>2. CASE ScheduledTrigger(r)
    <2>1. CASE SkipReason = "none"
      <3>1. req'[r] = [Idle EXCEPT !.pc = "load", !.op = "scheduled", !.diff = file.schedule.diff_enabled]
        BY <1>2, <2>1, GoesTo DEF ScheduledTrigger
      <3>2. req'[r].pc = "load" /\ req'[r].op \in SyncOp
        BY <3>1 DEF Idle, SyncOp
      <3>3. QED
        BY <2>1, <3>2 DEF SkipReason, ShouldRunSync
    <2>2. CASE SkipReason # "none"
      <3>1. req'[r] = [Idle EXCEPT !.pc = "save", !.op = "skip",
                                   !.st = [file EXCEPT !.last_status = SkipReason]]
        BY <1>2, <2>2, GoesTo DEF ScheduledTrigger
      <3>2. req'[r].pc = "save" /\ req'[r].op = "skip" /\ req'[r].st.last_synced_at = file.last_synced_at
        BY <1>0, <3>1 DEF Idle, SyncState
      <3>3. QED
        BY <3>2 DEF SyncOp
    <2>3. QED
      BY <2>1, <2>2
  <1>3. ASSUME NEW s \in Schedules, ScheduleUpdate(r, s)
        PROVE  /\ req'[r].pc = "save" /\ req'[r].op = "update"
               /\ req'[r].st.last_synced_at = file.last_synced_at
    <2>1. req'[r] = [Idle EXCEPT !.pc = "save", !.op = "update", !.st = [file EXCEPT !.schedule = s]]
      BY <1>3, GoesTo DEF ScheduleUpdate
    <2>2. QED
      BY <1>0, <2>1 DEF Idle, SyncState
  <1>4. QED
    BY <1>1, <1>2, <1>3 DEF SyncOp

\* A run counts from the day on which it loaded the state.
LEMMA LoadedDates ==
  ASSUME TypeOK, NEW r \in Req, RunSync(r)
  PROVE  req'[r] = Idle \/ (req'[r].pc = "export" /\ req'[r].st = file /\ req'[r].now = day)
  <1>0. req[r] \in Request
    BY DEF TypeOK
  <1>1. CASE torn
    BY <1>1, GoesTo DEF RunSync
  <1>2. CASE ~torn
    <2>1. req'[r] = [req[r] EXCEPT !.pc = "export", !.st = file, !.now = day,
                                   !.calls = {b.kind : b \in Batch}]
      BY <1>2, GoesTo DEF RunSync
    <2>2. QED
      BY <1>0, <2>1 DEF Request
  <1>3. QED
    BY <1>1, <1>2

LEMMA ExportedDates ==
  ASSUME TypeOK, NEW r \in Req, NEW k \in Kind, Export(r, k)
  PROVE  req'[r].now = req[r].now
  <1>1. PICK missing \in BOOLEAN : Goes(r, AfterExport(r, k, missing))
    BY DEF Export
  <1>2. req'[r] = AfterExport(r, k, missing)
    BY <1>1, GoesTo
  <1>3. AfterExport(r, k, missing).now = req[r].now
    BY DEF AfterExport, TypeOK, Request
  <1>4. QED
    BY <1>2, <1>3

LEMMA AppliedDates ==
  ASSUME TypeOK, NEW r \in Req, NEW b \in Batch, ApplyBatch(r, b)
  PROVE  req'[r].now = req[r].now /\ req'[r].st.last_synced_at = req[r].st.last_synced_at
  <1> DEFINE p == req[r].exp[b]
             done == [req[r] EXCEPT !.todo = @ \ {b}]
  <1>0. req[r] \in Request /\ req[r].st \in SyncState
    BY DEF TypeOK, Request
  <1>1. done.now = req[r].now /\ done.st = req[r].st /\ DOMAIN done = DOMAIN req[r]
    BY <1>0 DEF Request
  <1>2. Recorded(req[r].st, b, p).last_synced_at = req[r].st.last_synced_at
    BY <1>0 DEF Recorded, SyncState
  <1>3. CASE req'[r] = [done EXCEPT !.st = Recorded(req[r].st, b, p)]
    <2>1. req'[r].now = req[r].now /\ req'[r].st = Recorded(req[r].st, b, p)
      BY <1>0, <1>3 DEF Request
    <2>2. QED
      BY <1>2, <2>1
  <1>4. CASE req'[r] = done
    BY <1>1, <1>4
  <1>5. req'[r] = [done EXCEPT !.st = Recorded(req[r].st, b, p)] \/ req'[r] = done
    BY GoesTo DEF ApplyBatch
  <1>6. QED
    BY <1>3, <1>4, <1>5

\* A success counts from the day of its run, and nothing else moves the last success.
LEMMA EndedDates ==
  ASSUME TypeOK, NEW r \in Req, Fail(r) \/ Complete(r) \/ SaveBegin(r)
  PROVE  /\ req'[r].now = req[r].now
         /\ \/ SaveBegin(r)
            \/ Fail(r) /\ req'[r].st.last_synced_at = req[r].st.last_synced_at
            \/ /\ Complete(r) /\ req'[r].st.last_status = "success"
               /\ req'[r].st.last_synced_at = req[r].now
  <1>0. req[r] \in Request /\ req[r].st \in SyncState
    BY DEF TypeOK, Request
  <1>1. CASE Fail(r)
    <2>1. req'[r] = [req[r] EXCEPT !.pc = "save", !.st.last_status = "failed"]
      BY <1>1, GoesTo DEF Fail
    <2>2. QED
      BY <1>0, <1>1, <2>1 DEF Request, SyncState
  <1>2. CASE Complete(r)
    <2> DEFINE st == [req[r].st EXCEPT !.last_status = "success", !.last_synced_at = req[r].now]
    <2>1. req'[r] = [req[r] EXCEPT !.pc = "save", !.st.last_status = "success",
                                   !.st.last_synced_at = req[r].now]
      BY <1>2, GoesTo DEF Complete
    <2>2. req'[r] = [req[r] EXCEPT !.pc = "save", !.st = st]
      BY <1>0, <2>1 DEF Request
    <2>3. st.last_status = "success" /\ st.last_synced_at = req[r].now
      BY <1>0 DEF SyncState
    <2> HIDE DEF st
    <2>4. req'[r].now = req[r].now /\ req'[r].st = st
      BY <1>0, <2>2 DEF Request
    <2>5. QED
      BY <1>2, <2>3, <2>4
  <1>3. CASE SaveBegin(r)
    <2>1. req'[r] = [req[r] EXCEPT !.pc = "write"]
      BY <1>3, GoesTo DEF SaveBegin
    <2>2. QED
      BY <1>0, <1>3, <2>1 DEF Request
  <1>4. QED
    BY <1>1, <1>2, <1>3

\* The part of DatesInv about one request.
Dated(r) ==
  /\ req[r].op \in SyncOp =>
       /\ RunDay(r) <= day
       /\ file.last_synced_at # None => file.last_synced_at <= RunDay(r)
  /\ req[r].op = "scheduled" /\ file.last_synced_at # None =>
       RunDay(r) - file.last_synced_at >= file.schedule.interval_days
  /\ IF req[r].pc \in Saving /\ req[r].op \in SyncOp /\ req[r].st.last_status = "success"
       THEN req[r].st.last_synced_at = req[r].now
       ELSE Held(r).last_synced_at = file.last_synced_at

\* Days are numbers, but for the last success that there was not yet.
LEMMA DaysAreNumbers ==
  ASSUME TypeOK
  PROVE  /\ day \in Nat /\ (file.last_synced_at # None => file.last_synced_at \in Nat)
         /\ file.schedule.interval_days \in Nat
         /\ \A r \in Req : req[r].now \in Nat /\ RunDay(r) \in Nat
  <1>1. \A d \in Day : d \in Nat
    BY BoundsAssumption DEF Day
  <1>2. day \in Day /\ file.last_synced_at \in Day \cup {None} /\ file.schedule \in Schedule
    BY DEF TypeOK, SyncState
  <1>3. \A r \in Req : req[r].now \in Day
    BY DEF TypeOK, Request
  <1>4. QED
    BY <1>1, <1>2, <1>3 DEF Schedule, RunDay

\* No run counts from a day before the last success, and a scheduled one is due.
THEOREM DatesHold ==
  ASSUME ~OverlappingSyncs, ~OverlappingSaves
  PROVE  Spec => []DatesInv
  <1>1. Init => DatesInv
    BY InitialRequests, NewRecordsNothing
    DEF Init, NewState, DatesInv, OnlySyncsPull, AtMostOneRequest, Busy
  <1>2. TypeOK /\ DatesInv /\ [Next]_vars => DatesInv'
    <2> SUFFICES ASSUME TypeOK, DatesInv, [Next]_vars PROVE DatesInv'
      OBVIOUS
    <2> DEFINE Last == file.last_synced_at # None => file.last_synced_at <= day
               AllDated == Last /\ \A r \in Req : req[r].pc # "idle" => Dated(r)
    <2>0. /\ OnlySyncsPull /\ AtMostOneRequest /\ AllDated
      BY DEF DatesInv, Dated, Busy
    <2>1. ASSUME NEW r \in Req, \/ ManualTrigger(r)
                               \/ ScheduledTrigger(r)
                               \/ \E s \in Schedules : ScheduleUpdate(r, s)
          PROVE  AllDated' /\ OnlySyncsPull'
      <3>1. \A q \in Req : req[q].pc = "idle"
        BY <2>1, Started DEF CanStart
      <3>2. /\ \A q \in Req : q # r => req'[q].pc = "idle"
            /\ file' = file /\ day' = day
        BY <2>1, <3>1, Started
      <3>3. Dated(r)' /\ (req'[r].pc \in {"load", "export", "apply"} => req'[r].op \in SyncOp)
        BY <2>0, <2>1, <3>2, StartedDates, DaysAreNumbers DEF Dated, RunDay, Held, Saving, SyncOp
      <3>4. QED
        BY <2>0, <3>2, <3>3 DEF OnlySyncsPull
    <2>2. ASSUME NEW r \in Req, req[r].pc # "idle", file' = file, day' = day,
                 \A q \in Req : q # r => req'[q] = req[q],
                 req'[r].pc # "idle" => Dated(r)',
                 req'[r].pc \in {"load", "export", "apply"} => req'[r].op \in SyncOp
          PROVE  AllDated' /\ OnlySyncsPull'
      <3>1. \A q \in Req : q # r => req'[q].pc = "idle"
        BY <2>0, <2>2, OthersIdle
      <3>2. QED
        BY <2>0, <2>2, <3>1 DEF OnlySyncsPull
    <2>3. ASSUME NEW r \in Req, RunSync(r) PROVE AllDated' /\ OnlySyncsPull'
      <3>1. /\ req[r].pc = "load" /\ file' = file /\ day' = day /\ req[r].op \in SyncOp
            /\ \A q \in Req : q # r => req'[q] = req[q]
        BY <2>0, <2>3, Loaded DEF OnlySyncsPull
      <3>2. \/ req'[r].pc = "idle"
            \/ /\ req'[r].pc = "export" /\ req'[r].st = file /\ req'[r].now = day
               /\ req'[r].op = req[r].op
        BY <2>3, Loaded, LoadedDates, NewRecordsNothing
      <3>3. Dated(r)
        BY <2>0, <3>1
      <3>4. req'[r].pc # "idle" => Dated(r)'
        BY <3>1, <3>2, <3>3 DEF Dated, RunDay, Held, Saving
      <3>5. QED
        BY <2>2, <3>1, <3>2, <3>4
    <2>4. ASSUME NEW r \in Req, NEW k \in Kind, Export(r, k) PROVE AllDated' /\ OnlySyncsPull'
      <3>1. /\ req[r].pc = "export" /\ file' = file /\ day' = day /\ req[r].op \in SyncOp
            /\ \A q \in Req : q # r => req'[q] = req[q]
        BY <2>0, <2>4, Exported DEF OnlySyncsPull
      <3>2. /\ req'[r].pc \in {"export", "apply"} /\ req'[r].st = req[r].st /\ req'[r].now = req[r].now
            /\ req'[r].op = req[r].op
        BY <2>4, Exported, ExportedDates
      <3>3. Dated(r)
        BY <2>0, <3>1
      <3>4. Dated(r)'
        BY <3>1, <3>2, <3>3 DEF Dated, RunDay, Held, Saving
      <3>5. QED
        BY <2>2, <3>1, <3>2, <3>4
    <2>5. ASSUME NEW r \in Req, NEW b \in Batch, ApplyBatch(r, b) PROVE AllDated' /\ OnlySyncsPull'
      <3>1. /\ req[r].pc = "apply" /\ file' = file /\ day' = day /\ req[r].op \in SyncOp
            /\ \A q \in Req : q # r => req'[q] = req[q]
        BY <2>0, <2>5, Applied DEF OnlySyncsPull
      <3>2. /\ req'[r].pc = "apply" /\ req'[r].now = req[r].now /\ req'[r].op = req[r].op
            /\ req'[r].st.last_synced_at = req[r].st.last_synced_at
        BY <2>5, Applied, AppliedDates
      <3>3. Dated(r)
        BY <2>0, <3>1
      <3>4. Dated(r)'
        BY <3>1, <3>2, <3>3 DEF Dated, RunDay, Held, Saving
      <3>5. QED
        BY <2>2, <3>1, <3>2, <3>4
    <2>6. ASSUME NEW r \in Req, Fail(r) \/ Complete(r) \/ SaveBegin(r)
          PROVE  AllDated' /\ OnlySyncsPull'
      <3>1. /\ req[r].pc \in {"export", "apply", "save"} /\ file' = file /\ day' = day
            /\ req'[r].pc \in {"save", "write"} /\ req'[r].op = req[r].op
            /\ \A q \in Req : q # r => req'[q] = req[q]
        BY <2>6, Ended
      <3>2. Dated(r)
        BY <2>0, <3>1
      <3>3. req'[r].now = req[r].now
        BY <2>6, EndedDates
      <3>4. CASE SaveBegin(r)
        <4>1. req'[r].st = req[r].st /\ req[r].pc = "save"
          BY <3>4, Ended
        <4>2. QED
          BY <3>1, <3>2, <3>3, <4>1, <2>2 DEF Dated, RunDay, Held, Saving
      <3>5. CASE Fail(r) /\ req'[r].st.last_synced_at = req[r].st.last_synced_at
        <4>1. req[r].pc \in {"export", "apply"} /\ req'[r].st.last_status = "failed"
          BY <3>5, Ended DEF Fail
        <4>2. QED
          BY <3>1, <3>2, <3>3, <3>5, <4>1, <2>2 DEF Dated, RunDay, Held, Saving
      <3>6. CASE /\ Complete(r) /\ req'[r].st.last_status = "success"
                 /\ req'[r].st.last_synced_at = req[r].now
        <4>1. req[r].pc = "apply" /\ req[r].op \in SyncOp
          BY <2>0, <3>6 DEF Complete, OnlySyncsPull
        <4>2. QED
          BY <3>1, <3>2, <3>3, <3>6, <4>1, <2>2 DEF Dated, RunDay, Held, Saving
      <3>7. QED
        BY <2>6, <3>4, <3>5, <3>6, EndedDates
    <2>7. ASSUME NEW r \in Req, SaveEnd(r) PROVE AllDated' /\ OnlySyncsPull'
      <3>1. \A q \in Req : req'[q].pc = "idle"
        <4>1. req[r].pc # "idle" /\ req'[r].pc = "idle"
          BY <2>7, Saved, NewRecordsNothing
        <4>2. \A q \in Req : q # r => req[q].pc = "idle"
          BY <2>0, <4>1, OthersIdle
        <4>3. QED
          BY <2>7, <4>1, <4>2, Saved
      <3>2. file' = req[r].st /\ day' = day /\ req[r].pc \in {"write", "overwrite"}
        BY <2>7, Saved
      <3>3. Dated(r)
        BY <2>0, <3>2
      <3>4. Last'
        BY <2>0, <3>2, <3>3, DaysAreNumbers DEF Dated, RunDay, Held, Saving
      <3>5. QED
        BY <3>1, <3>4 DEF OnlySyncsPull
    <2>8. ASSUME NextDay PROVE AllDated' /\ OnlySyncsPull'
      <3>1. day' = day + 1 /\ UNCHANGED <<file, req>>
        BY <2>8 DEF NextDay
      <3>2. ASSUME NEW r \in Req, req[r].pc # "idle" PROVE Dated(r)'
        <4>1. Dated(r)
          BY <2>0, <3>2
        <4>2. RunDay(r)' = RunDay(r) \/ (RunDay(r) = day /\ RunDay(r)' = day + 1)
          BY <3>1 DEF RunDay
        <4>3. RunDay(r) <= RunDay(r)' /\ (RunDay(r) <= day => RunDay(r)' <= day + 1)
          BY <4>2, DaysAreNumbers
        <4>4. RunDay(r)' \in Nat
          BY <4>2, DaysAreNumbers
        <4>5. Held(r)' = Held(r)
          BY <3>1 DEF Held
        <4> HIDE DEF Last
        <4>6. QED
          BY <3>1, <4>1, <4>3, <4>4, <4>5, DaysAreNumbers DEF Dated
      <3>3. Last'
        BY <2>0, <3>1, DaysAreNumbers
      <3>4. QED
        BY <2>0, <3>1, <3>2, <3>3 DEF OnlySyncsPull
    <2>9. ASSUME Crash PROVE AllDated' /\ OnlySyncsPull'
      BY <2>0, <2>9, NewRecordsNothing DEF Crash, OnlySyncsPull
    <2>10. ASSUME (\E b \in Batch : PiIngest(b)) \/ UNCHANGED vars PROVE AllDated' /\ OnlySyncsPull'
      BY <2>0, <2>10 DEF PiIngest, vars, OnlySyncsPull, Dated, RunDay, Held
    <2>11. AllDated' /\ OnlySyncsPull'
      BY <2>1, <2>3, <2>4, <2>5, <2>6, <2>7, <2>8, <2>9, <2>10 DEF Next, Handle
    <2>12. AtMostOneRequest'
      BY <2>0, RequestsStayApart
    <2>13. QED
      BY <2>11, <2>12 DEF DatesInv, Dated, Busy
  <1>3. QED
    BY <1>1, <1>2, TypeCorrect, PTL DEF Spec

\* What a save does to the last success.
LEMMA SavesDate ==
  ASSUME TypeOK, DatesInv, NEW r \in Req, SaveEnd(r)
  PROVE  /\ file' = req[r].st
         /\ \/ file'.last_synced_at = file.last_synced_at
            \/ /\ file'.last_status = "success" /\ file'.last_synced_at = req[r].now
               /\ file.last_synced_at # None => file.last_synced_at <= req[r].now
         /\ req[r].op = "scheduled" /\ req[r].st.last_status = "success" /\ file.last_synced_at # None =>
              /\ file'.last_synced_at = req[r].now
              /\ req[r].now - file.last_synced_at >= file.schedule.interval_days
  <1>1. file' = req[r].st /\ req[r].pc \in {"write", "overwrite"}
    BY Saved
  <1>2. Dated(r)
    BY <1>1 DEF DatesInv, Dated, Busy
  <1>3. RunDay(r) = req[r].now /\ Held(r) = req[r].st
    BY <1>1 DEF RunDay, Held
  <1>4. QED
    BY <1>1, <1>2, <1>3 DEF Dated, Saving, SyncOp

\* A run that fails or is skipped does not put off the next one, and the day of the
\* last success never goes back (scrape_sync_service.py, run_sync).
THEOREM OnlySuccessesPostpone ==
  ASSUME ~OverlappingSyncs, ~OverlappingSaves
  PROVE  Spec => OnlySuccessPostpones
  <1> DEFINE Postponed == file'.last_synced_at # file.last_synced_at
                            => /\ file'.last_status = "success"
                               /\ file.last_synced_at # None => file'.last_synced_at > file.last_synced_at
  <1>1. ASSUME TypeOK, DatesInv, [Next]_vars PROVE Postponed
    <2>1. ASSUME NEW r \in Req, SaveEnd(r) PROVE Postponed
      BY <1>1, <2>1, SavesDate, DaysAreNumbers
    <2>2. file' = file \/ \E r \in Req : SaveEnd(r)
      BY <1>1 DEF Next, Handle, ManualTrigger, ScheduledTrigger, ScheduleUpdate, RunSync, Export, ApplyBatch,
                  Complete, Fail, SaveBegin, PiIngest, Crash, NextDay, vars
    <2>3. QED
      BY <2>1, <2>2
  <1>2. TypeOK /\ DatesInv /\ [Next]_vars => [Postponed]_vars
    BY <1>1
  <1>3. QED
    BY <1>2, DatesHold, TypeCorrect, PTL DEF Spec, OnlySuccessPostpones

\* Between a success and the next scheduled one lie the days of the interval
\* (scrape_sync_policy.py, should_run_sync).
THEOREM ScheduledSyncsAreApart ==
  ASSUME ~OverlappingSyncs, ~OverlappingSaves
  PROVE  Spec => ScheduledSyncsKeepApart
  <1> DEFINE Apart(r) ==
        SaveEnd(r) /\ req[r].op = "scheduled" /\ req[r].st.last_status = "success"
          /\ file.last_synced_at # None
        => file'.last_synced_at - file.last_synced_at >= file.schedule.interval_days
  <1>1. TypeOK /\ DatesInv => \A r \in Req : Apart(r)
    BY SavesDate
  <1>2. TypeOK /\ DatesInv /\ [Next]_vars => [\A r \in Req : Apart(r)]_vars
    BY <1>1
  <1>3. QED
    BY <1>2, DatesHold, TypeCorrect, PTL DEF Spec, ScheduledSyncsKeepApart

=============================================================================
