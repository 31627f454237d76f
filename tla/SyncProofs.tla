----------------------------- MODULE SyncProofs -----------------------------
(***************************************************************************)
(* Theorems of Sync, for every set of requests and batches and every bound. *)
(***************************************************************************)
EXTENDS Sync, TLAPS

LEMMA RankIsNat == \A k \in Kind : Rank[k] \in Nat
  BY DEF Kind, Rank

LEMMA IdleIsRequest == NewState \in SyncState /\ Idle \in Request
  <1>1. NewState \in SyncState
    BY ScheduleAssumption DEF NewState, SyncState
  <1>2. NothingExported \in [Batch -> Payload]
    BY BoundsAssumption DEF NothingExported, Payload
  <1>3. 0 \in Day
    BY BoundsAssumption DEF Day
  <1>4. Idle \in Request
    BY <1>1, <1>2, <1>3, SMTT(30) DEF Idle, Request
  <1>5. QED
    BY <1>1, <1>4

\* What a handler step does to the requests keeps their type.
LEMMA GoesKeepsType ==
  ASSUME req \in [Req -> Request], NEW r \in Req, NEW c \in Request, Goes(r, c)
  PROVE  req' \in [Req -> Request]
  BY DEF Goes

\* The type invariant: every variable, the records of the requests included,
\* keeps its type, whatever overlaps and crashes.
THEOREM TypeCorrect == Spec => []TypeOK
  <1>1. Init => TypeOK
    <2> SUFFICES ASSUME Init PROVE TypeOK
      OBVIOUS
    <2>1. 0 \in Day /\ 0 \in Payload
      BY BoundsAssumption DEF Day, Payload
    <2>2. NothingExported \in [Batch -> Payload]
      BY <2>1 DEF NothingExported
    <2>3. req \in [Req -> Request]
      BY IdleIsRequest DEF Init
    <2>4. file \in SyncState /\ acked \in Schedule
      BY IdleIsRequest, ScheduleAssumption DEF Init
    <2>5. QED
      BY <2>1, <2>2, <2>3, <2>4 DEF Init, TypeOK
  <1>2. TypeOK /\ [Next]_vars => TypeOK'
    <2> SUFFICES ASSUME TypeOK, [Next]_vars PROVE TypeOK'
      OBVIOUS
    <2> USE DEF TypeOK
    <2>1. ASSUME NEW r \in Req, ManualTrigger(r) PROVE TypeOK'
      <3> DEFINE c == [Idle EXCEPT !.pc = "load", !.op = "manual",
                                   !.diff = file.schedule.diff_enabled]
      <3>1. file.schedule.diff_enabled \in BOOLEAN
        BY DEF SyncState, Schedule
      <3>2. c \in Request
        BY <3>1, IdleIsRequest DEF Request
      <3>3. req' \in [Req -> Request]
        BY <2>1, <3>2, GoesKeepsType DEF ManualTrigger
      <3>4. QED
        BY <2>1, <3>3 DEF ManualTrigger
    <2>2. ASSUME NEW r \in Req, ScheduledTrigger(r) PROVE TypeOK'
      <3>1. file.schedule.diff_enabled \in BOOLEAN
        BY DEF SyncState, Schedule
      <3>2. [Idle EXCEPT !.pc = "load", !.op = "scheduled",
                         !.diff = file.schedule.diff_enabled] \in Request
        BY <3>1, IdleIsRequest DEF Request
      <3>3. SkipReason \in {"none", "disabled", "not_due"}
        BY DEF SkipReason
      <3>4. [file EXCEPT !.last_status = SkipReason] \in SyncState
        BY <3>3 DEF SyncState
      <3>5. [Idle EXCEPT !.pc = "save", !.op = "skip",
                         !.st = [file EXCEPT !.last_status = SkipReason]] \in Request
        BY <3>4, IdleIsRequest DEF Request
      <3>6. req' \in [Req -> Request]
        BY <2>2, <3>2, <3>5, GoesKeepsType DEF ScheduledTrigger
      <3>7. QED
        BY <2>2, <3>6 DEF ScheduledTrigger
    <2>3. ASSUME NEW r \in Req, NEW s \in Schedules, ScheduleUpdate(r, s) PROVE TypeOK'
      <3>1. [file EXCEPT !.schedule = s] \in SyncState
        BY ScheduleAssumption DEF SyncState
      <3>2. [Idle EXCEPT !.pc = "save", !.op = "update",
                         !.st = [file EXCEPT !.schedule = s]] \in Request
        BY <3>1, IdleIsRequest DEF Request
      <3>3. req' \in [Req -> Request]
        BY <2>3, <3>2, GoesKeepsType DEF ScheduleUpdate
      <3>4. QED
        BY <2>3, <3>3 DEF ScheduleUpdate
    <2>4. ASSUME NEW r \in Req, RunSync(r) PROVE TypeOK'
      <3>1. {b.kind : b \in Batch} \subseteq Kind
        BY BatchAssumption
      <3>2. [req[r] EXCEPT !.pc = "export", !.st = file, !.now = day,
                           !.calls = {b.kind : b \in Batch}] \in Request
        BY <3>1 DEF Request
      <3>3. req' \in [Req -> Request]
        BY <2>4, <3>2, IdleIsRequest, GoesKeepsType DEF RunSync
      <3>4. QED
        BY <2>4, <3>3 DEF RunSync
    <2>5. ASSUME NEW r \in Req, NEW k \in Kind, Export(r, k) PROVE TypeOK'
      <3>1. ASSUME NEW missing \in BOOLEAN PROVE AfterExport(r, k, missing) \in Request
        <4>1. Answered(r, k, missing) \in [Batch -> Payload]
          BY DEF Answered, Request
        <4> DEFINE left == req[r].calls \ {k}
                   mode == IF left = {} THEN "apply" ELSE "export"
                   work == IF left = {} THEN {b \in Batch : Answered(r, k, missing)[b] # 0}
                                        ELSE {}
        <4>2. AfterExport(r, k, missing)
                = [req[r] EXCEPT !.exp = Answered(r, k, missing), !.calls = left,
                                 !.pc = mode, !.todo = work]
          BY DEF AfterExport
        <4>3. req[r] \in Request
          OBVIOUS
        <4>4. left \in SUBSET Kind
          BY <4>3 DEF Request
        <4>5. mode \in {"export", "apply"} /\ work \in SUBSET Batch
          OBVIOUS
        <4> HIDE DEF left, mode, work
        <4>6. QED
          BY <4>1, <4>2, <4>3, <4>4, <4>5 DEF Request
      <3>2. req' \in [Req -> Request]
        BY <2>5, <3>1, GoesKeepsType DEF Export
      <3>3. QED
        BY <2>5, <3>2 DEF Export
    <2>6. ASSUME NEW r \in Req, NEW b \in Batch, ApplyBatch(r, b) PROVE TypeOK'
      <3> DEFINE p == req[r].exp[b]
                 done == [req[r] EXCEPT !.todo = @ \ {b}]
      <3>1. p \in Payload /\ Fingerprint(b, p) \in Batch \X Payload
        BY DEF Request, Fingerprint
      <3>2. done \in Request
        BY DEF Request
      <3>3. Recorded(req[r].st, b, p) \in SyncState
        BY <3>1 DEF Recorded, SyncState, Request, Key
      <3>4. [done EXCEPT !.st = Recorded(req[r].st, b, p)] \in Request
        BY <3>2, <3>3 DEF Request
      <3>5. req' \in [Req -> Request]
        BY <2>6, <3>2, <3>4, GoesKeepsType DEF ApplyBatch
      <3>6. db' \in [Batch -> Payload] /\ committed' \in SUBSET (Batch \X Payload)
        BY <2>6, <3>1 DEF ApplyBatch
      <3>7. QED
        BY <2>6, <3>5, <3>6 DEF ApplyBatch
    <2>7. ASSUME NEW r \in Req, Fail(r) PROVE TypeOK'
      <3>1. [req[r].st EXCEPT !.last_status = "failed"] \in SyncState
        BY DEF Request, SyncState
      <3>2. [req[r] EXCEPT !.pc = "save",
                           !.st = [req[r].st EXCEPT !.last_status = "failed"]] \in Request
        BY <3>1 DEF Request
      <3>3. [req[r] EXCEPT !.pc = "save", !.st.last_status = "failed"]
              = [req[r] EXCEPT !.pc = "save",
                               !.st = [req[r].st EXCEPT !.last_status = "failed"]]
        BY DEF Request
      <3>4. req' \in [Req -> Request]
        BY <2>7, <3>2, <3>3, GoesKeepsType DEF Fail
      <3>5. QED
        BY <2>7, <3>4 DEF Fail
    <2>8. ASSUME NEW r \in Req, Complete(r) PROVE TypeOK'
      <3>1. [req[r].st EXCEPT !.last_status = "success",
                              !.last_synced_at = req[r].now] \in SyncState
        BY DEF Request, SyncState
      <3>2. [req[r] EXCEPT !.pc = "save",
                           !.st = [req[r].st EXCEPT !.last_status = "success",
                                      !.last_synced_at = req[r].now]] \in Request
        BY <3>1 DEF Request
      <3>3. [req[r] EXCEPT !.pc = "save", !.st.last_status = "success",
                           !.st.last_synced_at = req[r].now]
              = [req[r] EXCEPT !.pc = "save",
                               !.st = [req[r].st EXCEPT !.last_status = "success",
                                          !.last_synced_at = req[r].now]]
        BY DEF Request
      <3>4. req' \in [Req -> Request]
        BY <2>8, <3>2, <3>3, GoesKeepsType DEF Complete
      <3>5. QED
        BY <2>8, <3>4 DEF Complete
    <2>9. ASSUME NEW r \in Req, SaveBegin(r) PROVE TypeOK'
      <3>1. [req[r] EXCEPT !.pc = "write"] \in Request
        BY DEF Request
      <3>2. req' \in [Req -> Request]
        BY <2>9, <3>1, GoesKeepsType DEF SaveBegin
      <3>3. QED
        BY <2>9, <3>2 DEF SaveBegin
    <2>10. ASSUME NEW r \in Req, SaveEnd(r) PROVE TypeOK'
      <3>1. req[r].st \in SyncState /\ req[r].st.schedule \in Schedule
        BY DEF Request, SyncState
      <3>2. \A q \in Req : [req[q] EXCEPT !.pc = "overwrite"] \in Request
        BY DEF Request
      <3>3. req' \in [Req -> Request]
        BY <2>10, <3>2, IdleIsRequest DEF SaveEnd
      <3>4. torn' \in BOOLEAN
        BY <2>10 DEF SaveEnd
      <3>5. QED
        BY <2>10, <3>1, <3>3, <3>4 DEF SaveEnd
    <2>11. ASSUME NEW b \in Batch, PiIngest(b) PROVE TypeOK'
      BY <2>11 DEF PiIngest
    <2>12. ASSUME Crash PROVE TypeOK'
      BY <2>12, IdleIsRequest DEF Crash
    <2>13. ASSUME NextDay PROVE TypeOK'
      BY <2>13, BoundsAssumption DEF NextDay, Day
    <2>14. ASSUME UNCHANGED vars PROVE TypeOK'
      BY <2>14 DEF vars
    <2>15. QED
      BY <2>1, <2>2, <2>3, <2>4, <2>5, <2>6, <2>7, <2>8, <2>9, <2>10, <2>11, <2>12,
         <2>13, <2>14 DEF Next, Handle
  <1>3. QED
    BY <1>1, <1>2, PTL DEF Spec

=============================================================================
