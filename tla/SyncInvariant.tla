---------------------------- MODULE SyncInvariant ----------------------------
(***************************************************************************)
(* The inductive invariants behind the safety properties of Sync.  The runs *)
(* check them on the instances, SyncSafety proves them for every instance.  *)
(***************************************************************************)
EXTENDS Sync

Busy(r) == req[r].pc # "idle"
Syncing(r) == Busy(r) /\ req[r].op \in SyncOp

\* The steps of run_sync are only taken by a synchronisation.
OnlySyncsPull == \A r \in Req : req[r].pc \in {"load", "export", "apply"} => req[r].op \in SyncOp

\* A run applies what the Pi exported, never an absent batch.
OnlyExportedApplied ==
  \A r \in Req : req[r].pc = "apply" => \A b \in req[r].todo : req[r].exp[b] # 0

AtMostOneSync == \A q, r \in Req : Syncing(q) /\ Syncing(r) => q = r

-----------------------------------------------------------------------------
(* Every interleaving *)

OnlyCommitted(st) == \A k \in Key : st.items[k] # None => st.items[k] \in committed

\* Neither the file nor any state in memory records what was not committed.
HistoryInv == OnlyCommitted(file) /\ \A r \in Req : OnlyCommitted(req[r].st)

-----------------------------------------------------------------------------
(* Captured data, no two synchronisations at once *)

\* A state may be old, but records no payload newer than the database's.
NotAhead(st) == \A b \in Captured, p \in Payload :
                  st.items[DiffKey(b)] = Fingerprint(b, p) => p <= db[b]

\* The payloads travel one way: recorded <= stored <= pulled <= captured.
CaptureInv ==
  /\ OnlySyncsPull
  /\ OnlyExportedApplied
  /\ AtMostOneSync
  /\ NotAhead(file)
  /\ \A r \in Req : NotAhead(req[r].st)
  /\ \A b \in Captured : db[b] <= pi[b]
  /\ \A r \in Req, b \in Captured :
       /\ req[r].exp[b] <= pi[b]
       /\ req[r].pc \in {"load", "export", "apply"} /\ req[r].exp[b] # 0
            => db[b] <= req[r].exp[b]

\* What a run has dealt with is stored, and stays stored until it has ended.
StoredInv ==
  \A r \in Req, b \in Captured :
    /\ req[r].op \in SyncOp
    /\ req[r].exp[b] # 0
    /\ \/ req[r].pc = "apply" /\ b \notin req[r].todo
       \/ req[r].pc \in {"save", "write", "overwrite"} /\ req[r].st.last_status = "success"
    => db[b] = req[r].exp[b]

-----------------------------------------------------------------------------
(* No two requests at once *)

AtMostOneRequest == \A q, r \in Req : Busy(q) /\ Busy(r) => q = r

\* The state a request will save, or the file while it has not loaded it.
Held(r) == IF req[r].pc = "load" THEN file ELSE req[r].st

InStep(st) == \A b \in Batch, p \in Payload :
                st.items[DiffKey(b)] = Fingerprint(b, p) => db[b] = p

\* What will be the file when the request in flight, if any, has ended agrees
\* with the database.
InStepInv ==
  /\ AtMostOneRequest
  /\ (\A r \in Req : ~Busy(r)) => InStep(file)
  /\ \A r \in Req : Busy(r) => InStep(Held(r))

\* The schedule of the file is the acknowledged one, and every request but an
\* update carries it along.
ScheduleInv ==
  /\ AtMostOneRequest
  /\ OnlySyncsPull
  /\ file.schedule = acked
  /\ \A r \in Req : Busy(r) /\ req[r].op # "update" => Held(r).schedule = acked

\* What is stored is what is recorded, the other direction: under the key of a batch
\* that is stored stands what is stored of it, or of another batch with that key.
Mirrors(st) ==
  \A b \in Batch : db[b] # 0 =>
    \E c \in Batch : DiffKey(c) = DiffKey(b) /\ st.items[DiffKey(b)] = Fingerprint(c, db[c])
MirrorInv ==
  /\ AtMostOneRequest
  /\ OnlyExportedApplied
  /\ (\A r \in Req : ~Busy(r)) => Mirrors(file)
  /\ \A r \in Req : Busy(r) => Mirrors(Held(r))

\* The day from which a run counts: that of its load, which may be yet to come.
RunDay(r) == IF req[r].pc = "load" THEN day ELSE req[r].now
Saving == {"save", "write", "overwrite"}

\* No run counts from a day before the last success; a scheduled one is due; and what
\* a request will save has the last success of the file, or its own.
DatesInv ==
  /\ AtMostOneRequest
  /\ OnlySyncsPull
  /\ file.last_synced_at # None => file.last_synced_at <= day
  /\ \A r \in Req : Busy(r) =>
       /\ req[r].op \in SyncOp =>
            /\ RunDay(r) <= day
            /\ file.last_synced_at # None => file.last_synced_at <= RunDay(r)
       /\ req[r].op = "scheduled" /\ file.last_synced_at # None =>
            RunDay(r) - file.last_synced_at >= file.schedule.interval_days
       /\ IF req[r].pc \in Saving /\ req[r].op \in SyncOp /\ req[r].st.last_status = "success"
            THEN req[r].st.last_synced_at = req[r].now
            ELSE Held(r).last_synced_at = file.last_synced_at

=============================================================================
