------------------------------- MODULE MCSync -------------------------------
(***************************************************************************)
(* Small instances of Sync.  The batches are those of one race r1 at one   *)
(* venue-day v1.                                                           *)
(***************************************************************************)
EXTENDS SyncInvariant

\* The race list of the venue-day, which may come back to an earlier payload.
RaceList == [kind |-> "races", scope |-> "v1", bet |-> "", snap |-> "", flg |-> 0]
\* A race card: optional export, stamped with captured_at.
Card == [kind |-> "race_cards", scope |-> "r1", bet |-> "", snap |-> "", flg |-> 0]
Odds(bet) == [kind |-> "odds_snapshots", scope |-> "r1", bet |-> bet,
              snap |-> "final", flg |-> 0]

CapturedBatches == {Card, Odds("umaren")}
\* Two bet types that come from one odds page, and so share a diff key.
OnePageBatches == {Odds("tansho"), Odds("fukusho")}
ListAndOnePage == {RaceList} \cup OnePageBatches
OneSnapshot == {Odds("wide")}

Sched(on, days, diff) == [enabled |-> on, interval_days |-> days, diff_enabled |-> diff]
Default == Sched(FALSE, 2, TRUE)
EveryDay == {Sched(TRUE, 1, TRUE)}
\* Closed under a post that leaves diff_enabled out, and so keeps it.
DiffOnOff == {Sched(TRUE, days, diff) : days \in {1, 2}, diff \in BOOLEAN}
NoUpdates == {}

=============================================================================
