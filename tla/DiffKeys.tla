------------------------------ MODULE DiffKeys ------------------------------
(***************************************************************************)
(* The keys and fingerprints of the differential synchronisation           *)
(* (services/api/app/services/scrape_sync_service.py).                      *)
(*                                                                         *)
(* A batch is one unit of work of a synchronisation: the exported items of *)
(* one kind that share a scope, which run_sync fingerprints together and   *)
(* stores with one upsert.  For the odds a batch is a single snapshot.     *)
(*   kind   the export the items come from                                 *)
(*   scope  the venue-day or the race they belong to                       *)
(*   bet    the bet type of an odds snapshot, "" for the other kinds       *)
(*   snap   the snapshot_kind of an odds snapshot, "" for the others       *)
(*   flg    its odds_flg, 0 where the payload has none                     *)
(***************************************************************************)
EXTENDS Naturals

\* The order in which run_sync calls the exports and then applies what they
\* returned.  race_changes is left out: nothing under src/ ever appends to it.
Rank == [races |-> 1, race_entries |-> 2, race_cards |-> 3,
         race_results |-> 4, payouts |-> 5, odds_snapshots |-> 6]

Kind == DOMAIN Rank

OddsPageByBetType ==
  [tansho |-> "OddsTanFuku", fukusho |-> "OddsTanFuku",
   wakuren |-> "OddsWakuLenFukuTan", wakutan |-> "OddsWakuLenFukuTan",
   umaren |-> "OddsUmLenFuku", umatan |-> "OddsUmLenTan",
   wide |-> "OddsWide", sanrenpuku |-> "Odds3LenFuku",
   sanrentan |-> "Odds3LenTan"]

PageByKind ==
  [races |-> "RaceList", race_entries |-> "DebaTable",
   race_cards |-> "RaceCards", race_results |-> "RaceMarkTable",
   payouts |-> "RefundMoneyList"]

PageType(b) == IF b.kind = "odds_snapshots" THEN OddsPageByBetType[b.bet]
                                            ELSE PageByKind[b.kind]

\* _diff_key: neither the bet type nor the kind is part of it, only the page.
\* "odds_flg or ''" gives 0 and a missing flag the same text.
DiffKey(b) == <<b.scope, PageType(b), b.snap, b.flg>>

\* _fingerprint_payload: a digest of the payload.  The payload of a batch
\* holds its race keys and, for the odds, the bet type, so two batches never
\* share a fingerprint.
Fingerprint(b, p) == <<b, p>>

\* The kinds whose payload carries captured_at: every capture on the Pi makes
\* a payload that was never exported before.  The other kinds may come back
\* to an earlier payload, as "races" does when the RaceList record and the
\* richer DebaTable record of a race alternate.
StampedKind == {"odds_snapshots", "race_cards"}
Stamped(b) == b.kind \in StampedKind

=============================================================================
