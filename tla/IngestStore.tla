----------------------------- MODULE IngestStore -----------------------------
(***************************************************************************)
(* The ingest files of the Pi (scraper_service.ingest.store): one file of  *)
(* lines per kind, to which the processes of the Pi append, each under a   *)
(* lock of its own, and of which an export shows the latest record of each *)
(* key.                                                                    *)
(*                                                                         *)
(* A batch larger than the writer's buffer reaches the file in two writes, *)
(* cut within a record: its "head", and its "tail" with the line end.      *)
(* What is written between the two, or after the death of the writer, ends *)
(* up on one line with the head.                                           *)
(*                                                                         *)
(* A record is [race, sub, val]: what identifies it within its kind is the *)
(* race and, by kind, a horse, a position or a snapshot kind.              *)
(***************************************************************************)
EXTENDS Integers, Sequences, FiniteSets, SequencesExt

Kinds == {"races", "race_entries", "race_cards", "odds_snapshots", "race_results", "payouts"}

\* Those whose batches outgrow the buffer of 8 KiB.
LargeKinds == {"race_cards", "odds_snapshots", "payouts"}

VARIABLE files   \* [Kinds -> Seq([part, rec, by])]: what was written, in order

Piece(part, rec, by) == [part |-> part, rec |-> rec, by |-> by]

\* _payload_key
Key(kind, rec) == <<rec.race, rec.sub>>

StoreInit == files = [k \in Kinds |-> <<>>]

\* IngestStore.append in one write, and the two writes of a large batch cut
\* within its i-th record.
AppendWhole(kind, recs, by) ==
  files' = [files EXCEPT ![kind] = @ \o [i \in DOMAIN recs |-> Piece("line", recs[i], by)]]
AppendHead(kind, recs, i, by) ==
  files' = [files EXCEPT ![kind] =
    @ \o [j \in 1 .. i |-> Piece(IF j < i THEN "line" ELSE "head", recs[j], by)]]
AppendTail(kind, recs, i, by) ==
  files' = [files EXCEPT ![kind] =
    @ \o [j \in 1 .. Len(recs) - i + 1 |-> Piece(IF j = 1 THEN "tail" ELSE "line", recs[i + j - 1], by)]]

\* The last piece of a record, complete in the file.
Complete(kind) == {i \in DOMAIN files[kind] : files[kind][i].part # "head"}

StartsLine(f, i) == i = 1 \/ f[i - 1].part # "head"

\* Fault: reading stops at the first line that does not parse.
ReadableToFirstError(kind) ==
  LET f == files[kind]
      ok == {i \in Complete(kind) :
              \/ f[i].part = "line" /\ StartsLine(f, i)
              \/ f[i].part = "tail" /\ i > 1 /\ f[i - 1] = Piece("head", f[i].rec, f[i].by) /\ StartsLine(f, i - 1)}
  IN {i \in ok : \A j \in Complete(kind) : j < i => j \in ok}

\* Fault: a file whose last line does not parse has no records.
ReadableIfWhole(kind) ==
  LET f == files[kind]
  IN {i \in Complete(kind) :
        /\ f[Len(f)].part # "head"
        /\ \/ f[i].part = "line" /\ StartsLine(f, i)
           \/ f[i].part = "tail" /\ i > 1 /\ f[i - 1] = Piece("head", f[i].rec, f[i].by) /\ StartsLine(f, i - 1)}

\* The records on a line of their own; the other lines do not parse and are
\* passed over.
Readable(kind) ==
  LET f == files[kind]
  IN {i \in Complete(kind) :
        \/ f[i].part = "line" /\ StartsLine(f, i)
        \/ f[i].part = "tail" /\ i > 1 /\ f[i - 1] = Piece("head", f[i].rec, f[i].by) /\ StartsLine(f, i - 1)}

\* list_latest: the latest record of each key, as a whole.
LatestAt(kind) ==
  LET ok == Readable(kind)
      key(i) == Key(kind, files[kind][i].rec)
  IN {i \in ok : \A j \in ok : key(j) = key(i) => j <= i}
Latest(kind) == {files[kind][i].rec : i \in LatestAt(kind)}

=============================================================================
