------------------------------- MODULE Tables --------------------------------
(***************************************************************************)
(* The rows that the upserts of api-service leave in the database          *)
(* (scrape_service, spec_race_card_ingest_service), fed by what the Pi's   *)
(* exports answer.  One race: rows of two races share nothing but horses   *)
(* and persons, and the cards of two races are two pages here.             *)
(*                                                                         *)
(* An upsert runs in a transaction of its own that reads committed rows    *)
(* (Stage), decides on them what to write, and writes when it commits.     *)
(* Unique constraints are checked against the rows as they are then        *)
(* (Rollback); CHECK constraints, which the data alone decides, are left   *)
(* out.  Columns that keep the value that was read are not written.        *)
(*                                                                         *)
(* A "Fault" definition is a plausible bug in the definition after it.     *)
(***************************************************************************)
EXTENDS Integers, FiniteSets, Functions

CONSTANTS
  Sessions,
  Pages,       \* [Kinds -> SUBSET payloads]: what the pages may show
  MaxPages,    \* bound: pages captured
  MaxCommits,  \* bound: upserts
  Null

Kinds == {"races", "race_entries", "odds_snapshots", "race_results", "payouts", "race_cards"}

\* The kinds of which a page holds several records, each with a key of its own.
Merged == {"race_entries", "race_results", "payouts"}

ASSUME PagesAssumption ==
  /\ DOMAIN Pages = Kinds /\ MaxPages \in Nat /\ MaxCommits \in Nat
  /\ Null \notin Kinds /\ \A k \in Kinds : Null \notin Pages[k]

\* The rows of a table have its columns; what a page leaves out is Null.
Values == Int \cup {Null}
EntryColumns == UNION {UNION {DOMAIN p[n] : n \in DOMAIN p} : p \in Pages["race_entries"]}
RaceRows == [{"start", "distance"} -> Values]
EntryRows == [EntryColumns -> Values]
HorseRows == [name : STRING, birth : Values, age : Values]

ASSUME RowsAssumption ==
  /\ Null \notin RaceRows \cup EntryRows \cup HorseRows
  /\ Pages["races"] \subseteq RaceRows
  /\ \A p \in Pages["race_entries"] : \A n \in DOMAIN p : p[n] \in EntryRows

\* A card has each start number and each name once.
ASSUME CardsAssumption ==
  \A p \in Pages["race_cards"] :
    /\ IsFiniteSet(p.horses)
    /\ \A h \in p.horses : [name |-> h.name, birth |-> h.birth, age |-> h.age] \in HorseRows
    /\ \A g, h \in p.horses : g.no = h.no \/ g.name = h.name => g = h

\* Of two lines of a horse the one with more columns counts, or else the first.
Outranks(lines, i, j) == \/ lines[i].rich /\ ~lines[j].rich
                         \/ lines[i].rich = lines[j].rich /\ i < j

\* A page of results has a line for each of some positions.  The parser may find a
\* horse on several of them, and on some no horse.
ASSUME ResultsAssumption ==
  \A p \in Pages["race_results"] :
    DOMAIN p \subseteq Nat /\ \A i \in DOMAIN p : p[i].rich \in BOOLEAN

VARIABLES
  store,    \* [Kinds -> payload or Null]: what the exports of the Pi answer
  db,       \* the tables
  sess,     \* [Sessions -> [kind, batch, view]]: transactions; kind Null: none
  pages,    \* bound: pages so far
  commits,  \* upserts so far (bounded); the rows of results and items carry the
            \* number of theirs, as a row that is inserted again is another row
  sheet,    \* history: [Kinds -> payload or Null]: the last page of each kind
  settled,  \* history: the kinds whose last page was stored, undisturbed
  shared    \* history: two sessions were under way at once

vars == <<store, db, sess, pages, commits, sheet, settled, shared>>

NoSession == [kind |-> Null, batch |-> Null, view |-> Null]
NoRows == [x \in {} |-> Null]
EmptyDb ==
  [race |-> Null, entries |-> NoRows, odds |-> Null, items |-> NoRows, results |-> NoRows, payouts |-> NoRows,
   card |-> Null, horses |-> NoRows, starters |-> NoRows, perf |-> NoRows, persons |-> {}]

\* The new rows, and the old ones of other keys.
Over(new, old) == [k \in DOMAIN new \cup DOMAIN old |-> IF k \in DOMAIN new THEN new[k] ELSE old[k]]

Row(rows, k) == IF k \in DOMAIN rows THEN rows[k] ELSE Null

TablesTypeOK ==
  /\ DOMAIN db = DOMAIN EmptyDb
  /\ \A k \in Kinds : store[k] # Null => sheet[k] # Null /\ DOMAIN sheet[k] \subseteq DOMAIN store[k]
  /\ \A s \in Sessions : sess[s] # NoSession => sess[s].kind \in Kinds /\ sess[s].batch # Null
  /\ \A i \in DOMAIN db.results : db.results[i].gen <= commits
  /\ \A n \in DOMAIN db.starters : /\ db.starters[n].horse \in DOMAIN db.horses
                                 /\ db.starters[n].perf \in DOMAIN db.perf \cup {Null}
  /\ DOMAIN db.perf \subseteq DOMAIN db.horses
  /\ DOMAIN db.horses = 1 .. Cardinality(DOMAIN db.horses)

TablesInit ==
  /\ store = [k \in Kinds |-> Null] /\ sheet = store
  /\ db = EmptyDb
  /\ sess = [s \in Sessions |-> NoSession]
  /\ pages = 0 /\ commits = 0
  /\ settled = {} /\ shared = FALSE

-----------------------------------------------------------------------------
(* Columns *)

\* Fault: a missing value is written too.
CoalesceWithNull(now, view, new) ==
  [c \in DOMAIN new |-> IF view = Null \/ new[c] # view[c] THEN new[c] ELSE now[c]]

\* Columns that the payload leaves out keep their value.
Coalesce(now, view, new) ==
  [c \in DOMAIN new |->
    IF view = Null \/ (new[c] # Null /\ new[c] # view[c]) THEN new[c] ELSE now[c]]

\* All columns are taken over from the payload.
Overwrite(now, view, new) ==
  [c \in DOMAIN new |-> IF view = Null \/ new[c] # view[c] THEN new[c] ELSE now[c]]

\* The rows of a table after each key of the batch was coalesced into its row.
CoalesceRows(now, view, batch) ==
  [k \in DOMAIN now \cup DOMAIN batch |->
    IF k \in DOMAIN batch THEN Coalesce(Row(now, k), Row(view, k), batch[k]) ELSE now[k]]

\* A key is inserted because it was not seen, and was inserted by another meanwhile.
Taken(now, view, keys) == \E k \in keys \ DOMAIN view : k \in DOMAIN now

\* A delete that ran after the rows "seen" were committed leaves these.
Undeleted(now, seen) == Restrict(now, {k \in DOMAIN now : Row(seen, k) # now[k]})

-----------------------------------------------------------------------------
(* upsert_results *)

\* Fault: the rows of a horse are not compared.
BestKeepsAll(batch, i) == TRUE

\* Fault: lines without a horse are compared like those of one.
BestOfNone(batch, i) ==
  \A j \in DOMAIN batch \ {i} : batch[j].horse = batch[i].horse => Outranks(batch, i, j)

\* The line of a horse with the most columns, of these the best placed; and every
\* line without a horse.
Best(batch, i) ==
  batch[i].horse # Null =>
    \A j \in DOMAIN batch \ {i} : batch[j].horse = batch[i].horse => Outranks(batch, i, j)

\* Keyed by finish position, of which a batch has one row each.
ResultRows(batch) ==
  [i \in {i \in DOMAIN batch : Best(batch, i)} |-> [horse |-> batch[i].horse, gen |-> commits]]

\* By position, or by horse, where there is one.
ResultsClash(stay, batch) ==
  LET new == ResultRows(batch)
  IN \/ DOMAIN stay \cap DOMAIN new # {}
     \/ \E i \in DOMAIN stay, j \in DOMAIN new : stay[i].horse = new[j].horse /\ new[j].horse # Null
     \/ \E i, j \in DOMAIN new : i # j /\ new[i].horse = new[j].horse /\ new[j].horse # Null

-----------------------------------------------------------------------------
(* upsert_race_card: a batch is [weather, persons, horses, at], a horse       *)
(* [no, name, birth, age, shown], "shown" if the card has figures of it       *)

\* Fault: the birthday is compared even if the card does not show it.
MatchesByBirthday(row, h) == row.name = h.name /\ row.birth = h.birth /\ h.birth # Null

\* _get_or_create_horse: by name, and by birthday if the card shows one.
Matches(row, h) == row.name = h.name /\ (h.birth # Null => row.birth = h.birth)

\* The row of each horse of a card: one of those that match, as no order is asked
\* for, or a new one.  New identities are those of a sequence.
Identities(now, view, hs) ==
  LET Known(h) == {i \in DOMAIN view.horses : Matches(view.horses[i], h)}
      new == {h \in hs : Known(h) = {}}
      n == Cardinality(DOMAIN now.horses)
      fresh == CHOOSE f \in [new -> n + 1 .. n + Cardinality(new)] : IsInjective(f)
  IN {f \in [hs -> DOMAIN view.horses \cup Range(fresh)] :
        \A h \in hs : IF h \in new THEN f[h] = fresh[h] ELSE f[h] \in Known(h)}

\* Fault: a start number that is there keeps its horse.
StartersKept(rows, byNo) == Over(rows, byNo)

\* _upsert_race_entry sets all columns.
Starters(rows, byNo) == Over(byNo, rows)

\* The horses of a card whose figures it shows, by their identities.
Shown(b, ids) == {ids[h] : h \in {h \in b.horses : h.shown}}

\* The counts and best times of a horse: one row each, set as a whole.  Those of a
\* horse that is not shown stay.
Figures(rows, shown, at) ==
  [i \in DOMAIN rows \cup shown |-> IF i \in shown THEN at ELSE rows[i]]

\* What _upsert_race_entry is given for a start: the horse, and its figures if shown.
Starter(h, ids) == [horse |-> ids[h], perf |-> IF h.shown THEN ids[h] ELSE Null]

\* upsert_race_card, with the identities that its horses got.  The row of the card
\* stands for those of the race, of its day and of the racecourse.
Card(now, view, b, ids) ==
  LET at(no) == CHOOSE h \in b.horses : h.no = no
      of(i) == CHOOSE h \in b.horses : ids[h] = i
      cols(h) == [name |-> h.name, birth |-> h.birth, age |-> h.age]
  IN [now EXCEPT
       !.card = Overwrite(@, view.card, [weather |-> b.weather]),
       !.persons = @ \cup b.persons,
       !.horses = CoalesceRows(@, view.horses, [i \in Range(ids) |-> cols(of(i))]),
       !.perf = Figures(@, Shown(b, ids), b.at),
       !.starters = Starters(@, [no \in {h.no : h \in b.horses} |-> Starter(at(no), ids)])]

-----------------------------------------------------------------------------
(* The other upserts: the tables after one, "now" being those that it commits to *)

\* _get_or_create_race: all but the cards create the race if it is not there.
WithRace(now, view) ==
  [now EXCEPT !.race = IF view.race = Null THEN [c \in {"start", "distance"} |-> Null] ELSE @]

UpsertRaces(now, view, b) == [now EXCEPT !.race = Coalesce(@, view.race, b)]
UpsertEntries(now, view, b) == [now EXCEPT !.entries = CoalesceRows(@, view.entries, b)]
UpsertPayouts(now, view, b) == [now EXCEPT !.payouts = CoalesceRows(@, view.payouts, b)]

\* The items of a snapshot are replaced: a row for each of the legs.
UpsertOdds(now, view, b, seen) ==
  [now EXCEPT
    !.odds = Overwrite(@, view.odds, [at |-> b.at]),
    !.items = Over([l \in b.legs |-> [at |-> b.at, gen |-> commits]], Undeleted(@, seen.items))]

UpsertResults(now, b, seen) ==
  [now EXCEPT !.results = Over(ResultRows(b), Undeleted(@, seen.results))]

\* The identities that the horses of a session's card may get.
Ids(now, s) == IF s.kind = "race_cards" THEN Identities(now, s.view, s.batch.horses) ELSE {NoRows}

\* What a session leaves; "seen": the rows that its deletes found.
Written(now, s, seen, ids) ==
  LET v == s.view
      b == s.batch
      base == WithRace(now, v)
  IN CASE s.kind = "races" -> UpsertRaces(base, [v EXCEPT !.race = IF @ = Null THEN base.race ELSE @], b)
       [] s.kind = "race_entries" -> UpsertEntries(base, v, b)
       [] s.kind = "payouts" -> UpsertPayouts(base, v, b)
       [] s.kind = "odds_snapshots" -> UpsertOdds(base, v, b, seen)
       [] s.kind = "race_results" -> UpsertResults(base, b, seen)
       [] s.kind = "race_cards" -> Card(now, v, b, ids)

\* A unique constraint is in the way.
Conflict(now, s, seen, ids) ==
  LET v == s.view
      b == s.batch
  IN \/ s.kind # "race_cards" /\ v.race = Null /\ now.race # Null
     \/ s.kind = "race_entries" /\ Taken(now.entries, v.entries, DOMAIN b)
     \/ s.kind = "payouts" /\ Taken(now.payouts, v.payouts, DOMAIN b)
     \/ s.kind = "odds_snapshots" /\ v.odds = Null /\ now.odds # Null
     \/ s.kind = "odds_snapshots" /\ DOMAIN Undeleted(now.items, seen.items) \cap b.legs # {}
     \/ s.kind = "race_results" /\ ResultsClash(Undeleted(now.results, seen.results), b)
     \/ s.kind = "race_cards" /\ v.card = Null /\ now.card # Null
     \/ s.kind = "race_cards" /\ (b.persons \ v.persons) \cap now.persons # {}
     \/ s.kind = "race_cards" /\ Taken(now.perf, v.perf, Shown(b, ids))
     \/ s.kind = "race_cards" /\ Taken(now.starters, v.starters, {h.no : h \in b.horses})

-----------------------------------------------------------------------------
(* Actions *)

\* The Pi captures a page.  Its export shows the latest record of each key: of the
\* kinds that are merged those stay whose keys the new page does not have.
Capture ==
  /\ pages < MaxPages
  /\ \E k \in Kinds : \E p \in Pages[k] :
       /\ store' = [store EXCEPT ![k] = IF k \in Merged /\ @ # Null THEN Over(p, @) ELSE p]
       /\ sheet' = [sheet EXCEPT ![k] = p]
       /\ settled' = settled \ {k}
  /\ pages' = pages + 1
  /\ UNCHANGED <<db, sess, commits, shared>>

\* Fault: an export that answers nothing is stored too.
StageAnything(s, k) ==
  /\ commits < MaxCommits /\ sess[s] = NoSession
  /\ sess' = [sess EXCEPT ![s] = [kind |-> k, batch |-> store[k], view |-> db]]
  /\ shared' = (shared \/ \E o \in Sessions \ {s} : sess[o] # NoSession)
  /\ UNCHANGED <<store, db, pages, commits, sheet, settled>>

\* A session takes up a batch and reads the rows it touches.
Stage(s, k) ==
  /\ commits < MaxCommits /\ sess[s] = NoSession /\ store[k] # Null
  /\ sess' = [sess EXCEPT ![s] = [kind |-> k, batch |-> store[k], view |-> db]]
  /\ shared' = (shared \/ \E o \in Sessions \ {s} : sess[o] # NoSession)
  /\ UNCHANGED <<store, db, pages, commits, sheet, settled>>

\* The deletes of a session run some time between its reads and its commit.
Commit(s) ==
  /\ sess[s] # NoSession
  /\ \E seen \in {sess[s].view, db}, ids \in Ids(db, sess[s]) :
       ~Conflict(db, sess[s], seen, ids) /\ db' = Written(db, sess[s], seen, ids)
  /\ sess' = [sess EXCEPT ![s] = NoSession]
  /\ commits' = commits + 1
  /\ settled' = IF sess[s].batch = store[sess[s].kind] THEN settled \cup {sess[s].kind} ELSE settled
  /\ UNCHANGED <<store, pages, sheet, shared>>

\* The caller gets the error; nothing of the batch is stored.
Rollback(s) ==
  /\ sess[s] # NoSession
  /\ \E seen \in {sess[s].view, db}, ids \in Ids(db, sess[s]) : Conflict(db, sess[s], seen, ids)
  /\ sess' = [sess EXCEPT ![s] = NoSession]
  /\ commits' = commits + 1
  /\ UNCHANGED <<store, db, pages, sheet, settled, shared>>

Next == Capture \/ \E s \in Sessions : Commit(s) \/ Rollback(s) \/ \E k \in Kinds : Stage(s, k)

TablesSpec == TablesInit /\ [][Next]_vars

-----------------------------------------------------------------------------
(* Properties *)

\* No unique constraint stops a session that has the database to itself, whatever the
\* pages and the rows before: results that show a horse twice, in one page or in
\* what is left of an earlier one (scrape_service.py, the note on duplicates), fail
\* no sync.
AloneSucceeds ==
  ~shared => \A s \in Sessions : sess[s] # NoSession =>
    \A ids \in Ids(db, sess[s]) : ~Conflict(db, sess[s], db, ids)

\* After the last page of results was stored, a position of the page that is stored
\* has the horse of the page; and a line is missing only because its horse stands at
\* another position, never a line without a horse.  So it is although the export
\* shows old lines beside the new ones, and whatever was stored before.
ResultsFollowThePage ==
  "race_results" \in settled /\ ~shared =>
    LET page == sheet["race_results"]
        rows == db.results
    IN \A i \in DOMAIN page :
         IF i \in DOMAIN rows THEN rows[i].horse = page[i].horse
         ELSE page[i].horse # Null /\ \E j \in DOMAIN rows : rows[j].horse = page[i].horse

Kept(old, new) == old # Null => \A c \in DOMAIN old : old[c] # Null => new[c] # Null

\* What is known of a race, of an entry (in races and race_entries; the rows that come
\* with the cards are overwritten) or of a horse is not forgotten because a page
\* leaves it out, also if two sessions store different pages at once.
KnownStays ==
  [][/\ Kept(db.race, db'.race)
     /\ \A n \in DOMAIN db.entries : n \in DOMAIN db'.entries /\ Kept(db.entries[n], db'.entries[n])
     /\ \A i \in DOMAIN db.horses : i \in DOMAIN db'.horses /\ Kept(db.horses[i], db'.horses[i])]_vars

\* Sessions one after the other: the rows of one name have different birthdays, and
\* only the first of them may lack it.  So a horse has at most two rows, one from
\* before its birthday was seen and one since, although the table has no constraint
\* and cards may leave the birthday out.
HorsesUnique ==
  ~shared => \A i, j \in DOMAIN db.horses :
    i < j /\ db.horses[i].name = db.horses[j].name =>
      db.horses[j].birth # Null /\ db.horses[i].birth # db.horses[j].birth

\* After the last card was stored, each of its start numbers leads to a horse of
\* that name and from there to the figures of that card, or to none if the card
\* shows none, also if the number had another horse before, and the horse figures.
CardIsLinked ==
  "race_cards" \in settled /\ ~shared =>
    \A h \in sheet["race_cards"].horses :
      LET s == db.starters[h.no]
      IN /\ db.horses[s.horse].name = h.name
         /\ IF h.shown THEN s.perf = s.horse /\ db.perf[s.perf] = sheet["race_cards"].at ELSE s.perf = Null

=============================================================================
