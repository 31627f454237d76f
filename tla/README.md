# keiba-ai: a TLA+ verification project

This directory holds TLA+ models of keiba-ai, a system that scrapes the race
pages of regional horse racing on a Raspberry Pi and pulls what it captured into
a database on a PC. The models are checked with TLC on small instances, and the
theorems about them are proved with TLAPS for every value of the constants.

* `PROJECT.json` lists the components, the runs, the mutants that show each
  property can fail, the source lines behind each definition, the findings, the
  hazards and the theorems.
* A definition whose comment starts with "Fault" is a plausible bug in the
  definition after it. It belongs to no specification: a mutant puts it in the
  place of its successor, and the property it is paired with must then fail.

## 1. The system

| Part | Keeps | Operations | Talks to |
|---|---|---|---|
| api-service: synchronisation (`scrape_sync_service`, `scrape_sync_state`, `scrape_sync_policy`, `scrape_control_service`) | the sync state file: fingerprints per difference key, schedule, last status and success | manual sync, scheduled sync, schedule update, status | pulls seven exports from the Pi over HTTP, upserts into the database |
| api-sync cron (`services/api/cron/cron_sync.py`) | nothing | posts the scheduled sync, gives up after 10 s | api-service |
| api-service: upserts (`scrape_service`, `spec_race_card_ingest_service`) | the PC's database | one committing upsert per batch | called by the sync and by the `/scrape/*` routes |
| api-service: authentication (`auth_service`, `token_store`, `oauth_client_service`) | users, clients, the current and revoked refresh tokens | login, refresh with rotation, logout, client life cycle | frontend, scripts |
| scraper-service: control server (`control_server.py`) | `schedule.json`, one worker for manual scrapes | schedule get and post, exports, manual scrape, plan | api-service |
| scraper-scheduler (`scheduler/daemon.py`, `plan_scheduler.py`, `runner.py`) | the plan of the date, the state of that plan | every 10 s: build a plan if needed, execute due items, save progress | files shared with the control server and the cron, the racing site |
| scraper-cron (`cron/cron_run.py`) | a lock against itself | every 2 min: fetch what is in its time windows; write a plan if there is none | control server, the same files |
| ingest store (`ingest/store.py`) | one `jsonl` file per kind | append, export the latest record per key | all scraper processes |
| HTTP client, rate limiter | the time of the last request | fetch with retries | the racing site |
| frontend, nginx, pipeline, worker, health server, fixtures, parsers | nothing that another part relies on | | |

Hard behaviours: every HTTP request of the api is a thread with a state store of
its own, so the lock of the store excludes nobody and the file is shared by
whole-file load and save; four processes of the Pi share files that are
truncated before they are written; processes die between two steps; a caller
gives up while its request runs on; stamps have a resolution of a second; a
schedule is read at one moment and a plan made from it minutes later.

What makes each part correct:

* Synchronisation: what the differential rule skips is in the database; a
  recorded fingerprint was committed; a success means everything was stored; a
  posted schedule stands; scheduled runs keep their interval; what the Pi
  captured finally arrives.
* Plan scheduler: what is called completed was executed; a crash costs a bounded
  number of repetitions; no item runs twice under a plan; the plan is that of
  the schedule; every due item is finally executed.
* Timetable and requests: the plan is the earliest that keeps the interval; a
  failing page does not keep the rest waiting; result pages come after the odds
  of their race and refunds after all results.
* Jobs and ingest store: an export never loses a record nor goes back to an
  earlier one; a torn line costs what was on it; odds that count as final were
  captured about the start; a job that came to its end left nothing out; the
  control server does not stay busy.
* Upserts: what is known is not forgotten because a page leaves it out; the
  results follow the page; no page and no row of before makes an upsert fail on a
  unique constraint while it has the database to itself; a horse gets a second
  row only for the birthday that its first one lacks, and its card leads to it.
* Signing in: a session goes on while its tabs refresh, ends with a logout, and
  no call waits for ever.

## 2. Modules

| Module | What it is |
|---|---|
| `DiffKeys` | Pure: the kinds of exports, the order in which they are applied, the difference key and the fingerprint of a batch |
| `Sync` | The handlers of the api that touch the sync state file, `run_sync` step by step, the Pi's exports, crashes; its properties |
| `MonotoneCopy` | Abstract: a copy that only ever takes over versions of its source that it does not have yet, and never goes back |
| `SyncInvariant` | The inductive invariants behind the safety properties of `Sync` |
| `SyncProofs` | Type correctness of `Sync` |
| `SyncSafety` | Theorems without overlapping synchronisations, and that `Sync` implements `MonotoneCopy` |
| `SyncExclusive` | Theorems while requests do not overlap at all: schedules, skips, unchanged batches, the days of scheduled runs |
| `PlanScheduler` | The scheduler's loop with its files, the posts, the legacy cron, crashes; its properties and what makes them inductive |
| `PlanProofs` | Theorems of `PlanScheduler` |
| `Timetable` | The tasks of a day and how `_schedule_plan_tasks` spreads them, task by task |
| `Requests` | Extends `Timetable`: the passes of the scheduler over the plan, and `get_html` with its limiter, retries, backoff and cooldown |
| `RequestsProofs` | Theorems of `Timetable` and `Requests` |
| `LatestRecords` | Abstract: a store that shows a record of every key seen so far, which only later ones replace |
| `IngestStore` | The files of the Pi: appends in one write or cut in two, the lines that parse, the latest record of each key |
| `Scrape` | Extends `IngestStore`: manual jobs, the cron's runs and the items of the plan, page by page |
| `ScrapeProofs` | Theorems of `IngestStore` and `Scrape`, with the refinement of `LatestRecords` |
| `Tables` | The rows that the upserts of the PC leave, with their keys and unique constraints, for several sessions |
| `TablesProofs` | Theorems of `Tables` |
| `Session` | The tabs of a browser with their tokens, and the refresh tokens of the api |
| `SessionProofs` | Theorems of `Session` |
| `MCSync`, `MCPlan`, `MCRequests`, `MCScrape`, `MCTables`, `MCSession` | Instances for TLC |

How they fit together. `Timetable` says when the items are due that
`PlanScheduler` treats as given (`Timetables`), and `Requests` what a pass does
with them while it asks for their pages. `Scrape` says what the pages give and
how it gets into the files; `ImplementsLatest` is what `Sync` relies on when it
lets an export (`pi`) move from one payload of a batch to a newer one. `Tables`
opens the committing upsert that is one step (`ApplyBatch`) of `Sync`. They are
modules of their own because the product of their states is out of TLC's reach
and they touch each other at these seams only.

### Sync

A batch is what one upsert takes: the race list of a venue-day, a race card, an
odds snapshot of a bet type and so on. Its payload is a number, and the sha256
fingerprint is the pair of batch and payload, since two different payloads have
different fingerprints. `pi` is what an export answers, `db` what was last
upserted, `file` the state file as it parses and `torn` whether it does. A
request `r` has a program counter and the local variables of its handler: the
`SyncState` it loaded (`st`), the exports it has (`exp`), those it has still to
call and the batches it has still to apply.

| Action | Code |
|---|---|
| `ManualTrigger`, `ScheduledTrigger`, `ScheduleUpdate` | the three handlers of `ScrapeControlService`; a skipped scheduled run saves the whole state with the reason |
| `RunSync` | the second load, at the start of `run_sync` |
| `Export(r, k)` | one HTTP call; only race-cards may answer 404, on an older scraper |
| `ApplyBatch(r, b)` | skip, or upsert and commit, then record in memory, kind by kind in the order of the stages |
| `Fail(r)` | any exception: the state is saved as failed, with what earlier batches recorded |
| `Complete(r)` | the end of `run_sync` |
| `SaveBegin`, `SaveEnd` | `write_text` truncates, then writes; two writers may garble the file |
| `PiIngest`, `Crash`, `NextDay` | the environment |

Payloads with `captured_at` (race cards and odds snapshots, `Stamped`) never
come back to an earlier value; the others may. `last_status` holds "disabled" or
"not_due" where the code holds "skipped" and a reason.

### PlanScheduler

One race date. A task is a page of a race at a snapshot kind, an item is a task
at a time, as `_plan_item_key` identifies it. `pc` goes through `run_once`:
`LoadSchedule`, `LoadPlan`, `BuildPlan` (the fetch of the race lists, minutes
long, ends with the plan's stamp and the truncation of its file), `WritePlan`,
`LoadState`, then the due items in the order of their times (`SkipCompleted`,
`Execute`, `ExecuteFails`), with a save after every `SaveEvery` successes and at
the end (`SaveState`, `EndPass`, `Sleep`). What the pass knows is lost with
`Leave`. An unreadable schedule and any exception of `build_plan` end the
process, as no one catches them; `Restart` is the operator's
`docker compose up`. `PostBegin` and `PostEnd` are the control server's write of
the schedule, the `Cron...` actions the legacy cron that writes a plan if it
finds none.

A schedule's `wanted` stands for its venues and snapshot kinds together: the set
of tasks a plan made from it holds. When they are due (`Timetables`) follows from
the race lists fetched and is left open.

### Timetable and Requests

A task is a page of a race at a snapshot kind with its target; `SortKey` is the
key by which the plan is sorted, and `PlaceNext` one turn of the loop that gives
the next task its time. What the code does with a task that comes too late for
the tolerance changes nothing, since no candidate is before its target. A start
time that the list does not show is `Unknown`, and such a race has no tasks.

There is one thread, so sleeping is moving the clock on: `StartPass` (the tail of
`run_forever` and the selection of the due items), `NextItem` (with the cooldown of
the URL), `Send` (the limiter and the request), then `TryAgain`, `GiveUp` or
`Answer`, and `Parse`. A page comes as `ok` or as `error`: `get_html` returns the
last answer whatever its status, and only the parser of race cards raises on it.
Redirects, which the session follows without the limiter, are part of the answer
(`Latency`). The cooldown is kept by item; in the code it is kept by URL, and an
item has one.

### IngestStore and Scrape

A file is a sequence of pieces. A batch larger than the writer's buffer may reach
the file in two writes, cut within a record (`AppendHead`, `AppendTail`); whatever
is written after a head that is not closed ends up on its line and is lost with
it. `Readable` are the records on a line of their own, `Latest` what an export
shows.

| Action | Code |
|---|---|
| `SubmitScrape`, `RunScrape`, `EndJob` | `ControlApp`: one worker, one future |
| `RunCron` | a turn of `cron_run`, with its lock |
| `ExecuteItem` | an item of the plan that is due (`Timetable` keeps it from its target on) |
| `FetchList`, `FetchDebaPage`, `Stamp` and `FetchOdds`, `FetchResults`, `FetchRefunds` | one page each, in the order of `run_once` and `run_scheduled`; a page may show nothing, and a card without its table raises |
| `FetchFails` | a fetch that is out of retries ends the job |
| `Append1`, `Append2` | the batches that a page gave, one after the other |
| `Kill`, `Tick` | the environment |

`known` holds the races whose start the job knows, which decide when refunds are
due; the card's post time is a fallback for the list's. `captured_at` is taken
before the page is asked for (`Stamp`).

### Tables

A session reads the rows it touches and the batch (`Stage`), and commits what
follows from them (`Commit`) or meets a unique constraint (`Rollback`). Columns
whose value does not change are not written, as SQLAlchemy does it, so two
sessions may both succeed on one row. Rows that a session deletes and inserts
anew (results, odds items) are those it found when the delete ran, before or
after the other's commit. `Matches` is the lookup of a horse: by name, and by
birthday only if the card shows one. A card sets the figures of the horses it
shows figures of (`Shown`); older ones of the others stay, but its starters do not
lead to them (`Starter`). Jockeys, trainers and owners are `persons`, which are
inserted once. `Best` picks the line of a horse with the most columns and keeps
every line that the parser found no horse on. `Capture` is the export seen from
here: of the kinds in `Merged` it shows older records besides those of the last
page, as their keys are positions, horses or legs. One race; a second card is
another page. CHECK constraints, which the data of a page alone decides, are left
out.

### Session

A refresh token is its number, and the access token issued with it has the same.
`current` and `revoked` are kept in Redis or, if it does not answer when a
request's store is made, in the memory of the process. `CheckRefresh` and
`Rotate` are the two halves of a refresh, around the reading of the user. A tab
has at most one refresh under way, which its calls share (`Wait`), and one login
or logout. The jar and the local storage belong to all tabs. Connections break
before or after the request was handled (`Lose`), pages are loaded again
(`Reload`), the api restarts, tokens expire, the user logs in elsewhere.

## 3. Runs

| Run | Instance | Shows |
|---|---|---|
| `sync_crash` | two requests, a card and an odds snapshot, two payloads each, crashes, failures, an older scraper, skipped runs that save over a sync | what is skipped was stored, a success stored everything, records were committed, and the refinement of `MonotoneCopy` |
| `sync_live` | one request at a time, crashes and failures, fairness | the database catches up unless a crash tore the state file |
| `sync_reverts` | one request at a time, three days, a race list that may revert, two bet types of one odds page, schedules posted in between | skips are safe for reverting payloads too, schedules stand, what is stored is uploaded again only if another batch has taken its key, only success postpones, scheduled runs keep their interval |
| `sync_stale` (violation) | two overlapping syncs | a skipped batch is not in the database |
| `plan_crash` | kills at any step, the legacy cron, posts at any moment, with and without venues | completed means executed, and the file lags by fewer than `SaveEvery` items |
| `plan_settled` | failing builds and items, torn schedules, restarts; no kill, no cron, no post during a build; fairness | the plan is that of the schedule, no item twice under a plan, every due item executed |
| `plan_missed` (violation) | posts at any moment | a schedule posted during a build never gets a plan |
| `requests` | days of one to three races in one or two venues, pages that fail, are slow or answer errors, a scheduler started in time or late | the timetable is the earliest that keeps the interval; every item is tried in bounded time; results come last |
| `requests_lost` (violation) | the same | an item whose page only ever answered an error is completed |
| `scrape` | two of the three processes at once, before, at and after two races, one of which the list shows without its start; two faults: kills, failed fetches, empty pages, appends cut in two | the exports implement `LatestRecords`; a tear costs two records at most; final odds are late, a finished job is complete, refunds are not early, and jobs end |
| `tables` | two sessions, up to three pages of any kind: poorer, richer, read wrong, with older records left in the export | nothing known of races, race_entries and horses is forgotten; and for sessions one after the other, results follow the page, a horse has no more rows than its birthday explains, cards lead to their horses and figures, and no unique constraint is met |
| `session` | two tabs, three requests and a call, one fault | a session stays, a logout stays, calls end |

Bounds and why they suffice:

* Two requests of `Sync`: the hazards are a pair of requests over one file; a
  third one adds no new kind of overlap, and the theorems hold for any number.
* Two batches: one to fail and one before or after it; two kinds, so that the
  order of the stages and the 404 of one export matter.
* Two payloads, so that a newer one replaces an older one and one may revert;
  days 0 to 2 with intervals of one and two days, so that a run is due on the
  very day, too early, and late.
* Two tasks that may be due together or one after the other; `SaveEvery` 2
  instead of 5, so that the save in the middle of a pass happens; two seconds on
  the clock, or three with fairness, so that a stamp is equal to, before and
  after another.
* In `sync_reverts` the race list has two payloads and a key of its own, and the
  two bet types that meet in a key have one each (`CapturedOnce`), which is enough
  for them to take it from each other run after run; odds that change are in
  `sync_crash`.
* `Requests`: offsets, interval and waits are scaled down together, so that tasks
  collide, wait and meet their targets exactly; one retry and two attempts show
  every order of failures; plans of more than `MaxItems` are spread but not
  executed, and no pass starts after `Horizon`.
* `Scrape`: the minutes are one before, one at and one long after the starts,
  chosen so that the refunds of the first race are out and those of the second
  are not. The cron's window for results lies between two of them; the pages it
  would fetch there are those of a manual job. A cut counts as a fault, so that
  it may be followed by one kill; each process begins one job, as each of its
  jobs starts from nothing.
* `Tables`: three pages are a poor, a rich and a contradicting one of a kind, or
  of kinds that meet in a row; commits are bounded by four. Of the results there
  is a short page, a longer one with a horse on two positions, and one with no
  horse on any line; of the cards one that leaves a birthday out and one that
  shows it for the same name, each with and without figures.
* `Session`: a third tab or a second call meets the same shared jar and store.
* `CHECK_DEADLOCK FALSE` is set where the system can stop: once the sync state
  file does not parse no request does anything, and elsewhere a bound is reached.

Fairness. `Sync`: a handler that was started goes on (its client times out after
5 s); somebody asks for synchronisations again and again; an export, a load or
an upsert that is retried for ever does not fail for ever. These are the cron
and the user, and the assumption that a poison batch is cured: the code retries
but does not set a failing batch aside. `PlanScheduler`: the loop of
`run_forever`; an operator who starts a dead container again; the clock; kills
and posts that come to an end; no build and no item that always fails. The run
has no kills; those of `plan_crash` are about safety. `Scrape`: the worker of
the executor runs, and every fetch of its job returns or raises, as the client
has a timeout and bounded retries. `Session`: the api handles what reaches it
and the browser hears of it; a lost connection is an answer too.

## 4. Findings

Three disagreements between the code and its documents are kept as runs that must
find a violation; `PROJECT.json` quotes the documents.

1. Overlapping synchronisations hide an old snapshot behind the newer
   fingerprint (`sync_stale`).
2. A schedule posted during a build, or in the second of the plan's stamp, never
   gets a plan (`plan_missed`).
3. A page that answers an error until the retries are used up completes its item
   (`requests_lost`).

One more is plain from the code and has no run: a manual job has a client of its
own, and with it a limiter that has seen no request (`_run_scrape`), so the minute
that `config.py` asks for between the requests of manual runs is kept within a
job and not between one job and the next.

Other consequences of the code that the models show, and on which no document
speaks: a posted sync schedule is lost to a request that loaded the state before
(so `AcknowledgedScheduleStands` is claimed without overlap); bet types that
share a page share a difference key, and are uploaded at every run (so
`UnchangedIsSkipped` excepts batches whose key another one has taken); a plan
that is made again executes past items again; of two overlapping refreshes of
one token only the later stays valid (so `KeepsSession` is claimed without
overlap); an export of results shows the rows of an older, longer page besides
those of a shorter new one, and these are stored where they name another horse
than the page, or name one in more columns than it (so `ResultsFollowThePage`
speaks of the positions of the page only); a horse whose first card leaves the
birthday out gets a second row from a card that shows it (so `HorsesUnique`
allows two); the rows of race and race_entry that come with a card are
overwritten, with missing values too (so `KnownStays` leaves them out).

## 5. Proofs

All theorems are checked by `tlapm` to the last leaf. `MayCrash`,
`OverlappingSyncs` and the other flags are constants of the models: a theorem
that needs one to be false says so in its statement.

**Type correctness** (`TypeCorrect`, `PlanTypeCorrect`): for every value of the
constants.

**Sync, any interleaving.** `RecordsAreCommitted` follows from `HistoryInv`:
neither the file nor any state in memory names a fingerprint that was not
committed. The states in memory must be part of it, since any of them may
become the file.

**Sync, no two synchronisations at once**, whatever crashes, fails, or saves an
old state in between (`CaptureHolds`, `StampedSkipsAreSafe`, `SuccessIsStored`,
`SyncImplementsCopy`). That a skipped batch is stored is not inductive: the file
may be behind the database after a crash or after a skipped run saved an old
state. `CaptureInv` orders the payloads along their way instead, recorded <=
stored <= pulled <= captured, for the file and every state in memory; a recorded
fingerprint of the newest payload then forces the stored one. This is where
`captured_at` is used: for payloads that may revert there is no such order.
`SyncImplementsCopy` maps each upsert of a captured batch to a step of
`MonotoneCopy` and everything else to a stutter.

**Sync, one request at a time** (`InStepHolds`, `AcknowledgedSchedulesStand`,
and without crashes `EverySkipsAreSafe`): the state that is, or will be, the file
agrees with the database and with the acknowledged schedule. A crash between a
commit and the save breaks this for payloads that revert. `UnchangedAreSkipped`
needs the other direction (`MirrorInv`): for what is stored the state names that
batch or another one of the same key, which is stored as well. Of two bet types
that share a page, and thereby a key, each overwrites the fingerprint of the
other, and both are stored again; for a batch with a key of its own the theorem
says that it is not. `OnlySuccessesPostpone` and `ScheduledSyncsAreApart` follow from
`DatesInv`, crashes included: the last success of what a request holds is that of
the file until it has completed, and no run counts from a day before it.

**Plan scheduler, any interleaving** (`CompletedAreExecuted`,
`LossesAreBounded`): `ExecutedInv` adds that the state of a pass names the plan
of that pass, `LossInv` that what the file lacks is counted by the counter of
the pass.

**Plan scheduler without the cron** (`PlansFollowSchedules` when nothing is posted
during a build or in the second of its stamp; `ExecutedOncePerPlan` when nobody
kills the scheduler): `FollowsInv` says that no post overtakes a build and that a
plan not older than the schedule is the schedule's; `RemembersInv`, with
`StampsInv`, that a new plan's stamp is later than every execution so far, so
that the completions of an older plan are never needed again.

**Timetable and requests** (`TimetableIsEarliest`, `RequestsTypeCorrect`), for
every day, client and moment of starting. `EarliestSpaced` is inductive by
itself: the next place is its target, or the interval after the last one, whose
own bound moves on by it; that targets are sorted is not even needed.
`RequestsInv` adds to the types which number of attempts goes with which step,
from which follows the bound on retries, and that nothing is sent before the
plan is made. It assumes that the backoffs are natural numbers
(`BackoffAssumption`), as the provers do not know powers; TLC evaluates it.

`ResultsComeLast` has two halves: the plan is sorted by the key and by its times
(`OrderInv`, from the proof of the timetable), and no pass passes an item over
(`PassInv`: what precedes an item that was tried was tried, or is in the same
pass). It assumes that a list has each race number once, as the code reads a list
into a map by race number. `EveryItemIsTriedInTime` counts: `Timely` bounds the
clock at every step by the time of the item, one tick, and the longest a page can
take (`PageTime`) for each item before it.

**Ingest store and jobs** (`FilesImplementLatest`, `TearsCostTwo`), for any
processes that die or interrupt each other. Whether a record can be read depends
on the two pieces before it only, so an append changes nothing about what could
be read (`ReadableStays`), and each step of `Scrape` shows the same or a later
record of a key. That a tear costs two records is not inductive: the second one
may still be in the hands of the process that was cut. `LossInv` counts the lost
ones and those processes together (`Doomed`). `FinalOddsAreLate` and
`RefundsWait` rest on what the pages of a job are (`PagesInv`): the model takes
them from `FlattenSeq`, a recursive function, and what is needed of it is shown
with a smallest counterexample.

That a job leaves nothing out (`JobsAreComplete`) follows from `CompleteInv`,
whatever the other processes append meanwhile. A listed race has its pages among
those that were asked for or are still on the list of the job (`Ahead`); once its
card was asked for, each record of the card is in the export or in hand
(`CardWritten`); the poorer record is out of hand before any card is asked for
(`ListFirstInv`), so the richer one comes after it; and no later job has the name
of an earlier one (`IssuedInv`), so what the export has of this job it wrote. The
i-th race of a list is `Nth`, a choice by counting, as the provers do not know
how the library sorts.

**Upserts** (`TablesAreTyped`, `KnownIsKept`), for any number of transactions in
any order: what a transaction read is still there, with no less in it
(`SessionOK`), so a column that it does not write keeps what it has. And while
they do not overlap (`AloneIsServed`, `ResultsAreThePage`, `HorsesAreUnique`,
`CardsAreLinked`): `AloneInv` says that each sees what it commits to, `ResultsInv`
that of the results the best lines of the export are stored. That a horse of the
page is among these, at its own or at another position, needs a best line to
exist: `Outranks` orders the lines of a horse, and of any of them the one with the
smallest position among the richest is the best (`BestIsThere`, with the smallest
number of a set from well-foundedness). The assumptions on the pages are what the
parsers give: rows with the columns of the schema, and a card with each start
number and each name once. Of the results only that positions are numbers.

**Signing in** (`SessionsAreTyped`, `LogoutsStay`, `SessionsAreKept`): after a
handled logout the current token of the shared store is none or a revoked one,
and no refresh that was checked there is half done until the next login
(`LogoutStays` is inductive beside the types); and while nothing is disturbed the
jar of the browser holds the current token, or the one answer that is under way
does (`KeepsInv`).

Only model-checked: the liveness properties `CatchesUp`, `DueGetsDone`, `JobsEnd`
and `CallsEnd`; liveness and ENABLED are out of TLAPS's reach. Every other property
of a passing run is a theorem.

## 6. Not modelled

* Parsers, HTML, wording, logging, rendering: data that no property tells apart.
  What a parser can yield is an input of `Requests`, `Scrape` and `Tables`.
* The race-changes stage of `run_sync`: no process of the Pi emits race changes.
* The prefetch of future race lists by the scheduler, and the raw pages that the
  client stores for inspection: nothing reads them again.
* Two posts of the scrape schedule at once (the hazard is listed).
* The client credentials grant, passwords, and the life cycle of OAuth clients:
  single-row updates by one administrator.
* Migrations: run once, at the start of the single api process.
* The read side of the api, the health server, the fixture downloader, the
  pipeline and worker stubs, nginx: no state that anything relies on.
* `sync/diff.py` and `sync/policy.py` of the scraper: nothing calls them.

## 7. Plan

Done: synchronisation, plan scheduler, timetable and requests, ingest store and
jobs, upserts and signing in, with their proofs. Left: the hazards that no
property covers yet, of them first two posts of the scrape schedule at once, and
a schedule that is changed during a pass.
