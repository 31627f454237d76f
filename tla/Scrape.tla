------------------------------- MODULE Scrape --------------------------------
(***************************************************************************)
(* The three processes that scrape: the control server with its manual     *)
(* jobs (ControlApp, ScrapeRunner.run_once), the legacy cron (cron_run,    *)
(* ScrapeRunner.run_scheduled) and the plan scheduler                      *)
(* (ScrapeRunner.execute_plan_item).  Each fetches one page after the other *)
(* and appends what it finds to the ingest files; an exception ends the    *)
(* job, or the item.                                                       *)
(*                                                                         *)
(* One venue and one day; times in minutes.  The odds pages of a race are  *)
(* one page here.  A "Fault" definition is a plausible bug in the          *)
(* definition after it.                                                    *)
(***************************************************************************)
EXTENDS IngestStore

CONSTANTS
  Races,       \* race numbers
  Start,       \* [Races -> Nat]: post times
  InList,      \* the races whose post time the race list shows
  InCard,      \* the races whose post time the header of the race card shows
  Horses,      \* the horses of a race, numbered from 1
  Posted,      \* the snapshot kinds of the schedule
  Casts,       \* bound: how many jobs or items each process may begin
  Times,       \* bound: the minutes at which the clock stands
  MaxFaults    \* bound

Procs == {"manual", "cron", "scheduler"}
Target == [t_minus_60m |-> 60, t_minus_30m |-> 30, t_minus_20m |-> 20, t_minus_10m |-> 10,
           t_minus_5m |-> 5, t_minus_1m |-> 1, final |-> 0]
Labels == DOMAIN Target \cup {"manual"}
All == 0       \* a manual job for all races of the venue
NoTime == -1

ASSUME RacesAssumption ==
  Races \subseteq Nat \ {0} /\ Horses \subseteq Nat \ {0} /\ IsFiniteSet(Races) /\ IsFiniteSet(Horses)
ASSUME StartAssumption == Start \in [Races -> Nat] /\ InList \subseteq Races /\ InCard \subseteq Races
ASSUME BoundsAssumption ==
  Casts \subseteq [Procs -> Nat] /\ Times \subseteq Nat /\ MaxFaults \in Nat /\ Posted \subseteq DOMAIN Target

VARIABLES
  clock,
  left,      \* [Procs -> Nat], bound: the jobs that each process may still begin
  todo,      \* [Procs -> Seq(page)]: the pages that the job of each process still fetches
  out,       \* [Procs -> Seq(batch)]: what is still appended of the page at hand
  cut,       \* [Procs -> Nat]: where the batch in hand was cut, 0 if it was not
  now,       \* [Procs -> Nat]: when the job began (of the scheduler: never mind)
  stamp,     \* [Procs -> Nat]: captured_at of the odds in hand
  known,     \* [Procs -> SUBSET Races]: the races whose start the job knows
  job,       \* [Procs -> JobStates]; one that "raises" has something to append still
  only,      \* the race of the manual job, or All
  faults,    \* bound: kills, failed fetches, empty pages and batches cut so far
  asked,     \* history: the pages that the manual job fetched
  torn       \* history: how often a write was glued to the head of another

JobStates == {"none", "queued", "runs", "raises", "done", "failed"}
Active == {"runs", "raises"}

jvars == <<clock, left, todo, out, cut, now, stamp, known, job, only, faults, asked, torn>>
vars == <<files, jvars>>

Page(p, r, label) == [page |-> p, race |-> r, label |-> label]
Batch(kind, recs) == [kind |-> kind, recs |-> recs]
Rec(r, sub, val) == [race |-> r, sub |-> sub, val |-> val]

ScrapeInit ==
  /\ StoreInit
  /\ clock \in Times /\ \A t \in Times : clock <= t
  /\ left \in Casts
  /\ todo = [p \in Procs |-> <<>>]
  /\ out = [p \in Procs |-> <<>>]
  /\ cut = [p \in Procs |-> 0]
  /\ now = [p \in Procs |-> clock]
  /\ stamp = [p \in Procs |-> NoTime]
  /\ known = [p \in Procs |-> {}]
  /\ job = [p \in Procs |-> "none"]
  /\ only = All
  /\ faults = 0
  /\ asked = {}
  /\ torn = 0

\* Bound: a job looks at the clock when it begins and when it takes odds; at
\* other times the clock stands.
Tick ==
  /\ \A p \in Procs : job[p] \in Active => out[p] = <<>> /\ todo[p] # <<>> /\ Head(todo[p]).page = "odds"
  /\ \E t \in Times : t > clock /\ clock' = t /\ \A u \in Times : u > clock => t <= u
  /\ UNCHANGED <<files, left, todo, out, cut, now, stamp, known, job, only, faults, asked, torn>>

-----------------------------------------------------------------------------
(* What is due, from minutes before the start (d) *)

\* _select_manual_snapshot_kind: the nearest target, the earlier of two.
ManualLabel(r, t) ==
  LET d == Start[r] - t
      Far(k) == IF d >= Target[k] THEN d - Target[k] ELSE Target[k] - d
      Timed == DOMAIN Target \ {"final"}
  IN IF r \notin InList THEN "manual"
     ELSE IF d <= 0 THEN "final"
     ELSE CHOOSE k \in Timed : \A l \in Timed \ {k} :
            Far(k) < Far(l) \/ (Far(k) = Far(l) /\ Target[k] > Target[l])

\* _scheduled_due_kinds; the schedule's other kinds are dropped before.
Window(k) == CASE k = "final" -> 0 .. 1 [] k = "t_minus_30m" -> 28 .. 32 [] k = "t_minus_60m" -> 58 .. 62
NormalKinds ==
  LET allowed == {"t_minus_60m", "t_minus_30m", "final"}
  IN IF Posted \cap allowed = {} THEN allowed ELSE Posted \cap allowed
DueKinds(d) == {k \in NormalKinds : d \in Window(k)}

FetchDeba(d) == d \in 20 .. 60 \/ d \in 8 .. 12
FetchMark(d) == -d \in 10 .. 60

\* run_once also tries when it does not know the start.
ManualMark(r, t) == r \in InList => t - Start[r] >= 10

\* _should_fetch_refund: 90 minutes after the last start that is known.
RefundDue(p, races) == races # {} /\ \A r \in races : now[p] - Start[r] >= 90

-----------------------------------------------------------------------------
(* Jobs *)

Begin(p, pages) ==
  /\ todo' = [todo EXCEPT ![p] = pages]
  /\ now' = IF p = "scheduler" THEN now ELSE [now EXCEPT ![p] = clock]
  /\ known' = [known EXCEPT ![p] = {}]
  /\ stamp' = [stamp EXCEPT ![p] = NoTime]
  /\ job' = [job EXCEPT ![p] = "runs"]

\* POST /control/scrape, unless the job before is not done: that answers 409.
SubmitScrape ==
  /\ left["manual"] > 0
  /\ job["manual"] \notin {"queued", "runs", "raises"}
  /\ left' = [left EXCEPT !["manual"] = @ - 1]
  /\ job' = [job EXCEPT !["manual"] = "queued"]
  /\ only' \in Races \cup {All}
  /\ asked' = {}
  /\ UNCHANGED <<files, clock, todo, out, cut, now, stamp, known, faults, torn>>

\* The executor's only worker takes it up (_run_scrape).
RunScrape ==
  /\ job["manual"] = "queued"
  /\ Begin("manual", <<Page("list", All, "none")>>)
  /\ UNCHANGED <<files, clock, left, out, cut, only, faults, asked, torn>>

\* cron_run, which skips a turn while another one holds the lock.
RunCron ==
  /\ left["cron"] > 0
  /\ job["cron"] \notin Active
  /\ left' = [left EXCEPT !["cron"] = @ - 1]
  /\ Begin("cron", <<Page("list", All, "none")>>)
  /\ UNCHANGED <<files, clock, out, cut, only, faults, asked, torn>>

\* Fault: a snapshot that is planned for the start may be taken early.
PlanTimeAnyOdds(page) ==
  CASE page.page = "deba" -> Start[page.race] - 75
    [] page.page = "odds" -> Start[page.race] - 60
    [] page.page = "mark" -> Start[page.race]
    [] page.page = "refund" -> Max({Start[r] : r \in InList})

\* An item is executed once it is due, which Timetable keeps from its target on.
PlanTime(page) ==
  CASE page.page = "deba" -> Start[page.race] - 75
    [] page.page = "odds" -> Start[page.race] - Target[page.label]
    [] page.page = "mark" -> Start[page.race]
    [] page.page = "refund" -> Max({Start[r] : r \in InList})

\* execute_plan_item
ExecuteItem ==
  /\ left["scheduler"] > 0
  /\ job["scheduler"] \notin Active
  /\ left' = [left EXCEPT !["scheduler"] = @ - 1]
  /\ \E page \in [page : {"deba", "mark"}, race : InList, label : {"none"}]
                  \cup [page : {"odds"}, race : InList, label : NormalKinds]
                  \cup {Page("refund", All, "none") : r \in InList} :
       clock >= PlanTime(page) /\ Begin("scheduler", <<page>>)
  /\ UNCHANGED <<files, clock, out, cut, only, faults, asked, torn>>

-----------------------------------------------------------------------------
(* Pages *)

Ask(r, label) == Page("odds", r, label)

\* Fault: the race card is fetched in its windows only.
ManualPagesInWindow(r, t) ==
  (IF FetchDeba(Start[r] - t) THEN <<Page("deba", r, "none")>> ELSE <<>>)
  \o <<Ask(r, ManualLabel(r, t))>>
  \o (IF ManualMark(r, t) THEN <<Page("mark", r, "none")>> ELSE <<>>)

\* What run_once and run_scheduled fetch for a race.
ManualPages(r, t) ==
  <<Page("deba", r, "none"), Ask(r, ManualLabel(r, t))>>
  \o (IF ManualMark(r, t) THEN <<Page("mark", r, "none")>> ELSE <<>>)
CronPages(r, t) ==
  IF r \notin InList THEN <<>>
  ELSE (IF FetchDeba(Start[r] - t) THEN <<Page("deba", r, "none")>> ELSE <<>>)
       \o SetToSeq({Ask(r, k) : k \in DueKinds(Start[r] - t)})
       \o (IF FetchMark(Start[r] - t) THEN <<Page("mark", r, "none")>> ELSE <<>>)

\* The i-th of a set of numbers, in order.
Nth(S, i) == CHOOSE n \in S : Cardinality({m \in S : m < n}) = i - 1

Wanted(p) == IF p = "manual" /\ only # All THEN {only} ELSE Races

JobPages(p) ==
  FlattenSeq([i \in 1 .. Cardinality(Wanted(p)) |->
    LET r == Nth(Wanted(p), i)
    IN IF p = "manual" THEN ManualPages(r, now[p]) ELSE CronPages(r, now[p])])
  \o <<Page("refund", All, "none")>>

\* Each job appends as itself.
By(p) == <<p, left[p]>>

\* The page at hand is done: what it gives is to be appended.
Found(p, batches, pages) ==
  /\ out' = [out EXCEPT ![p] = batches]
  /\ todo' = [todo EXCEPT ![p] = pages \o Tail(@)]
  /\ asked' = IF p = "manual" THEN asked \cup {Head(todo[p])} ELSE asked

Faulty == faults < MaxFaults /\ faults' = faults + 1

\* Nothing is found on the page.
Empty(p) == Faulty /\ Found(p, <<>>, <<>>)
Full(p, batches, pages) == Found(p, batches, pages) /\ UNCHANGED faults

Ready(p, page) == job[p] = "runs" /\ out[p] = <<>> /\ todo[p] # <<>> /\ Head(todo[p]).page = page

PoorRaces == [i \in 1 .. Cardinality(Races) |-> Rec(Nth(Races, i), 0, "poor")]

\* The race list: all races with their post times and nothing else, or nothing.
\* A job for one race raises if it is not there.
FetchList(p) ==
  /\ Ready(p, "list")
  /\ \/ /\ Full(p, <<Batch("races", PoorRaces)>>, JobPages(p))
        /\ known' = [known EXCEPT ![p] = Wanted(p) \cap InList]
        /\ UNCHANGED job
     \/ /\ Empty(p)
        /\ job' = IF p = "manual" /\ only # All THEN [job EXCEPT ![p] = "raises"] ELSE job
        /\ UNCHANGED known
  /\ UNCHANGED <<files, clock, left, cut, now, stamp, only, torn>>

\* Fault: the post time of the card is not looked at.
KnownFromList(p, r) == known[p]

\* The start that the header of a card shows is a fallback for the refunds; an
\* item of the plan does not look at it.
KnownFromCard(p, r) == IF p = "scheduler" THEN known[p] ELSE known[p] \cup ({r} \cap InCard)

Entries(r) == [i \in 1 .. Cardinality(Horses) |-> Rec(r, Nth(Horses, i), "entry")]

\* The race card: entries, card and a richer race, in this order.  A page without
\* the table of the card raises, after its entries if another table has them.
FetchDebaPage(p) ==
  /\ Ready(p, "deba")
  /\ LET r == Head(todo[p]).race
     IN \/ /\ Full(p, <<Batch("race_entries", Entries(r)), Batch("race_cards", <<Rec(r, 0, "card")>>),
                         Batch("races", <<Rec(r, 0, "rich")>>)>>, <<>>)
           /\ known' = [known EXCEPT ![p] = KnownFromCard(p, r)]
           /\ UNCHANGED job
        \/ /\ Faulty
           /\ out' = [out EXCEPT ![p] = <<Batch("race_entries", Entries(r))>>]
           /\ todo' = [todo EXCEPT ![p] = <<>>]
           /\ job' = [job EXCEPT ![p] = "raises"]
           /\ UNCHANGED <<known, asked>>
  /\ UNCHANGED <<files, clock, left, cut, now, stamp, only, torn>>

\* captured_at is taken before the page is asked for.
Stamp(p) ==
  /\ Ready(p, "odds") /\ stamp[p] = NoTime
  /\ stamp' = [stamp EXCEPT ![p] = clock]
  /\ UNCHANGED <<files, clock, left, todo, out, cut, now, known, job, only, faults, asked, torn>>

FetchOdds(p) ==
  /\ Ready(p, "odds") /\ stamp[p] # NoTime
  /\ LET page == Head(todo[p])
         odds == Rec(page.race, page.label, [at |-> stamp[p], isFinal |-> page.label = "final"])
     IN Full(p, <<Batch("odds_snapshots", <<odds>>)>>, <<>>) \/ Empty(p)
  /\ stamp' = [stamp EXCEPT ![p] = NoTime]
  /\ UNCHANGED <<files, clock, left, cut, now, known, job, only, torn>>

\* Results that are not out yet, or an error page, are nothing found.
FetchResults(p) ==
  /\ Ready(p, "mark")
  /\ LET r == Head(todo[p]).race
         rows == [i \in 1 .. Cardinality(Horses) |-> Rec(r, i, "result")]
     IN Full(p, <<Batch("race_results", rows)>>, <<>>) \/ Empty(p)
  /\ UNCHANGED <<files, clock, left, cut, now, stamp, known, job, only, torn>>

\* A manual job for one race, and an item of the plan, take the refunds in any case.
FetchRefunds(p) ==
  /\ Ready(p, "refund")
  /\ IF p = "scheduler" \/ (p = "manual" /\ only # All) \/ RefundDue(p, known[p])
     THEN LET rows == [i \in 1 .. Cardinality(Races) |-> Rec(Nth(Races, i), 0, "payout")]
          IN Full(p, <<Batch("payouts", rows)>>, <<>>) \/ Empty(p)
     ELSE todo' = [todo EXCEPT ![p] = Tail(@)] /\ UNCHANGED <<out, faults, asked>>
  /\ UNCHANGED <<files, clock, left, cut, now, stamp, known, job, only, torn>>

\* An exception: of a fetch that ran out of retries, or of a card that does not
\* parse.  The future keeps it to itself; the job is over.
FetchFails(p) ==
  /\ job[p] = "runs" /\ out[p] = <<>> /\ todo[p] # <<>>
  /\ Faulty
  /\ todo' = [todo EXCEPT ![p] = <<>>]
  /\ job' = [job EXCEPT ![p] = "failed"]
  /\ UNCHANGED <<files, clock, left, out, cut, now, stamp, known, only, asked, torn>>

-----------------------------------------------------------------------------
(* Appends *)

Glued(kind) == files[kind] # <<>> /\ Last(files[kind]).part = "head"

Append1(p) ==
  /\ out[p] # <<>> /\ cut[p] = 0
  /\ LET b == Head(out[p])
     IN /\ \/ /\ AppendWhole(b.kind, b.recs, By(p)) /\ out' = [out EXCEPT ![p] = Tail(@)]
              /\ UNCHANGED <<cut, faults>>
           \/ /\ b.kind \in LargeKinds /\ Faulty
              /\ \E i \in DOMAIN b.recs : AppendHead(b.kind, b.recs, i, By(p)) /\ cut' = [cut EXCEPT ![p] = i]
              /\ UNCHANGED out
        /\ torn' = IF Glued(b.kind) THEN torn + 1 ELSE torn
  /\ UNCHANGED <<clock, left, todo, now, stamp, known, job, only, asked>>

Append2(p) ==
  /\ out[p] # <<>> /\ cut[p] # 0
  /\ LET b == Head(out[p])
     IN /\ AppendTail(b.kind, b.recs, cut[p], By(p))
        /\ torn' = IF Glued(b.kind) /\ Last(files[b.kind]).by # By(p) THEN torn + 1 ELSE torn
  /\ out' = [out EXCEPT ![p] = Tail(@)]
  /\ cut' = [cut EXCEPT ![p] = 0]
  /\ UNCHANGED <<clock, left, todo, now, stamp, known, job, only, faults, asked>>

\* Fault: a future that raised is never done.
EndJobIfNoException(p) ==
  /\ job[p] = "runs" /\ out[p] = <<>> /\ todo[p] = <<>>
  /\ job' = [job EXCEPT ![p] = "done"]
  /\ UNCHANGED <<files, clock, left, todo, out, cut, now, stamp, known, only, faults, asked, torn>>

EndJob(p) ==
  /\ job[p] \in Active /\ out[p] = <<>> /\ todo[p] = <<>>
  /\ job' = [job EXCEPT ![p] = IF @ = "runs" THEN "done" ELSE "failed"]
  /\ UNCHANGED <<files, clock, left, todo, out, cut, now, stamp, known, only, faults, asked, torn>>

\* A process is killed; the control server forgets its job.  Bound: with something
\* in hand, as otherwise it differs in nothing from a fetch that fails.
Kill(p) ==
  /\ Faulty
  /\ job[p] = "queued" \/ out[p] # <<>>
  /\ todo' = [todo EXCEPT ![p] = <<>>]
  /\ out' = [out EXCEPT ![p] = <<>>]
  /\ cut' = [cut EXCEPT ![p] = 0]
  /\ job' = [job EXCEPT ![p] = "none"]
  /\ UNCHANGED <<files, clock, left, now, stamp, known, only, asked, torn>>

Step(p) ==
  \/ FetchList(p) \/ FetchDebaPage(p) \/ Stamp(p) \/ FetchOdds(p) \/ FetchResults(p)
  \/ FetchRefunds(p) \/ FetchFails(p) \/ Append1(p) \/ Append2(p) \/ EndJob(p)

Next ==
  \/ Tick \/ SubmitScrape \/ RunScrape \/ RunCron \/ ExecuteItem
  \/ \E p \in Procs : Step(p) \/ Kill(p)

\* The executor's thread runs: every fetch returns or raises in bounded time.
Fairness == WF_vars(RunScrape) /\ WF_vars(Step("manual"))

ScrapeSpec == ScrapeInit /\ [][Next]_vars /\ Fairness

-----------------------------------------------------------------------------
(* Properties *)

\* A torn line costs its own record and the one glued to it, and nothing else of
\* what was written completely: no writer that dies, or gets between the two
\* writes of another, makes the records of later appends unreadable.
LossPerTear ==
  \A k \in Kinds : Cardinality(Complete(k) \ Readable(k)) <= 2 * torn

\* The exports implement the abstract store: whatever the processes append at the
\* same time, and wherever one of them dies, what an export shows of a key is
\* never lost and never goes back to an earlier record.
Shown(k) ==
  LET latest == LatestAt(k)
      key(i) == Key(k, files[k][i].rec)
  IN [c \in {key(i) : i \in latest} |-> CHOOSE i \in latest : key(i) = c]
Store == INSTANCE LatestRecords WITH Kind <- LargeKinds, shown <- [k \in LargeKinds |-> Shown(k)]
ImplementsLatest == Store!Spec

\* Whichever process took it, an odds snapshot that is exported as final was
\* captured no earlier than a minute before the start.
FinalsAreLate ==
  \A o \in Latest("odds_snapshots") : o.val.isFinal => o.val.at >= Start[o.race] - 1

Wrote(k, rec) == \E i \in Complete(k) : files[k][i].rec = rec /\ files[k][i].by = By("manual")

\* A manual job for the venue that began ten minutes after the last race and came
\* to its end has asked for the card, the odds and the results of every race it
\* found listed; it has written all cards and entries, and the richer record of
\* each race after the poorer one, which an export would show otherwise.
CompleteAfterwards ==
  LET f == files["races"]
      poor(r) == {i \in DOMAIN f : f[i].rec = Rec(r, 0, "poor") /\ f[i].by = By("manual")}
      rich(r) == {i \in DOMAIN f : f[i].rec = Rec(r, 0, "rich") /\ f[i].by = By("manual")}
      listed == {r \in Races : poor(r) # {}}
  IN job["manual"] = "done" /\ only = All /\ listed # {}
     /\ (\A r \in Races : now["manual"] - Start[r] >= 10)
     => \A r \in listed :
             /\ {Page("deba", r, "none"), Page("mark", r, "none")} \subseteq asked
             /\ \E a \in asked : a.page = "odds" /\ a.race = r
             /\ \A h \in Horses : Wrote("race_entries", Rec(r, h, "entry"))
             /\ \E i \in rich(r) : \A j \in poor(r) : j < i

\* A manual job for the venue does not ask for the refunds, which are out 90
\* minutes after the last race, before that time of any race of which it saw the
\* post time, in the list or on a card.
RefundsNotEarly ==
  only = All /\ Page("refund", All, "none") \in asked =>
    \A r \in Races : (r \in InList \/ (r \in InCard /\ Page("deba", r, "none") \in asked)) =>
      now["manual"] - Start[r] >= 90

\* The control server does not stay busy: a job that it accepted comes to an end.
JobsEnd == job["manual"] \in {"queued", "runs", "raises"} ~> job["manual"] \in {"none", "done", "failed"}

=============================================================================
