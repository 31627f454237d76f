------------------------------ MODULE Requests -------------------------------
(***************************************************************************)
(* The requests that the plan scheduler makes: the items of a plan that    *)
(* are due are executed one by one (plan_scheduler.run_once), each fetches *)
(* its page (ScrapeRunner._fetch) through the client of the process, which *)
(* keeps requests apart and tries again after a failure (http.client,      *)
(* http.rate_limiter).                                                     *)
(*                                                                         *)
(* There is one thread: sleeping is moving the clock on.  The posting of   *)
(* schedules, the files and the crashes are those of PlanScheduler.        *)
(***************************************************************************)
EXTENDS Timetable

CONSTANTS
  MinInterval, Jitter,     \* the limiter waits MinInterval, and up to Jitter more
  MaxRetries,
  BackoffBase, BackoffMax,
  Cooldown,                \* same_url_cooldown_sec
  TickLen,                 \* the scheduler sleeps this long between two passes
  Openings,                \* bound: when the process may be started
  Latency,                 \* bound: an answer comes, redirects included, or a timeout within this time
  Horizon,                 \* bound: no pass starts later
  MaxItems,                \* bound: longer plans are made but not executed
  Never                    \* no request yet, no item

ASSUME ClientAssumption ==
  /\ {MinInterval, Jitter, MaxRetries, BackoffBase, BackoffMax, Cooldown} \subseteq Nat
  /\ TickLen \in Nat \ {0} /\ Latency \in Nat \ {0}
  /\ Openings \subseteq Nat /\ Horizon \in Nat /\ MaxItems \in Nat
  /\ Never \notin Nat

\* A fact of arithmetic, which the provers do not know.
ASSUME BackoffAssumption == \A n \in 1 .. MaxRetries + 1 : BackoffBase * 2 ^ (n - 1) \in Nat

VARIABLES
  clock,
  opened,     \* when the process was started
  lastTs,     \* the limiter's _last_ts: the time of the last request
  recent,     \* the runner's _recent_url_ts: one URL for each item
  due,        \* the items of this pass that are left, as places in the queue
  item,       \* the item whose page is being fetched, or Never
  attempt,    \* requests made for it
  status,     \* the page that came for it: "none", "ok" or "error"
  step,       \* "sleep", "next", "wait", "sent" or "parse"
  completed,  \* the items counted as completed
  tried       \* history: the items whose page was asked for

client == <<clock, opened, lastTs, recent, due, item, attempt, status, step, completed, tried>>
vars == <<left, queue, client>>

Items == 1 .. Len(queue)
Planned == left = {}

RequestsTypeOK ==
  /\ TypeOK
  /\ clock \in Nat /\ opened \in Nat
  /\ lastTs \in Nat \cup {Never}
  /\ DOMAIN recent \subseteq Items /\ \A i \in DOMAIN recent : recent[i] \in Nat
  /\ due \subseteq Items /\ completed \subseteq Items /\ tried \subseteq Items
  /\ item \in Items \cup {Never}
  /\ attempt \in 0 .. MaxRetries + 1
  /\ status \in {"none", "ok", "error"}
  /\ step \in {"sleep", "next", "wait", "sent", "parse"}

RequestsInit ==
  /\ Init
  /\ opened \in Openings /\ clock = opened
  /\ lastTs \in {Never, clock}   \* it may just have fetched the race lists
  /\ recent = <<>>
  /\ due = {}
  /\ item = Never
  /\ attempt = 0
  /\ status = "none"
  /\ step = "sleep"
  /\ completed = {}
  /\ tried = {}

Plan == PlaceNext /\ UNCHANGED client

Later(a, b) == IF a >= b THEN a ELSE b

-----------------------------------------------------------------------------
(* A pass *)

\* The tail of run_forever and the start of the next pass: the items that are
\* due and not completed.
StartPass ==
  /\ Planned /\ step = "sleep"
  /\ completed # Items
  /\ clock < Horizon /\ Len(queue) <= MaxItems
  /\ clock' = clock + TickLen
  /\ due' = {i \in Items : queue[i].at <= clock' /\ i \notin completed}
  /\ step' = "next"
  /\ UNCHANGED <<opened, lastTs, recent, item, attempt, status, completed, tried>>

\* The items come in the order of their times.  The page may have been asked for
\* a moment ago: _fetch sleeps out the rest of the cooldown.
NextItem ==
  /\ step = "next" /\ due # {}
  /\ \E i \in due :
       /\ \A j \in due : i <= j
       /\ item' = i
       /\ due' = due \ {i}
       /\ clock' = IF i \in DOMAIN recent THEN Later(clock, recent[i] + Cooldown) ELSE clock
       /\ tried' = tried \cup {i}
  /\ step' = "wait"
  /\ UNCHANGED <<opened, lastTs, recent, attempt, status, completed>>

EndPass ==
  /\ step = "next" /\ due = {}
  /\ step' = "sleep"
  /\ UNCHANGED <<clock, opened, lastTs, recent, due, item, attempt, status, completed, tried>>

\* Back in run_once: the item is completed, or counted as an error.
Leave(done) ==
  /\ completed' = IF done THEN completed \cup {item} ELSE completed
  /\ item' = Never
  /\ attempt' = 0
  /\ status' = "none"
  /\ step' = "next"

-----------------------------------------------------------------------------
(* get_html *)

\* SimpleRateLimiter.wait, then the request.  The first request does not wait, and
\* redirects, which the session follows by itself, are part of the answer.
Send ==
  /\ step = "wait"
  /\ \E j \in {0, Jitter} :
       clock' = IF lastTs = Never THEN clock ELSE Later(clock, lastTs + MinInterval + j)
  /\ lastTs' = clock'
  /\ attempt' = attempt + 1
  /\ step' = "sent"
  /\ UNCHANGED <<opened, recent, due, item, status, completed, tried>>

Backoff(n) ==
  LET sec == BackoffBase * 2 ^ (n - 1) IN IF sec <= BackoffMax THEN sec ELSE BackoffMax

\* Fault: one retry too many.
TryAgainOnceMore ==
  /\ step = "sent"
  /\ attempt <= MaxRetries + 1
  /\ \E l \in 1 .. Latency : clock' = clock + l + Backoff(attempt)
  /\ step' = "wait"
  /\ UNCHANGED <<opened, lastTs, recent, due, item, attempt, status, completed, tried>>

\* The session raises, or a status that is worth another try comes.
TryAgain ==
  /\ step = "sent"
  /\ attempt <= MaxRetries
  /\ \E l \in 1 .. Latency : clock' = clock + l + Backoff(attempt)
  /\ step' = "wait"
  /\ UNCHANGED <<opened, lastTs, recent, due, item, attempt, status, completed, tried>>

\* Fault: an item that cannot be fetched ends the pass.
GiveUpEndsPass ==
  /\ step = "sent"
  /\ attempt = MaxRetries + 1
  /\ \E l \in 1 .. Latency : clock' = clock + l + Backoff(attempt)
  /\ item' = Never /\ attempt' = 0 /\ step' = "sleep" /\ due' = {}
  /\ UNCHANGED <<opened, lastTs, recent, status, completed, tried>>

\* The session raises at the last attempt; the client sleeps once more.
GiveUp ==
  /\ step = "sent"
  /\ attempt = MaxRetries + 1
  /\ \E l \in 1 .. Latency : clock' = clock + l + Backoff(attempt)
  /\ Leave(FALSE)
  /\ UNCHANGED <<opened, lastTs, recent, due, tried>>

\* A page is returned: without an error, or with a status that is not worth
\* another try or has used up its tries.  (An entry of recent whose cooldown has
\* passed is as good as none.)
Answer ==
  /\ step = "sent"
  /\ \E l \in 1 .. Latency : clock' = clock + l
  /\ recent' = [i \in {item} \cup {r \in DOMAIN recent : recent[r] + Cooldown > clock'} |->
                  IF i = item THEN clock' ELSE recent[i]]
  /\ status' \in {"ok", "error"}
  /\ step' = "parse"
  /\ UNCHANGED <<opened, lastTs, due, item, attempt, completed, tried>>

\* An error page is parsed like any other: a race card without its table raises,
\* the other parsers find nothing, and nothing found is not an error.
Parse ==
  /\ step = "parse"
  /\ Leave(status = "ok" \/ queue[item].task.kind # "deba_table")
  /\ UNCHANGED <<clock, opened, lastTs, recent, due, tried>>

Next ==
  \/ Plan
  \/ /\ StartPass \/ NextItem \/ EndPass \/ Send \/ TryAgain \/ GiveUp \/ Answer \/ Parse
     /\ UNCHANGED <<left, queue>>

RequestsSpec == RequestsInit /\ [][Next]_vars

-----------------------------------------------------------------------------
(* Properties *)

\* What one page costs at most, with its retries and the pause after a pass.
PageTime ==
  (MaxRetries + 1) * Later(MinInterval + Jitter, Latency + BackoffMax) + Latency + BackoffMax + Cooldown + TickLen

\* The pages before an item take their time in the pass that runs when the item
\* comes due, and again in the next one.
Deadline(i) == Later(queue[i].at, opened) + 2 * TickLen + (2 * i - 1) * PageTime

\* However the pages before it fail, an item is tried within the time that they
\* take in two passes: no failing page keeps the rest of the plan waiting.
TriedInTime == Planned /\ Len(queue) <= MaxItems => \A i \in Items \ tried : clock <= Deadline(i)

FinalOddsOf(s, t) ==
  s.kind = "odds" /\ s.snap = "final" /\ t.kind = "race_mark" /\ s.venue = t.venue /\ s.no = t.no
ResultOf(s, t) == s.kind = "race_mark" /\ t.kind = "refund" /\ s.venue = t.venue

\* The result page of a race is not asked for before each of the final odds
\* pages of the race was, nor the refunds of a venue before all of its results,
\* though all of these may have the same target: this hangs on the one sort of
\* the plan, on the passes keeping its order, and on no page being passed over.
ResultsAreTriedLast ==
  \A i \in tried : \A j \in Items :
    FinalOddsOf(queue[j].task, queue[i].task) \/ ResultOf(queue[j].task, queue[i].task) => j \in tried

\* docs/30_scraping_policy.md: a failed fetch is retried, logged and alerted; so
\* what is counted as completed was fetched.
CompletedWasAnswered == [][completed' # completed => status = "ok"]_vars

=============================================================================
