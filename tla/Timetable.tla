------------------------------ MODULE Timetable ------------------------------
(***************************************************************************)
(* How a plan spreads its items over the day                               *)
(* (scraper_service.scheduler.runner: _build_daily_scrape_plan and          *)
(* _schedule_plan_tasks).  Every page of a race has a target, relative to  *)
(* the start of the race; the tasks are sorted and placed one after the    *)
(* other, at their target or Interval after the task before.               *)
(*                                                                         *)
(* Times are counted from some early point of the day, so that no target   *)
(* is negative.  A definition marked "Fault" is a plausible bug in the     *)
(* definition that follows it; no specification uses it.                   *)
(***************************************************************************)
EXTENDS Integers, Sequences, FiniteSets

CONSTANTS
  Days,       \* [races, posted]: what the race lists show, and the posted snapshot kinds
  OddsPages,  \* [name, flag]: the odds pages, numbered in the order of their names
  Offset,     \* how long before the start each snapshot kind is due
  DebaLead,   \* how long before the start the race card is due
  Interval    \* PLAN_INTERVAL_SEC

AllowedKinds == {"t_minus_60m", "t_minus_30m", "final"}
PostableKinds == AllowedKinds \cup {"t_minus_20m", "t_minus_10m", "t_minus_5m", "t_minus_1m"}
Unknown == 0   \* the race list shows no start time
Races == SUBSET [venue : Nat, no : Nat \ {0}, start : Nat]

ASSUME IntervalAssumption == Interval \in Nat \ {0}
ASSUME LeadAssumption == DebaLead \in Nat
ASSUME OffsetAssumption == Offset \in [AllowedKinds -> Nat] /\ Offset["final"] = 0
ASSUME PageAssumption == IsFiniteSet(OddsPages) /\ OddsPages \subseteq [name : Nat, flag : Nat]
\* A race list is read into a map by race number, one list for each venue.
ASSUME DayAssumption ==
  \A d \in Days :
    /\ d.races \in Races
    /\ \A q, r \in d.races : q.venue = r.venue /\ q.no = r.no => q = r
    /\ d.posted \subseteq PostableKinds
    /\ \A r \in d.races : r.start # Unknown =>
         r.start >= DebaLead /\ \A k \in AllowedKinds : r.start >= Offset[k]

VARIABLES
  left,    \* the tasks that have no time yet
  queue    \* [task, at]: the tasks in the order in which they get their time

-----------------------------------------------------------------------------
(* The tasks *)

\* What is left of the posted kinds, or all allowed ones if nothing is.
NormalKinds(posted) ==
  IF posted \cap AllowedKinds = {} THEN AllowedKinds ELSE posted \cap AllowedKinds

Started(races) == {r \in races : r.start # Unknown}

\* The last races of their venues.
Last(races) == {r \in races : \A q \in races : q.venue = r.venue => q.start <= r.start}

\* _plan_priority, as a rank: the smaller the earlier.
Rank(kind, snap) == IF kind # "odds" THEN 2 ELSE IF snap = "final" THEN 1 ELSE 0

\* Names sort as DebaTable, Odds..., RaceMarkTable, RefundMoneyList.
LastName == 9
Name(kind, page) ==
  CASE kind = "deba_table" -> 0
    [] kind = "odds" -> page.name
    [] kind = "race_mark" -> LastName
    [] kind = "refund" -> LastName + 1

NoPage == [name |-> 0, flag |-> 0]
NewTask(kind, snap, page, v, no, target) ==
  [kind |-> kind, snap |-> snap, page |-> page, venue |-> v, no |-> no, target |-> target]

\* Races without a start have no tasks; the refunds of a venue are due with its
\* last race.
Tasks(day) ==
  LET races == Started(day.races)
  IN {NewTask("deba_table", "early", NoPage, r.venue, r.no, r.start - DebaLead) : r \in races}
     \cup {NewTask("odds", k, p, r.venue, r.no, r.start - Offset[k]) :
             r \in races, k \in NormalKinds(day.posted), p \in OddsPages}
     \cup {NewTask("race_mark", "final", NoPage, r.venue, r.no, r.start) : r \in races}
     \cup {NewTask("refund", "final", NoPage, r.venue, 0, r.start) : r \in Last(races)}

-----------------------------------------------------------------------------
(* The order and the times *)

\* Fault: the priority is not negated.
SortKeyPriorityUp(t) ==
  <<t.target, 2 - Rank(t.kind, t.snap), Name(t.kind, t.page), t.venue, t.no, t.page.flag>>

\* The two flags of a page have equal keys and keep the order they came in.
SortKey(t) ==
  <<t.target, Rank(t.kind, t.snap), Name(t.kind, t.page), t.venue, t.no, t.page.flag>>

Before(s, t) ==
  \E i \in 1 .. 6 : SortKey(s)[i] < SortKey(t)[i] /\ \A j \in 1 .. i - 1 : SortKey(s)[j] = SortKey(t)[j]

\* Fault: the interval is kept from the target of the task before.
PlaceFromTarget(t) ==
  LET n == Len(queue)
  IN IF n = 0 \/ queue[n].task.target + Interval <= t.target THEN t.target
     ELSE queue[n].task.target + Interval

\* A candidate is never before its target, so what the code does when it comes
\* too late for the tolerance changes nothing.
Place(t) ==
  LET n == Len(queue)
  IN IF n = 0 \/ queue[n].at + Interval <= t.target THEN t.target ELSE queue[n].at + Interval

Init == queue = <<>> /\ \E day \in Days : left = Tasks(day)

PlaceNext ==
  \E t \in left :
    /\ \A s \in left \ {t} : Before(t, s)
    /\ queue' = Append(queue, [task |-> t, at |-> Place(t)])
    /\ left' = left \ {t}

Spec == Init /\ [][PlaceNext]_<<left, queue>>

AllTasks == UNION {Tasks(day) : day \in Days}

TypeOK == left \subseteq AllTasks /\ queue \in Seq([task : AllTasks, at : Nat])

-----------------------------------------------------------------------------
(* Properties *)

\* The loop of _schedule_plan_tasks places each task as early as the targets and
\* the interval allow: whatever day it is, the place of the k-th task is the
\* largest of the targets so far, each moved on by the intervals since.
EarliestSpaced ==
  \A k \in 1 .. Len(queue) :
    /\ \A u \in 1 .. k : queue[k].at >= queue[u].task.target + (k - u) * Interval
    /\ \E u \in 1 .. k : queue[k].at = queue[u].task.target + (k - u) * Interval

=============================================================================
