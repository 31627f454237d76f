--------------------------- MODULE PlanScheduler ----------------------------
(***************************************************************************)
(* The plan scheduler of the Pi (scraper_service.scheduler.daemon): the    *)
(* process that builds the plan of a race date from the posted schedule    *)
(* and executes its items when they are due.                               *)
(*                                                                         *)
(* It shares three files with the other processes of the Pi: the schedule, *)
(* which the control server writes; the plan of the date, which the legacy *)
(* cron writes too; and the state of the plan, which is its own.  Every     *)
(* write truncates the file first.  Time is counted in seconds, and stamps *)
(* carry no fraction of them.                                              *)
(*                                                                         *)
(* A definition marked "Fault" is a plausible bug in the definition that   *)
(* follows it; no specification uses it.                                   *)
(***************************************************************************)
EXTENDS Naturals, FiniteSets

CONSTANTS
  Task,         \* what a plan may hold: a page of a race at a snapshot kind
  Timetables,   \* [Task -> Time]: when the tasks are due as the race list stands
  Posts,        \* the [enabled, wanted] a user may post
  SaveEvery,    \* 5: the state is saved each time this many items are done
  MaxTime,      \* bound: the clock runs over 0..MaxTime
  Missing, Torn,   \* a file that is not there, a file that does not parse
  MayCrash,     \* may the scheduler be killed between two steps?
  LegacyCron,   \* is the scraper-cron container started too?
  SettledPosts  \* is nothing posted while a plan is built, or in the second of its stamp?

Time == 0 .. MaxTime
Item == [task : Task, at : Time]
Schedule == [enabled : BOOLEAN, wanted : SUBSET Task, updated : Time]
\* A plan records the settings it was built from (snapshot_kinds, its items).
Plan == [wanted : SUBSET Task, gen : Time, items : SUBSET Item]
PlanState == [gen : Time \cup {Missing}, completed : SUBSET Item]

ASSUME BoundsAssumption == MaxTime \in Nat /\ SaveEvery \in Nat \ {0}
ASSUME TimetableAssumption == Timetables \subseteq [Task -> Time]
ASSUME PostAssumption == Posts \subseteq [enabled : BOOLEAN, wanted : SUBSET Task]
ASSUME FileAssumption == Missing # Torn /\ {Missing, Torn} \cap (Time \cup Plan \cup PlanState) = {}
ASSUME FlagAssumption == {MayCrash, LegacyCron, SettledPosts} \subseteq BOOLEAN

VARIABLES
  clock,      \* seconds of the day in Japan
  schedule,   \* schedule.json, as last written
  posting,    \* schedule.json is being rewritten: a reader finds it torn
  planFile,   \* scrape_plan_<date>.json
  stateFile,  \* scrape_plan_state_<date>.json
  pc,         \* where the scheduler is in run_once; "dead" when its process is gone
  sched,      \* the schedule this pass loaded
  now,        \* the clock as this pass read it
  plan,       \* the plan of this pass
  mem,        \* the PlanState of this pass
  left,       \* the due items the pass has not reached
  unsaved,    \* executed % SaveEvery
  cron,       \* the run of the legacy cron: its step, and the plan it makes
  done        \* history: <<gen, item>> of every successful execution

vars == <<clock, schedule, posting, planFile, stateFile, pc, sched, now, plan, mem,
          left, unsaved, cron, done>>

\* The variables that only the scheduler has.
pass == <<pc, sched, now, plan, mem, left, unsaved>>

NoSchedule == [enabled |-> FALSE, wanted |-> {}, updated |-> 0]
NoPlan == [wanted |-> {}, gen |-> 0, items |-> {}]
NoCron == [step |-> "idle", plan |-> NoPlan]
Fresh(gen) == [gen |-> gen, completed |-> {}]

TypeOK ==
  /\ clock \in Time
  /\ schedule \in Schedule
  /\ posting \in BOOLEAN
  /\ planFile \in Plan \cup {Missing, Torn}
  /\ stateFile \in PlanState \cup {Missing, Torn}
  /\ pc \in {"sleep", "plan", "build", "write", "state", "run", "save", "end", "dead"}
  /\ sched \in Schedule
  /\ now \in Time
  /\ plan \in Plan
  /\ mem \in PlanState
  /\ left \in SUBSET Item
  /\ unsaved \in 0 .. SaveEvery - 1
  /\ cron \in [step : {"idle", "fetch", "planned", "write"}, plan : Plan]
  /\ done \in SUBSET (Time \X Item)

Init ==
  /\ clock = 0
  /\ schedule = NoSchedule
  /\ posting = FALSE
  /\ planFile = Missing
  /\ stateFile = Missing
  /\ pc = "sleep"
  /\ sched = NoSchedule
  /\ now = 0
  /\ plan = NoPlan
  /\ mem = Fresh(Missing)
  /\ left = {}
  /\ unsaved = 0
  /\ cron = NoCron
  /\ done = {}

-----------------------------------------------------------------------------
(* The start of run_once *)

\* What a pass knows is local to it: nothing but the files outlives it.
Leave(where) ==
  /\ pc' = where
  /\ sched' = NoSchedule
  /\ now' = 0
  /\ plan' = NoPlan
  /\ mem' = Fresh(Missing)
  /\ left' = {}
  /\ unsaved' = 0

\* A schedule that does not parse raises through run_forever and ends the
\* process: its container has no restart policy.
LoadSchedule ==
  /\ pc = "sleep"
  /\ \/ posting /\ Leave("dead")
     \/ ~posting /\ ~schedule.enabled /\ Leave("sleep")
     \/ /\ ~posting /\ schedule.enabled
        /\ pc' = "plan"
        /\ sched' = schedule
        /\ now' = clock
        /\ UNCHANGED <<plan, mem, left, unsaved>>
  /\ UNCHANGED <<clock, schedule, posting, planFile, stateFile, cron, done>>

\* Fault: the stamps are not compared, a plan that exists is used.
OutdatedIfAbsent(p) == p \in {Missing, Torn}

Outdated(p) == p \in {Missing, Torn} \/ sched.updated > p.gen

LoadPlan ==
  /\ pc = "plan"
  /\ IF Outdated(planFile)
     THEN pc' = "build" /\ UNCHANGED plan
     ELSE pc' = "state" /\ plan' = planFile
  /\ UNCHANGED <<clock, schedule, posting, planFile, stateFile, sched, now, mem, left,
                 unsaved, cron, done>>

-----------------------------------------------------------------------------
(* build_plan *)

\* Tasks whose time is over are planned as well.
PlanOf(settings, timetable) ==
  [wanted |-> settings.wanted, gen |-> clock,
   items |-> {[task |-> t, at |-> timetable[t]] : t \in settings.wanted}]

\* What the file holds once a truncated file is written: if another process has
\* written it meanwhile, the tail of the longer text may stay.
WrittenOver(file, text) == IF file = Torn THEN {text} ELSE {text, Torn}

\* The race lists have been fetched, which may take minutes; the plan gets its
\* stamp and the file is truncated.  Without a venue build_plan raises.
BuildPlan ==
  /\ pc = "build"
  /\ sched.wanted # {}
  /\ \E timetable \in Timetables : plan' = PlanOf(sched, timetable)
  /\ planFile' = Torn
  /\ pc' = "write"
  /\ UNCHANGED <<clock, schedule, posting, stateFile, sched, now, mem, left, unsaved,
                 cron, done>>

\* Any exception of build_plan ends the process, like that of a torn schedule.
BuildFails ==
  /\ pc = "build"
  /\ Leave("dead")
  /\ UNCHANGED <<clock, schedule, posting, planFile, stateFile, cron, done>>

WritePlan ==
  /\ pc = "write"
  /\ planFile' \in WrittenOver(planFile, plan)
  /\ pc' = "state"
  /\ UNCHANGED <<clock, schedule, posting, stateFile, sched, now, plan, mem, left,
                 unsaved, cron, done>>

-----------------------------------------------------------------------------
(* The items *)

\* Fault: what was completed under an older plan is kept.
LoadStateKeeps ==
  /\ pc = "state"
  /\ mem' = IF stateFile \in {Missing, Torn} THEN Fresh(plan.gen)
            ELSE [stateFile EXCEPT !.gen = plan.gen]
  /\ left' = {i \in plan.items : i.at <= now}
  /\ unsaved' = 0
  /\ pc' = "run"
  /\ UNCHANGED <<clock, schedule, posting, planFile, stateFile, sched, now, plan, cron, done>>

\* Fault: the state of the date is not read back.
LoadStateStartsAfresh ==
  /\ pc = "state"
  /\ mem' = Fresh(plan.gen)
  /\ left' = {i \in plan.items : i.at <= now}
  /\ unsaved' = 0
  /\ pc' = "run"
  /\ UNCHANGED <<clock, schedule, posting, planFile, stateFile, sched, now, plan, cron, done>>

\* A state of another plan, or one that does not parse, counts as none.
LoadState ==
  /\ pc = "state"
  /\ mem' = IF stateFile \in {Missing, Torn} THEN Fresh(plan.gen)
            ELSE IF stateFile.gen # plan.gen THEN Fresh(plan.gen)
            ELSE stateFile
  /\ left' = {i \in plan.items : i.at <= now}
  /\ unsaved' = 0
  /\ pc' = "run"
  /\ UNCHANGED <<clock, schedule, posting, planFile, stateFile, sched, now, plan, cron, done>>

Reached(i) == pc = "run" /\ i \in left /\ \A j \in left : i.at <= j.at

SkipCompleted(i) ==
  /\ Reached(i)
  /\ i \in mem.completed
  /\ left' = left \ {i}
  /\ UNCHANGED <<clock, schedule, posting, planFile, stateFile, pc, sched, now, plan, mem,
                 unsaved, cron, done>>

\* Fault: the item is counted as completed before the fetch that then fails.
ExecuteFailsCompleted(i) ==
  /\ Reached(i)
  /\ i \notin mem.completed
  /\ left' = left \ {i}
  /\ mem' = [mem EXCEPT !.completed = @ \cup {i}]
  /\ UNCHANGED <<clock, schedule, posting, planFile, stateFile, pc, sched, now, plan,
                 unsaved, cron, done>>

\* Any exception is counted as an error; the next pass tries the item again.
ExecuteFails(i) ==
  /\ Reached(i)
  /\ i \notin mem.completed
  /\ left' = left \ {i}
  /\ UNCHANGED <<clock, schedule, posting, planFile, stateFile, pc, sched, now, plan, mem,
                 unsaved, cron, done>>

\* Fault: the state is saved one item too late.
ExecuteSavesLate(i) ==
  /\ Reached(i)
  /\ i \notin mem.completed
  /\ left' = left \ {i}
  /\ mem' = [mem EXCEPT !.completed = @ \cup {i}]
  /\ done' = done \cup {<<plan.gen, i>>}
  /\ IF unsaved = SaveEvery THEN pc' = "save" /\ stateFile' = Torn /\ unsaved' = 0
                            ELSE unsaved' = unsaved + 1 /\ UNCHANGED <<pc, stateFile>>
  /\ UNCHANGED <<clock, schedule, posting, planFile, sched, now, plan, cron>>

\* After SaveEvery successes the state is saved in the middle of the pass.
Execute(i) ==
  /\ Reached(i)
  /\ i \notin mem.completed
  /\ left' = left \ {i}
  /\ mem' = [mem EXCEPT !.completed = @ \cup {i}]
  /\ done' = done \cup {<<plan.gen, i>>}
  /\ unsaved' = (unsaved + 1) % SaveEvery
  /\ IF unsaved + 1 = SaveEvery THEN pc' = "save" /\ stateFile' = Torn
                                ELSE UNCHANGED <<pc, stateFile>>
  /\ UNCHANGED <<clock, schedule, posting, planFile, sched, now, plan, cron>>

SaveState ==
  /\ pc = "save"
  /\ stateFile' = mem
  /\ pc' = "run"
  /\ UNCHANGED <<clock, schedule, posting, planFile, sched, now, plan, mem, left, unsaved,
                 cron, done>>

\* The save at the end of every pass: plan_generated_at is always set here.
EndPass ==
  /\ pc = "run"
  /\ left = {}
  /\ stateFile' = Torn
  /\ pc' = "end"
  /\ UNCHANGED <<clock, schedule, posting, planFile, sched, now, plan, mem, left, unsaved,
                 cron, done>>

Sleep ==
  /\ pc = "end"
  /\ stateFile' = mem
  /\ Leave("sleep")
  /\ UNCHANGED <<clock, schedule, posting, planFile, cron, done>>

-----------------------------------------------------------------------------
(* The other processes *)

Building == pc \in {"plan", "build", "write"}

\* ControlApp.update_schedule: the stamp is taken, then the file is truncated.
PostBegin(p) ==
  /\ ~posting
  /\ SettledPosts => ~Building /\ (planFile \notin {Missing, Torn} => clock > planFile.gen)
  /\ schedule' = [enabled |-> p.enabled, wanted |-> p.wanted, updated |-> clock]
  /\ posting' = TRUE
  /\ UNCHANGED <<clock, planFile, stateFile, pass, cron, done>>

PostEnd ==
  /\ posting
  /\ posting' = FALSE
  /\ UNCHANGED <<clock, schedule, planFile, stateFile, pass, cron, done>>

\* The legacy cron asks the control server for the schedule and starts
\* run_scheduled, for all the venues of the day if the schedule names none.  A
\* run that starts when there is a plan never writes one: those are left out.
CronStarts ==
  /\ LegacyCron
  /\ cron.step = "idle"
  /\ planFile = Missing
  /\ schedule.enabled /\ ~posting
  /\ cron' = [step |-> "fetch",
              plan |-> [NoPlan EXCEPT !.wanted = IF schedule.wanted = {} THEN Task
                                                 ELSE schedule.wanted]]
  /\ UNCHANGED <<clock, schedule, posting, planFile, stateFile, pass, done>>

\* At its end it makes a plan if it finds none.
CronBuilds ==
  /\ cron.step = "fetch"
  /\ IF planFile = Missing
     THEN \E timetable \in Timetables :
            cron' = [step |-> "planned", plan |-> PlanOf(cron.plan, timetable)]
     ELSE cron' = NoCron
  /\ UNCHANGED <<clock, schedule, posting, planFile, stateFile, pass, done>>

CronTruncates ==
  /\ cron.step = "planned"
  /\ cron' = [cron EXCEPT !.step = "write"]
  /\ planFile' = Torn
  /\ UNCHANGED <<clock, schedule, posting, stateFile, pass, done>>

CronWrites ==
  /\ cron.step = "write"
  /\ cron' = NoCron
  /\ planFile' \in WrittenOver(planFile, cron.plan)
  /\ UNCHANGED <<clock, schedule, posting, stateFile, pass, done>>

CronFails ==
  /\ cron.step # "idle"
  /\ cron' = NoCron
  /\ UNCHANGED <<clock, schedule, posting, planFile, stateFile, pass, done>>

\* The scheduler is killed.
Crash ==
  /\ MayCrash
  /\ pc # "dead"
  /\ Leave("dead")
  /\ UNCHANGED <<clock, schedule, posting, planFile, stateFile, cron, done>>

\* An operator starts the container again.
Restart ==
  /\ pc = "dead"
  /\ pc' = "sleep"
  /\ UNCHANGED <<clock, schedule, posting, planFile, stateFile, sched, now, plan, mem,
                 left, unsaved, cron, done>>

Tick ==
  /\ clock < MaxTime
  /\ clock' = clock + 1
  /\ UNCHANGED <<schedule, posting, planFile, stateFile, pass, cron, done>>

Step ==
  \/ LoadSchedule
  \/ LoadPlan
  \/ BuildPlan
  \/ WritePlan
  \/ LoadState
  \/ \E i \in left : SkipCompleted(i) \/ Execute(i)
  \/ SaveState
  \/ EndPass
  \/ Sleep

Next ==
  \/ Step
  \/ BuildFails
  \/ \E i \in left : ExecuteFails(i)
  \/ \E p \in Posts : PostBegin(p)
  \/ PostEnd
  \/ CronStarts
  \/ CronBuilds
  \/ CronTruncates
  \/ CronWrites
  \/ CronFails
  \/ Crash
  \/ Restart
  \/ Tick

Spec == Init /\ [][Next]_vars

(* The loop of run_forever goes on, an operator starts a dead scheduler      *)
(* again, it is not killed and the schedule is not posted for ever, and no    *)
(* build and no item that is retried for ever always fails.                   *)
Fairness ==
  /\ WF_vars(Step)
  /\ WF_vars(Restart)
  /\ WF_vars(PostEnd)
  /\ WF_vars(Tick)
  /\ SF_vars(BuildPlan)
  /\ \A i \in Item : SF_vars(i \in left /\ Execute(i))
  /\ <>[][~Crash /\ \A p \in Posts : ~PostBegin(p)]_vars

FairSpec == Spec /\ Fairness

-----------------------------------------------------------------------------
(* Properties *)

Known(file) == file \notin {Missing, Torn}

\* Neither the state file nor the state in memory calls an item completed that
\* was not executed under that very plan: a failed item is tried again.
CompletedWasExecuted ==
  /\ \A i \in mem.completed : <<mem.gen, i>> \in done
  /\ Known(stateFile) => \A i \in stateFile.completed : <<stateFile.gen, i>> \in done

\* While a plan is executed at most SaveEvery - 1 completed items are not in
\* the state file, unless the file is just being written: that is all a killed
\* scheduler executes again.
LossIsBounded ==
  pc = "run" /\ Known(stateFile) /\ stateFile.gen = mem.gen
    => Cardinality(mem.completed \ stateFile.completed) < SaveEvery

\* An item that was executed under a plan is not executed under it again, as
\* long as nobody kills the scheduler.
OncePerPlan == [][\A i \in left : Execute(i) => <<plan.gen, i>> \notin done]_vars

\* A pass executes the plan of the schedule that it has loaded.
PlanFollowsSchedule == pc \in {"state", "run", "save", "end"} => plan.wanted = sched.wanted

\* Every item of a plan that stays, under a schedule that stays enabled, is
\* executed once it is due, whatever fails on the way: a build or an item for as
\* long as it does not always fail, and a torn schedule that ends the scheduler.
DueGetsDone ==
  \A i \in Item :
    <>[](Known(planFile) /\ i \in planFile.items /\ schedule.enabled /\ clock >= i.at)
      => <>(Known(planFile) /\ <<planFile.gen, i>> \in done)

-----------------------------------------------------------------------------
(* What makes them inductive *)

InPass == pc \in {"run", "save", "end"}

ExecutedInv == CompletedWasExecuted /\ (InPass => mem.gen = plan.gen)

\* What the file lacks was completed since the counter was last at zero.
LossInv ==
  pc = "run" /\ Known(stateFile) /\ stateFile.gen = mem.gen
    => LET lost == mem.completed \ stateFile.completed
       IN IsFiniteSet(lost) /\ Cardinality(lost) <= unsaved

\* With settled posts and no other cron, a plan that no later stamp outdates is
\* the plan of the schedule, and no post overtakes a build.
FollowsInv ==
  /\ cron = NoCron
  /\ Known(planFile) /\ schedule.updated <= planFile.gen => planFile.wanted = schedule.wanted
  /\ Building => schedule = sched
  /\ pc = "write" => plan.wanted = sched.wanted
  /\ PlanFollowsSchedule

\* Stamps do not lie in the future.
StampsInv ==
  /\ schedule.updated <= clock
  /\ sched.updated <= clock
  /\ plan.gen <= clock
  /\ cron.plan.gen <= clock
  /\ Known(planFile) => planFile.gen <= clock

\* While no crash tears a file and no cron replaces a plan, a new plan carries a
\* later stamp than every execution so far, and what was executed under the plan
\* in force is remembered, by the pass or else by the file.
RemembersInv ==
  /\ cron = NoCron
  /\ planFile = Torn <=> pc = "write"
  /\ planFile = Missing => done = {} /\ pc # "state" /\ ~InPass
  /\ Known(planFile) => \A d \in done : d[1] <= planFile.gen
  /\ pc \in {"state", "run", "save", "end"} => plan = planFile
  /\ pc = "build" => \A d \in done : d[1] < clock
  /\ pc = "write" => \A d \in done : d[1] < plan.gen
  /\ IF InPass THEN \A i \in Item : <<plan.gen, i>> \in done => i \in mem.completed
     ELSE \A i \in Item : Known(planFile) /\ <<planFile.gen, i>> \in done =>
            Known(stateFile) /\ stateFile.gen = planFile.gen /\ i \in stateFile.completed

=============================================================================
