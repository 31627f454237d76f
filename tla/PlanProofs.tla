----------------------------- MODULE PlanProofs -----------------------------
(***************************************************************************)
(* Theorems of PlanScheduler, for every set of tasks, timetables and posts, *)
(* whatever is killed and whichever cron runs beside the scheduler.         *)
(***************************************************************************)
EXTENDS PlanScheduler, FiniteSetTheorems, TLAPS

\* The two marks of a file are neither a plan nor a state nor a time.
LEMMA Marks ==
  /\ Missing # Torn
  /\ \A x \in Time \cup Plan \cup PlanState : x # Missing /\ x # Torn
  BY FileAssumption

LEMMA Blank ==
  /\ NoSchedule \in Schedule
  /\ NoPlan \in Plan
  /\ Fresh(Missing) \in PlanState
  /\ \A t \in Time : Fresh(t) \in PlanState
  /\ 0 \in Time
  /\ 0 \in 0 .. SaveEvery - 1
  /\ NoCron \in [step : {"idle", "fetch", "planned", "write"}, plan : Plan]
  <1>1. 0 \in Time /\ 0 \in 0 .. SaveEvery - 1
    BY BoundsAssumption DEF Time
  <1>2. NoSchedule \in Schedule /\ NoPlan \in Plan
    BY <1>1 DEF NoSchedule, Schedule, NoPlan, Plan
  <1>3. Fresh(Missing) \in PlanState /\ \A t \in Time : Fresh(t) \in PlanState
    BY DEF Fresh, PlanState
  <1>4. QED
    BY <1>1, <1>2, <1>3 DEF NoCron

\* A plan that is made of what a schedule wants is a plan.
LEMMA PlanOfIsPlan ==
  ASSUME clock \in Time, NEW s, s.wanted \in SUBSET Task, NEW tt \in Timetables
  PROVE  PlanOf(s, tt) \in Plan
  <1>1. tt \in [Task -> Time]
    BY TimetableAssumption
  <1>2. \A t \in s.wanted : [task |-> t, at |-> tt[t]] \in Item
    BY <1>1 DEF Item
  <1>3. QED
    BY <1>2 DEF PlanOf, Plan

\* The end of a pass, whatever ends it.
LEMMA LeavingKeepsType ==
  ASSUME NEW where \in {"sleep", "dead"}, Leave(where)
  PROVE  /\ pc' \in {"sleep", "dead"} /\ sched' \in Schedule /\ now' \in Time
         /\ plan' \in Plan /\ mem' \in PlanState /\ left' \in SUBSET Item
         /\ unsaved' \in 0 .. SaveEvery - 1
  BY Blank DEF Leave

\* The type invariant: every variable keeps its type, with any interleaving of
\* the scheduler, the control server and the cron, and any crash.
THEOREM PlanTypeCorrect == Spec => []TypeOK
  <1>1. Init => TypeOK
    BY Blank DEF Init, TypeOK
  <1>2. TypeOK /\ [Next]_vars => TypeOK'
    <2> SUFFICES ASSUME TypeOK, [Next]_vars PROVE TypeOK'
      OBVIOUS
    <2> USE DEF TypeOK
    <2>1. CASE LoadSchedule
      BY <2>1, LeavingKeepsType DEF LoadSchedule
    <2>2. CASE LoadPlan
      BY <2>2 DEF LoadPlan, Outdated
    <2>3. CASE BuildPlan
      <3>1. plan' \in Plan
        BY <2>3, PlanOfIsPlan DEF BuildPlan, Schedule
      <3>2. QED
        BY <2>3, <3>1 DEF BuildPlan
    <2>4. CASE WritePlan
      BY <2>4 DEF WritePlan, WrittenOver
    <2>5. CASE LoadState
      <3>1. mem' \in PlanState
        BY <2>5, Blank DEF LoadState, Plan
      <3>2. left' \in SUBSET Item
        BY <2>5 DEF LoadState, Plan
      <3>3. QED
        BY <2>5, <3>1, <3>2, Blank DEF LoadState
    <2>6. ASSUME NEW i \in left, SkipCompleted(i) PROVE TypeOK'
      BY <2>6 DEF SkipCompleted
    <2>7. ASSUME NEW i \in left, Execute(i) PROVE TypeOK'
      <3>1. i \in Item
        OBVIOUS
      <3>2. mem' \in PlanState
        BY <2>7, <3>1 DEF Execute, PlanState
      <3>3. <<plan.gen, i>> \in Time \X Item
        BY <3>1 DEF Plan
      <3>4. done' \in SUBSET (Time \X Item)
        BY <2>7, <3>3 DEF Execute
      <3>5. unsaved' \in 0 .. SaveEvery - 1
        BY <2>7, BoundsAssumption DEF Execute
      <3>6. pc' \in {"run", "save"} /\ stateFile' \in PlanState \cup {Missing, Torn}
        BY <2>7 DEF Execute, Reached
      <3>7. left' \in SUBSET Item
        BY <2>7 DEF Execute
      <3>8. QED
        BY <2>7, <3>2, <3>4, <3>5, <3>6, <3>7 DEF Execute
    <2>8. CASE SaveState
      BY <2>8 DEF SaveState
    <2>9. CASE EndPass
      BY <2>9 DEF EndPass
    <2>10. CASE Sleep
      BY <2>10, LeavingKeepsType DEF Sleep
    <2>11. CASE BuildFails
      BY <2>11, LeavingKeepsType DEF BuildFails
    <2>12. ASSUME NEW i \in left, ExecuteFails(i) PROVE TypeOK'
      BY <2>12 DEF ExecuteFails
    <2>13. ASSUME NEW p \in Posts, PostBegin(p) PROVE TypeOK'
      <3>1. schedule' \in Schedule
        BY <2>13, PostAssumption DEF PostBegin, Schedule
      <3>2. QED
        BY <2>13, <3>1 DEF PostBegin, pass
    <2>14. CASE PostEnd
      BY <2>14 DEF PostEnd, pass
    <2>15. CASE CronStarts
      <3>1. cron' \in [step : {"idle", "fetch", "planned", "write"}, plan : Plan]
        BY <2>15, Blank DEF CronStarts, Schedule, Plan
      <3>2. QED
        BY <2>15, <3>1 DEF CronStarts, pass
    <2>16. CASE CronBuilds
      <3>1. cron.plan.wanted \in SUBSET Task
        BY DEF Plan
      <3>2. cron' \in [step : {"idle", "fetch", "planned", "write"}, plan : Plan]
        BY <2>16, <3>1, Blank, PlanOfIsPlan DEF CronBuilds
      <3>3. QED
        BY <2>16, <3>2 DEF CronBuilds, pass
    <2>17. CASE CronTruncates
      BY <2>17 DEF CronTruncates, pass
    <2>18. CASE CronWrites
      <3>1. planFile' \in Plan \cup {Missing, Torn}
        BY <2>18 DEF CronWrites, WrittenOver
      <3>2. QED
        BY <2>18, <3>1, Blank DEF CronWrites, pass
    <2>19. CASE CronFails
      BY <2>19, Blank DEF CronFails, pass
    <2>20. CASE Crash
      BY <2>20, LeavingKeepsType DEF Crash
    <2>21. CASE Restart
      BY <2>21 DEF Restart
    <2>22. CASE Tick
      BY <2>22, BoundsAssumption DEF Tick, Time, pass
    <2>23. CASE UNCHANGED vars
      BY <2>23 DEF vars
    <2>24. QED
      BY <2>1, <2>2, <2>3, <2>4, <2>5, <2>6, <2>7, <2>8, <2>9, <2>10, <2>11, <2>12,
         <2>13, <2>14, <2>15, <2>16, <2>17, <2>18, <2>19, <2>20, <2>21, <2>22, <2>23
         DEF Next, Step
  <1>3. QED
    BY <1>1, <1>2, PTL DEF Spec

\* The steps that touch neither the state, in memory or in the file, nor the
\* history.
LEMMA OnlyPassesRecord ==
  ASSUME [Next]_vars
  PROVE  \/ UNCHANGED <<stateFile, mem, done, plan, pc, left, unsaved>>
         \/ /\ UNCHANGED <<stateFile, done>>
            /\ \/ pc \notin {"state", "run", "save", "end"}
                  /\ pc' \notin {"run", "save", "end"} /\ UNCHANGED mem
               \/ pc' \in {"sleep", "dead"} /\ mem' = Fresh(Missing)
         \/ LoadState
         \/ \E i \in left : SkipCompleted(i) \/ ExecuteFails(i) \/ Execute(i)
         \/ SaveState
         \/ EndPass
         \/ Sleep
  <1>1. CASE LoadSchedule
    BY <1>1 DEF LoadSchedule, Leave
  <1>2. CASE LoadPlan
    BY <1>2 DEF LoadPlan
  <1>3. CASE BuildPlan
    BY <1>3 DEF BuildPlan
  <1>4. CASE WritePlan
    BY <1>4 DEF WritePlan
  <1>5. CASE BuildFails \/ Crash
    BY <1>5 DEF BuildFails, Crash, Leave
  <1>6. CASE Restart
    BY <1>6 DEF Restart
  <1>7. CASE \/ \E p \in Posts : PostBegin(p)
             \/ PostEnd \/ CronStarts \/ CronBuilds \/ CronTruncates \/ CronWrites
             \/ CronFails \/ Tick
    BY <1>7 DEF PostBegin, PostEnd, CronStarts, CronBuilds, CronTruncates, CronWrites,
       CronFails, Tick, pass
  <1>8. CASE UNCHANGED vars
    BY <1>8 DEF vars
  <1>9. QED
    BY <1>1, <1>2, <1>3, <1>4, <1>5, <1>6, <1>7, <1>8 DEF Next, Step

\* Neither the file nor the memory of the scheduler claims an execution that did
\* not happen under the plan it names, whatever is killed or fails.
THEOREM ExecutedHolds == Spec => []ExecutedInv
  <1>1. Init => ExecutedInv
    BY Marks DEF Init, ExecutedInv, CompletedWasExecuted, InPass, Known, Fresh
  <1>2. TypeOK /\ ExecutedInv /\ [Next]_vars => ExecutedInv'
    <2> SUFFICES ASSUME TypeOK, ExecutedInv, [Next]_vars PROVE ExecutedInv'
      OBVIOUS
    <2> USE DEF ExecutedInv, CompletedWasExecuted, InPass
    <2>1. CASE UNCHANGED <<stateFile, mem, done, plan, pc, left, unsaved>>
      BY <2>1 DEF Known
    <2>2. CASE /\ UNCHANGED <<stateFile, done>>
               /\ \/ pc \notin {"state", "run", "save", "end"}
                     /\ pc' \notin {"run", "save", "end"} /\ UNCHANGED mem
                  \/ pc' \in {"sleep", "dead"} /\ mem' = Fresh(Missing)
      BY <2>2 DEF Known, Fresh
    <2>3. CASE LoadState
      BY <2>3 DEF LoadState, Known, Fresh
    <2>4. ASSUME NEW i \in left, SkipCompleted(i) \/ ExecuteFails(i) PROVE ExecutedInv'
      BY <2>4 DEF SkipCompleted, ExecuteFails, Known
    <2>5. ASSUME NEW i \in left, Execute(i) PROVE ExecutedInv'
      <3>1. mem'.gen = mem.gen /\ mem'.completed = mem.completed \cup {i}
        BY <2>5 DEF Execute, TypeOK, PlanState
      <3>2. mem.gen = plan.gen
        BY <2>5 DEF Execute, Reached
      <3>3. done' = done \cup {<<plan.gen, i>>} /\ plan' = plan
        BY <2>5 DEF Execute
      <3>4. stateFile' = Torn \/ stateFile' = stateFile
        BY <2>5 DEF Execute
      <3>5. QED
        BY <3>1, <3>2, <3>3, <3>4 DEF Known
    <2>6. CASE SaveState
      BY <2>6 DEF SaveState, Known
    <2>7. CASE EndPass
      BY <2>7 DEF EndPass, Known
    <2>8. CASE Sleep
      BY <2>8 DEF Sleep, Leave, Known, Fresh
    <2>9. QED
      BY <2>1, <2>2, <2>3, <2>4, <2>5, <2>6, <2>7, <2>8, OnlyPassesRecord
  <1>3. QED
    BY <1>1, <1>2, PlanTypeCorrect, PTL DEF Spec

\* What is called completed was executed under that plan.
THEOREM CompletedAreExecuted == Spec => []CompletedWasExecuted
  BY ExecutedHolds, PTL DEF ExecutedInv

\* The file lags behind the pass by no more than the counter says.
THEOREM LossHolds == Spec => []LossInv
  <1>1. Init => LossInv
    BY DEF Init, LossInv
  <1>2. TypeOK /\ ExecutedInv /\ LossInv /\ [Next]_vars => LossInv'
    <2> SUFFICES ASSUME TypeOK, ExecutedInv, LossInv, [Next]_vars,
                        pc' = "run", Known(stateFile)', stateFile'.gen = mem'.gen
                 PROVE  /\ IsFiniteSet(mem'.completed \ stateFile'.completed)
                        /\ Cardinality(mem'.completed \ stateFile'.completed) <= unsaved'
      BY DEF LossInv
    <2> DEFINE lost == mem.completed \ stateFile.completed
    <2>0. ASSUME mem'.completed = stateFile'.completed, unsaved' = 0
          PROVE  /\ IsFiniteSet(mem'.completed \ stateFile'.completed)
                 /\ Cardinality(mem'.completed \ stateFile'.completed) <= unsaved'
      <3>1. mem'.completed \ stateFile'.completed = {}
        BY <2>0
      <3>2. QED
        BY <2>0, <3>1, FS_EmptySet
    <2>1. CASE UNCHANGED <<stateFile, mem, done, plan, pc, left, unsaved>>
      BY <2>1 DEF LossInv, Known
    <2>2. CASE LoadState
      BY <2>0, <2>2 DEF LoadState, Known, Fresh
    <2>3. ASSUME NEW i \in left, SkipCompleted(i) \/ ExecuteFails(i)
          PROVE  /\ IsFiniteSet(mem'.completed \ stateFile'.completed)
                 /\ Cardinality(mem'.completed \ stateFile'.completed) <= unsaved'
      BY <2>3 DEF SkipCompleted, ExecuteFails, Reached, LossInv, Known
    <2>4. ASSUME NEW i \in left, Execute(i)
          PROVE  /\ IsFiniteSet(mem'.completed \ stateFile'.completed)
                 /\ Cardinality(mem'.completed \ stateFile'.completed) <= unsaved'
      <3>1. stateFile' = stateFile /\ unsaved + 1 # SaveEvery
        BY <2>4, Marks DEF Execute
      <3>2. unsaved' = unsaved + 1
        BY <2>4, <3>1, BoundsAssumption DEF Execute, TypeOK
      <3>3. mem'.gen = mem.gen /\ mem'.completed = mem.completed \cup {i}
        BY <2>4 DEF Execute, TypeOK, PlanState
      <3>4. IsFiniteSet(lost) /\ Cardinality(lost) <= unsaved
        BY <2>4, <3>1, <3>3 DEF Execute, Reached, LossInv, Known
      <3>5. mem'.completed \ stateFile'.completed \in {lost, lost \cup {i}}
        BY <3>1, <3>3
      <3>6. /\ IsFiniteSet(lost \cup {i})
            /\ Cardinality(lost \cup {i}) <= Cardinality(lost) + 1
            /\ Cardinality(lost) \in Nat
            /\ Cardinality(lost \cup {i}) \in Nat
        <4>1. /\ IsFiniteSet(lost \cup {i})
              /\ Cardinality(lost \cup {i}) = IF i \in lost THEN Cardinality(lost)
                                              ELSE Cardinality(lost) + 1
          BY <3>4, FS_AddElement
        <4>2. Cardinality(lost) \in Nat /\ Cardinality(lost \cup {i}) \in Nat
          BY <3>4, <4>1, FS_CardinalityType
        <4>3. QED
          BY <4>1, <4>2
      <3>7. unsaved \in Nat
        BY BoundsAssumption DEF TypeOK
      <3>8. CASE mem'.completed \ stateFile'.completed = lost
        BY <3>2, <3>4, <3>6, <3>7, <3>8
      <3>9. CASE mem'.completed \ stateFile'.completed = lost \cup {i}
        BY <3>2, <3>4, <3>6, <3>7, <3>9
      <3>10. QED
        BY <3>5, <3>8, <3>9
    <2>5. CASE SaveState
      <3>1. stateFile' = mem /\ mem' = mem /\ unsaved' = unsaved
        BY <2>5 DEF SaveState
      <3>2. mem'.completed \ stateFile'.completed = {}
        BY <3>1
      <3>3. 0 <= unsaved'
        BY <3>1, BoundsAssumption DEF TypeOK
      <3>4. QED
        BY <3>2, <3>3, FS_EmptySet
    <2>6. CASE EndPass \/ Sleep
      BY <2>6 DEF EndPass, Sleep, Leave
    <2>7. CASE /\ UNCHANGED <<stateFile, done>>
               /\ \/ pc \notin {"state", "run", "save", "end"}
                     /\ pc' \notin {"run", "save", "end"} /\ UNCHANGED mem
                  \/ pc' \in {"sleep", "dead"} /\ mem' = Fresh(Missing)
      BY <2>7
    <2>8. QED
      BY <2>1, <2>2, <2>3, <2>4, <2>5, <2>6, <2>7, OnlyPassesRecord
  <1>3. QED
    BY <1>1, <1>2, PlanTypeCorrect, ExecutedHolds, PTL DEF Spec

\* A scheduler that is killed while it executes a plan forgets fewer than
\* SaveEvery completed items, unless the file is being written.
THEOREM LossesAreBounded == Spec => []LossIsBounded
  <1>1. TypeOK /\ LossInv => LossIsBounded
    <2> SUFFICES ASSUME TypeOK, LossInv, pc = "run", Known(stateFile), stateFile.gen = mem.gen
                 PROVE  Cardinality(mem.completed \ stateFile.completed) < SaveEvery
      BY DEF LossIsBounded
    <2>1. /\ IsFiniteSet(mem.completed \ stateFile.completed)
          /\ Cardinality(mem.completed \ stateFile.completed) <= unsaved
      BY DEF LossInv
    <2>2. Cardinality(mem.completed \ stateFile.completed) \in Nat
      BY <2>1, FS_CardinalityType
    <2>3. QED
      BY <2>1, <2>2, BoundsAssumption DEF TypeOK
  <1>2. QED
    BY <1>1, LossHolds, PlanTypeCorrect, PTL

\* What a step can make of the stamped values.
LEMMA StampedByStep ==
  ASSUME TypeOK, [Next]_vars
  PROVE  /\ clock' = clock \/ clock' = clock + 1
         /\ schedule' = schedule \/ schedule'.updated = clock
         /\ sched' = sched \/ sched' = schedule \/ sched' = NoSchedule
         /\ \/ plan' = plan \/ plan'.gen = 0 \/ plan'.gen = clock
            \/ Known(planFile) /\ plan' = planFile
         /\ \/ cron' = cron \/ cron'.plan = cron.plan
            \/ cron'.plan.gen = 0 \/ cron'.plan.gen = clock
         /\ planFile' = planFile \/ planFile' = Torn \/ planFile' = plan \/ planFile' = cron.plan
  <1> USE DEF Known
  <1>1. CASE LoadSchedule
    BY <1>1 DEF LoadSchedule, Leave, NoPlan
  <1>2. CASE LoadPlan
    BY <1>2 DEF LoadPlan, Outdated
  <1>3. CASE BuildPlan
    BY <1>3 DEF BuildPlan, PlanOf
  <1>4. CASE WritePlan
    BY <1>4 DEF WritePlan, WrittenOver
  <1>5. CASE LoadState \/ \E i \in left : SkipCompleted(i) \/ ExecuteFails(i) \/ Execute(i)
    BY <1>5 DEF LoadState, SkipCompleted, ExecuteFails, Execute
  <1>6. CASE SaveState \/ EndPass \/ Restart \/ UNCHANGED vars
    BY <1>6 DEF SaveState, EndPass, Restart, vars
  <1>7. CASE Sleep \/ BuildFails \/ Crash
    BY <1>7 DEF Sleep, BuildFails, Crash, Leave, NoPlan
  <1>8. CASE (\E p \in Posts : PostBegin(p)) \/ PostEnd \/ Tick
    BY <1>8 DEF PostBegin, PostEnd, Tick, pass
  <1>9. CASE CronStarts
    BY <1>9 DEF CronStarts, NoPlan, pass
  <1>10. CASE CronBuilds
    BY <1>10 DEF CronBuilds, PlanOf, NoCron, NoPlan, pass
  <1>11. CASE CronTruncates
    <2>1. cron'.plan = cron.plan
      BY <1>11 DEF CronTruncates, TypeOK
    <2>2. QED
      BY <1>11, <2>1 DEF CronTruncates, pass
  <1>12. CASE CronWrites \/ CronFails
    BY <1>12 DEF CronWrites, CronFails, WrittenOver, NoCron, NoPlan, pass
  <1>13. QED
    BY <1>1, <1>2, <1>3, <1>4, <1>5, <1>6, <1>7, <1>8, <1>9, <1>10, <1>11, <1>12
       DEF Next, Step

\* No stamp lies in the future.
THEOREM StampsHold == Spec => []StampsInv
  <1>1. Init => StampsInv
    BY DEF Init, StampsInv, NoSchedule, NoPlan, NoCron, Known
  <1>2. TypeOK /\ StampsInv /\ [Next]_vars => StampsInv'
    <2> SUFFICES ASSUME TypeOK, StampsInv, [Next]_vars PROVE StampsInv'
      OBVIOUS
    <2>1. Time \subseteq Nat /\ clock \in Nat
      BY BoundsAssumption DEF TypeOK, Time
    <2>2. 0 <= clock' /\ clock <= clock' /\ \A n \in Nat : n <= clock => n <= clock'
      BY <2>1, StampedByStep
    <2>3. /\ schedule.updated \in Nat /\ sched.updated \in Nat
          /\ plan.gen \in Nat /\ cron.plan.gen \in Nat
          /\ Known(planFile) => planFile.gen \in Nat
      BY <2>1 DEF TypeOK, Schedule, Plan, Known
    <2>4. schedule'.updated <= clock'
      BY <2>2, <2>3, StampedByStep DEF StampsInv
    <2>5. sched'.updated <= clock'
      BY <2>2, <2>3, StampedByStep DEF StampsInv, NoSchedule
    <2>6. plan'.gen <= clock'
      BY <2>2, <2>3, StampedByStep DEF StampsInv
    <2>7. cron'.plan.gen <= clock'
      BY <2>2, <2>3, StampedByStep DEF StampsInv
    <2>8. Known(planFile)' => planFile'.gen <= clock'
      BY <2>2, <2>3, StampedByStep DEF StampsInv, Known
    <2>9. QED
      BY <2>4, <2>5, <2>6, <2>7, <2>8 DEF StampsInv
  <1>3. QED
    BY <1>1, <1>2, PlanTypeCorrect, PTL DEF Spec

-----------------------------------------------------------------------------
(* One writer of plans: no legacy cron *)

\* If the cron is not started, nothing of it ever runs.
LEMMA NoCronSteps ==
  ASSUME ~LegacyCron, cron = NoCron, [Next]_vars
  PROVE  /\ cron' = NoCron
         /\ ~CronStarts /\ ~CronBuilds /\ ~CronTruncates /\ ~CronWrites /\ ~CronFails
  <1>1. ~CronStarts /\ ~CronBuilds /\ ~CronTruncates /\ ~CronWrites /\ ~CronFails
    BY DEF CronStarts, CronBuilds, CronTruncates, CronWrites, CronFails, NoCron
  <1>2. cron' = NoCron
    BY <1>1 DEF Next, Step, vars, LoadSchedule, LoadPlan, BuildPlan, WritePlan, LoadState,
       SkipCompleted, Execute, SaveState, EndPass, Sleep, BuildFails, ExecuteFails,
       PostBegin, PostEnd, Crash, Restart, Tick
  <1>3. QED
    BY <1>1, <1>2

\* Every pass executes the plan of the schedule it loaded, if no schedule is
\* posted while a plan is built or in the second of a plan's stamp.
THEOREM FollowsHolds == SettledPosts /\ ~LegacyCron /\ Spec => []FollowsInv
  <1> SUFFICES ASSUME SettledPosts, ~LegacyCron PROVE Spec => []FollowsInv
    OBVIOUS
  <1>1. Init => FollowsInv
    BY DEF Init, FollowsInv, PlanFollowsSchedule, Building, Known
  <1>2. TypeOK /\ StampsInv /\ FollowsInv /\ [Next]_vars => FollowsInv'
    <2> SUFFICES ASSUME TypeOK, StampsInv, FollowsInv, [Next]_vars PROVE FollowsInv'
      OBVIOUS
    <2> USE NoCronSteps DEF FollowsInv, PlanFollowsSchedule, Building, Known
    <2>1. CASE LoadSchedule
      BY <2>1 DEF LoadSchedule, Leave
    <2>2. CASE LoadPlan
      <3>1. CASE Outdated(planFile)
        BY <2>2, <3>1 DEF LoadPlan
      <3>2. CASE ~Outdated(planFile)
        <4>1. planFile \in Plan /\ ~(sched.updated > planFile.gen)
          BY <3>2 DEF Outdated, TypeOK
        <4>2. sched.updated \in Nat /\ planFile.gen \in Nat
          BY <4>1, BoundsAssumption DEF TypeOK, Schedule, Plan, Time
        <4>3. schedule = sched /\ planFile.wanted = schedule.wanted
          BY <2>2, <4>1, <4>2, Marks DEF LoadPlan
        <4>4. QED
          BY <2>2, <3>2, <4>3 DEF LoadPlan
      <3>3. QED
        BY <3>1, <3>2
    <2>3. CASE BuildPlan
      <3>1. plan'.wanted = sched.wanted
        BY <2>3 DEF BuildPlan, PlanOf
      <3>2. QED
        BY <2>3, <3>1 DEF BuildPlan
    <2>4. CASE WritePlan
      BY <2>4 DEF WritePlan, WrittenOver
    <2>5. CASE LoadState \/ \E i \in left : SkipCompleted(i) \/ ExecuteFails(i) \/ Execute(i)
      BY <2>5 DEF LoadState, SkipCompleted, ExecuteFails, Execute, Reached
    <2>6. CASE SaveState \/ EndPass \/ Restart
      BY <2>6 DEF SaveState, EndPass, Restart
    <2>7. CASE Sleep \/ BuildFails \/ Crash
      BY <2>7 DEF Sleep, BuildFails, Crash, Leave
    <2>8. ASSUME NEW p \in Posts, PostBegin(p) PROVE FollowsInv'
      <3>1. Known(planFile) => ~(schedule'.updated <= planFile.gen)
        <4> SUFFICES ASSUME Known(planFile) PROVE ~(schedule'.updated <= planFile.gen)
          OBVIOUS
        <4>1. schedule'.updated = clock /\ clock > planFile.gen
          BY <2>8 DEF PostBegin
        <4>2. clock \in Nat /\ planFile.gen \in Nat
          BY BoundsAssumption DEF TypeOK, Plan, Time
        <4>3. QED
          BY <4>1, <4>2
      <3>2. QED
        BY <2>8, <3>1 DEF PostBegin, pass
    <2>9. CASE PostEnd \/ Tick
      BY <2>9 DEF PostEnd, Tick, pass
    <2>10. CASE UNCHANGED vars
      BY <2>10 DEF vars
    <2>11. QED
      BY <2>1, <2>2, <2>3, <2>4, <2>5, <2>6, <2>7, <2>8, <2>9, <2>10 DEF Next, Step
  <1>3. QED
    BY <1>1, <1>2, PlanTypeCorrect, StampsHold, PTL DEF Spec

\* The plan of a pass is that of the schedule it loaded, under the same condition.
THEOREM PlansFollowSchedules ==
  SettledPosts /\ ~LegacyCron /\ Spec => []PlanFollowsSchedule
  BY FollowsHolds, PTL DEF FollowsInv

\* While nobody kills the scheduler, what was executed under the plan in force is
\* remembered by the pass or by the file.
THEOREM RemembersHolds == ~MayCrash /\ ~LegacyCron /\ Spec => []RemembersInv
  <1> SUFFICES ASSUME ~MayCrash, ~LegacyCron PROVE Spec => []RemembersInv
    OBVIOUS
  <1>1. Init => RemembersInv
    BY Marks DEF Init, RemembersInv, InPass, Known
  <1>2. TypeOK /\ StampsInv /\ ExecutedInv /\ RemembersInv /\ [Next]_vars => RemembersInv'
    <2> SUFFICES ASSUME TypeOK, StampsInv, ExecutedInv, RemembersInv, [Next]_vars
                 PROVE  RemembersInv'
      OBVIOUS
    <2> USE NoCronSteps DEF RemembersInv, InPass, Known
    <2>0. /\ Time \subseteq Nat /\ clock \in Nat
          /\ \A d \in done : d[1] \in Nat
          /\ Missing # Torn /\ plan # Missing /\ plan # Torn /\ mem # Missing /\ mem # Torn
          /\ plan.gen \in Nat
      <3>1. Time \subseteq Nat
        BY BoundsAssumption DEF Time
      <3>2. QED
        BY <3>1, Marks DEF TypeOK, Plan
    <2>1. CASE LoadSchedule
      BY <2>1 DEF LoadSchedule, Leave
    <2>2. CASE LoadPlan
      <3>1. CASE Outdated(planFile)
        <4>1. \A d \in done : d[1] < clock
          <5>1. planFile # Torn /\ (planFile = Missing => done = {})
            BY <2>2 DEF LoadPlan
          <5>2. CASE planFile # Missing
            <6>1. sched.updated > planFile.gen /\ planFile \in Plan
              BY <3>1, <5>1, <5>2 DEF Outdated, TypeOK
            <6>2. sched.updated \in Nat /\ planFile.gen \in Nat
              BY <2>0, <6>1 DEF TypeOK, Schedule, Plan
            <6>3. sched.updated <= clock
              BY DEF StampsInv
            <6>4. \A d \in done : d[1] <= planFile.gen
              BY <5>1, <5>2
            <6>5. QED
              BY <2>0, <6>1, <6>2, <6>3, <6>4
          <5>3. QED
            BY <5>1, <5>2
        <4>2. QED
          BY <2>2, <3>1, <4>1 DEF LoadPlan
      <3>2. CASE ~Outdated(planFile)
        BY <2>2, <3>2 DEF LoadPlan, Outdated
      <3>3. QED
        BY <3>1, <3>2
    <2>3. CASE BuildPlan
      <3>1. plan'.gen = clock
        BY <2>3 DEF BuildPlan, PlanOf
      <3>2. QED
        BY <2>0, <2>3, <3>1 DEF BuildPlan
    <2>4. CASE WritePlan
      <3>1. planFile' = plan
        BY <2>4 DEF WritePlan, WrittenOver
      <3>2. \A d \in done : d[1] < plan.gen
        BY <2>4 DEF WritePlan
      <3>3. \A i \in Item : <<plan.gen, i>> \notin done
        BY <2>0, <3>2
      <3>4. QED
        BY <2>0, <2>4, <3>1, <3>2, <3>3 DEF WritePlan
    <2>5. CASE LoadState
      <3>1. Known(planFile) /\ plan = planFile
        BY <2>5 DEF LoadState
      <3>2. \A i \in Item : <<plan.gen, i>> \in done => i \in mem'.completed
        BY <2>5, <3>1 DEF LoadState
      <3>3. QED
        BY <2>5, <3>1, <3>2 DEF LoadState
    <2>6. ASSUME NEW i \in left, SkipCompleted(i) \/ ExecuteFails(i) PROVE RemembersInv'
      BY <2>6 DEF SkipCompleted, ExecuteFails, Reached
    <2>7. ASSUME NEW i \in left, Execute(i) PROVE RemembersInv'
      <3>1. pc = "run" /\ pc' \in {"run", "save"} /\ done' = done \cup {<<plan.gen, i>>}
        BY <2>7 DEF Execute, Reached
      <3>2. mem'.completed = mem.completed \cup {i}
        BY <2>7 DEF Execute, TypeOK, PlanState
      <3>3. UNCHANGED <<planFile, plan, cron>>
        BY <2>7 DEF Execute
      <3>4. Known(planFile) /\ plan = planFile
        BY <3>1
      <3>5. \A d \in done' : d[1] <= planFile.gen
        BY <2>0, <3>1, <3>4
      <3>6. \A j \in Item : <<plan.gen, j>> \in done' => j \in mem'.completed
        BY <3>1, <3>2
      <3>7. QED
        BY <3>1, <3>3, <3>4, <3>5, <3>6
    <2>8. CASE SaveState \/ EndPass
      BY <2>8 DEF SaveState, EndPass
    <2>9. CASE Sleep
      <3>1. mem.gen = plan.gen /\ plan = planFile /\ stateFile' = mem
        BY <2>9 DEF Sleep, ExecutedInv
      <3>2. \A i \in Item : <<plan.gen, i>> \in done => i \in mem.completed
        BY <2>9 DEF Sleep
      <3>3. QED
        BY <2>0, <2>9, <3>1, <3>2 DEF Sleep, Leave
    <2>10. CASE BuildFails
      BY <2>10 DEF BuildFails, Leave
    <2>11. CASE Restart
      BY <2>11 DEF Restart
    <2>12. CASE (\E p \in Posts : PostBegin(p)) \/ PostEnd
      BY <2>12 DEF PostBegin, PostEnd, pass
    <2>13. CASE Tick
      <3>1. clock' = clock + 1 /\ \A d \in done : d[1] < clock => d[1] < clock'
        BY <2>0, <2>13 DEF Tick
      <3>2. QED
        BY <2>13, <3>1 DEF Tick, pass
    <2>14. CASE UNCHANGED vars
      BY <2>14 DEF vars
    <2>15. ~Crash
      BY DEF Crash
    <2>16. QED
      BY <2>1, <2>2, <2>3, <2>4, <2>5, <2>6, <2>7, <2>8, <2>9, <2>10, <2>11, <2>12, <2>13,
         <2>14, <2>15 DEF Next, Step
  <1>3. QED
    BY <1>1, <1>2, PlanTypeCorrect, StampsHold, ExecutedHolds, PTL DEF Spec

\* An item is executed at most once under a plan, while nobody kills the
\* scheduler and no cron replaces its plan.
THEOREM ExecutedOncePerPlan == ~MayCrash /\ ~LegacyCron /\ Spec => OncePerPlan
  <1> SUFFICES ASSUME ~MayCrash, ~LegacyCron PROVE Spec => OncePerPlan
    OBVIOUS
  <1>1. ASSUME TypeOK, RemembersInv, [Next]_vars
        PROVE  [\A i \in left : Execute(i) => <<plan.gen, i>> \notin done]_vars
    <2> SUFFICES ASSUME NEW i \in left, Execute(i) PROVE <<plan.gen, i>> \notin done
      OBVIOUS
    <2>1. pc = "run" /\ i \notin mem.completed /\ i \in Item
      BY <1>1 DEF Execute, Reached, TypeOK
    <2>2. QED
      BY <1>1, <2>1 DEF RemembersInv, InPass
  <1>2. QED
    BY <1>1, PlanTypeCorrect, RemembersHolds, PTL DEF Spec, OncePerPlan
=============================================================================
