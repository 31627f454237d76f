------------------------------- MODULE MCPlan -------------------------------
(* Small instances of PlanScheduler for TLC. *)
EXTENDS PlanScheduler

CONSTANTS Odds, Marks   \* two tasks: the odds of a race, its result page

\* The race list first shows both tasks for the same time, then a later result.
Early == [t \in Task |-> 0]
Delayed == [t \in Task |-> IF t = Marks THEN 1 ELSE 0]
BothTimetables == {Early, Delayed}

On(wanted) == [enabled |-> TRUE, wanted |-> wanted]
OnOrOff == {On(Task), On({}), [enabled |-> FALSE, wanted |-> {}]}
TwoChoices == {On(Task), On({Odds})}
=============================================================================
