----------------------------- MODULE MCRequests ------------------------------
(* Small instances of Requests for TLC; a unit of time is half a minute. *)
EXTENDS Requests

Race(v, n, s) == [venue |-> v, no |-> n, start |-> s]
On(races, posted) == [races |-> races, posted |-> posted]

TwoPages == {[name |-> 1, flag |-> 4], [name |-> 1, flag |-> 5]}
ShortOffsets == [k \in AllowedKinds |->
  CASE k = "t_minus_60m" -> 6 [] k = "t_minus_30m" -> 3 [] k = "final" -> 0]

\* One race with one snapshot, whose plan is executed; three races of two venues
\* on top of each other with all snapshots, and one without a start.
SmallDays == {
  On({Race(1, 1, 6), Race(1, 2, Unknown)}, {"final", "t_minus_5m"}),
  On({Race(1, 1, 6), Race(2, 1, 6), Race(1, 2, 9)}, {"t_minus_1m"}),
  On({Race(1, 1, 6), Race(1, 2, 6)}, {"t_minus_30m"})}
SomeOpenings == {0, 20}
=============================================================================
