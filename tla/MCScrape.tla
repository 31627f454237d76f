------------------------------ MODULE MCScrape -------------------------------
(* A small instance of Scrape for TLC. *)
EXTENDS Scrape

TwoStarts == [r \in {1, 2} |-> IF r = 1 THEN 31 ELSE 35]

Cast(m, c, s) == [manual |-> m, cron |-> c, scheduler |-> s]
Pairs == {Cast(1, 0, 1), Cast(0, 1, 1)}
=============================================================================
