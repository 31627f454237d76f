------------------------------ MODULE MCTables -------------------------------
(* A small instance of Tables for TLC. *)
EXTENDS Tables, TLC

Line(h, rich) == [horse |-> h, rich |-> rich]
Horse(no, name, birth, age, shown) == [no |-> no, name |-> name, birth |-> birth, age |-> age, shown |-> shown]

\* The results before and after the margins are out, the latter with a horse at two
\* positions, and a page that is read wrong, with no horses on its lines; cards of
\* horses with and without a birthday and figures, and a replacement.
SomePages ==
  [k \in Kinds |->
    CASE k = "races" -> {[start |-> 1, distance |-> 1], [start |-> 2, distance |-> Null]}
      [] k = "race_entries" -> {(1 :> [weight |-> Null]), (1 :> [weight |-> 5])}
      [] k = "odds_snapshots" -> {[at |-> 1, legs |-> {1, 2}], [at |-> 2, legs |-> {2}]}
      [] k = "race_results" -> {<<Line("a", FALSE), Line("b", FALSE)>>,
                                <<Line("b", TRUE), Line("a", TRUE), Line("b", FALSE)>>,
                                <<Line(Null, FALSE), Line(Null, FALSE)>>}
      [] k = "payouts" -> {(1 :> [yen |-> 1]), (2 :> [yen |-> 1])}
      [] k = "race_cards" ->
           {[weather |-> Null, persons |-> {"p"}, at |-> 1,
             horses |-> {Horse(1, "x", Null, 3, TRUE), Horse(2, "y", 7, 3, TRUE)}],
            [weather |-> "wet", persons |-> {"p", "q"}, at |-> 2,
             horses |-> {Horse(1, "y", Null, 4, FALSE), Horse(2, "x", 8, 3, TRUE)}]}]
=============================================================================
