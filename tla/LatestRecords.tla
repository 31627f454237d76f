--------------------------- MODULE LatestRecords ----------------------------
(***************************************************************************)
(* What the ingest store promises to whoever pulls its exports: of each    *)
(* kind a record for every key seen so far, which later ones replace and   *)
(* nothing else does.  One write changes the records of one kind.          *)
(***************************************************************************)
EXTENDS Naturals

CONSTANTS Kind
VARIABLE shown  \* [Kind -> [keys -> Nat]]: the place in the file of the record of each key

Init == shown = [k \in Kind |-> [key \in {} |-> 0]]

\* Records come for some keys, known or new.
Take(k) ==
  LET old == shown[k]
      new == shown'[k]
  IN DOMAIN old \subseteq DOMAIN new /\ \A key \in DOMAIN old : new[key] >= old[key]

Next == \E k \in Kind : Take(k) /\ \A other \in Kind \ {k} : shown'[other] = shown[other]

Spec == Init /\ [][Next]_shown

=============================================================================
