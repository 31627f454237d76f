--------------------------- MODULE MonotoneCopy -----------------------------
(***************************************************************************)
(* What the synchronisation promises for data that is never taken back:    *)
(* the PC holds a copy of what the Pi exports that may lag behind it but   *)
(* only ever moves towards it, one batch at a time.                        *)
(***************************************************************************)
EXTENDS Naturals

CONSTANTS Item,    \* what is copied
          Version  \* the numbers of its versions, 0 for "none yet"
VARIABLES source,  \* the version of each item at its origin
          copy     \* the version of each item in the copy

Init ==
  /\ source = [i \in Item |-> 0]
  /\ copy = [i \in Item |-> 0]

\* The origin moves one item to a newer version.
Publish(i) ==
  /\ \E v \in Version : v > source[i] /\ source' = [source EXCEPT ![i] = v]
  /\ UNCHANGED copy

\* The copy of one item moves to a version between its own and the origin's.
Pull(i) ==
  /\ \E v \in Version : /\ copy[i] <= v /\ v <= source[i]
                        /\ copy' = [copy EXCEPT ![i] = v]
  /\ UNCHANGED source

Next == \E i \in Item : Publish(i) \/ Pull(i)

Spec == Init /\ [][Next]_<<source, copy>>

=============================================================================
