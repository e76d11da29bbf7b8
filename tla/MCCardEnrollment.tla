--------------------------- MODULE MCCardEnrollment ---------------------------
EXTENDS CardEnrollment, TLC

CONSTANTS ali, sara, c1, c2, a1, a2

(* Nothing tells two cards, people or admins apart. *)
Alike == Permutations({c1, c2}) \cup Permutations({ali, sara}) \cup Permutations({a1, a2})
=============================================================================
