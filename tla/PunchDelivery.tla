---------------------------- MODULE PunchDelivery ----------------------------
(***************************************************************************)
(* What the attendance connector promises about every punch, with the      *)
(* queue, the loops, the crashes and the network left out: a punch is held *)
(* on the site from the moment it is made until the cloud stores it, once. *)
(***************************************************************************)
CONSTANT Ids

VARIABLE at   \* where each punch is

Init == at = [i \in Ids |-> "unmade"]

Make(i) ==
    /\ at[i] = "unmade"
    /\ at' = [at EXCEPT ![i] = "held"]

Store(i) ==
    /\ at[i] = "held"
    /\ at' = [at EXCEPT ![i] = "stored"]

Next == \E i \in Ids : Make(i) \/ Store(i)

Spec == Init /\ [][Next]_at
=============================================================================
