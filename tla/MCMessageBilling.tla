-------------------------- MODULE MCMessageBilling --------------------------
(* Small instances of the wallet. *)
EXTENDS MessageBilling, TLC

CONSTANTS s1, s2, q1, q2, a1, a2

TwoSends == {s1, s2}
OneSend == {s1}
Segments == [s \in Sends |-> IF s = s2 THEN 2 ELSE 1]
TwoRequests == {q1, q2}
TwoPackages == [q \in Requests |-> "PACKAGE"]
PackageAndRecharge == [q \in Requests |-> IF q = q1 THEN "PACKAGE" ELSE "RECHARGE"]
TwoCredits == [q \in Requests |-> 2]
OneDay == [q \in Requests |-> 1]
TwoAdmins == {a1, a2}
AdminsAlike == Permutations(TwoAdmins)
Grants == {1}
AllFaults == {"db", "commit", "reply", "crash"}
NoFaults == {}
=============================================================================
