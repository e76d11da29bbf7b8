--------------------------- MODULE MCAttendanceDay ---------------------------
(* A small day: one punch in time, one late and in the check-out window. *)
EXTENDS AttendanceDay, TLC

CONSTANTS p1, p2, c1, c2

TwoPunches == {p1, p2}
TwoTimes == p1 :> 1 @@ p2 :> 2
TwoRequests == {c1, c2}
RequestsAlike == Permutations(TwoRequests)
=============================================================================
