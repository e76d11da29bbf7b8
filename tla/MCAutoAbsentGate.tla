--------------------------- MODULE MCAutoAbsentGate ---------------------------
(* One device with two punches, the second one refused by the cloud. *)
EXTENDS AutoAbsentGate, TLC

CONSTANTS d1, p1, p2

OneDevice == {d1}
TwoPunches == {p1, p2}
SecondPunch == {p2}
OnOne == p1 :> d1 @@ p2 :> d1
=============================================================================
