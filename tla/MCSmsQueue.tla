----------------------------- MODULE MCSmsQueue -----------------------------
(* Small instances of the message queue. *)
EXTENDS SmsQueue

CONSTANTS w1, w2, r1, r2

TwoWorkers == {w1, w2}
OneRow == {r1}
SecondRow == {r2}
TwoRows == {r1, r2}
=============================================================================
