------------------------------ MODULE MCExamFee ------------------------------
EXTENDS ExamFee, TLC

CONSTANTS b1, b2, k1, k2

Alike == Permutations({b1, b2}) \cup Permutations({k1, k2})
=============================================================================
