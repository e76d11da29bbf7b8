-------------------------------- MODULE Outbox --------------------------------
(***************************************************************************)
(* What the message queue promises about every message, with the workers,  *)
(* their locks and their deaths left out: it waits until it was delivered  *)
(* or given up, is closed once, costs the recipient at most one copy per   *)
(* claim, and is given up only when its claims are spent or it is too old. *)
(* Claims stop at the maximum, except for messages that a worker may hold  *)
(* for too long.                                                           *)
(***************************************************************************)
EXTENDS Naturals

CONSTANTS Rows, MaxAttempts, Outlasted

VARIABLES
    state,    \* where each message stands
    claims,   \* how often somebody took it in hand
    copies,   \* how often the recipient got it
    old       \* messages too old to be of use

vars == <<state, claims, copies, old>>

Init ==
    /\ state = [r \in Rows |-> "none"]
    /\ claims = [r \in Rows |-> 0]
    /\ copies = [r \in Rows |-> 0]
    /\ old = {}

Waiting == {r \in Rows : state[r] = "waiting"}
Spent(r) == claims[r] >= MaxAttempts

Queue(r) ==
    /\ state[r] = "none"
    /\ state' = [state EXCEPT ![r] = "waiting"]
    /\ UNCHANGED <<claims, copies, old>>

Ages(r) ==
    /\ r \in Waiting
    /\ old' = old \cup {r}
    /\ UNCHANGED <<state, claims, copies>>

(* Several messages are claimed at once ... *)
Claim(S) ==
    /\ S \subseteq Waiting
    /\ \A r \in S \ Outlasted : ~Spent(r)
    /\ claims' = [r \in Rows |-> IF r \in S THEN claims[r] + 1 ELSE claims[r]]
    /\ UNCHANGED <<state, copies, old>>

(* ... and each claim delivers at most one copy, even after the message    *)
(* was closed.                                                             *)
Deliver(r) ==
    /\ copies[r] < claims[r]
    /\ copies' = [copies EXCEPT ![r] = @ + 1]
    /\ UNCHANGED <<state, claims, old>>

Confirm(r) ==
    /\ r \in Waiting
    /\ copies[r] > 0
    /\ state' = [state EXCEPT ![r] = "sent"]
    /\ UNCHANGED <<claims, copies, old>>

GiveUp(S) ==
    /\ S \subseteq Waiting
    /\ \A r \in S : r \in old \/ Spent(r)
    /\ state' = [r \in Rows |-> IF r \in S THEN "failed" ELSE state[r]]
    /\ UNCHANGED <<claims, copies, old>>

Next ==
    \/ \E r \in Rows : Queue(r) \/ Ages(r) \/ Deliver(r) \/ Confirm(r)
    \/ \E S \in SUBSET Rows : Claim(S) \/ GiveUp(S)

Spec == Init /\ [][Next]_vars
=============================================================================
