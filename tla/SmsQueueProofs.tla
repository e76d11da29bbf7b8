---------------------------- MODULE SmsQueueProofs ----------------------------
(***************************************************************************)
(* The message queue is safe for every set of rows and workers, with short *)
(* and with slow passes.                                                   *)
(***************************************************************************)
EXTENDS SmsQueue, FiniteSetTheorems, TLAPS

USE SmsQueueAssumption DEF rowVars, clockVars, passVars

LEMMA InitIInv == Init => IInv
<1> SUFFICES ASSUME Init PROVE IInv
    OBVIOUS
<1> USE DEF Init
<1>1. TypeOK
  BY DEF TypeOK, Statuses, Places
<1>2. HeldByOwner /\ AttemptsBounded /\ SentWasAccepted /\ GivenUpHonestly
  BY DEF HeldByOwner, AttemptsBounded, SentWasAccepted, GivenUpHonestly, InStatus
<1>3. DeliversOwnRow /\ LocksOnly /\ TriesAreOld /\ ReportsAreTrue /\ ShortPasses
  BY DEF DeliversOwnRow, LocksOnly, TriesAreOld, ReportsAreTrue, ShortPasses
<1>4. AttemptsCover
  <2> SUFFICES ASSUME NEW r \in Rows
               PROVE  accepted[r] + Cardinality(Unsent(r)) <= attempts[r]
    BY DEF AttemptsCover
  <2>1. Unsent(r) = {}
    BY DEF Unsent
  <2> QED BY <2>1, FS_EmptySet
<1> QED BY <1>1, <1>2, <1>3, <1>4 DEF IInv

---------------------------------------------------------------------------
(* The claims not sent yet are finitely many, and never more than the      *)
(* attempts, as long as none is added without an attempt.                  *)

LEMMA UnsentFinite ==
    ASSUME NEW r \in Rows
    PROVE  IsFiniteSet(Unsent(r)) /\ Cardinality(Unsent(r)) \in Nat
<1>1. Unsent(r) \subseteq Workers
  BY DEF Unsent
<1> QED BY <1>1, FS_Subset, FS_CardinalityType

LEMMA CoverKept ==
    ASSUME TypeOK, AttemptsCover, UNCHANGED <<accepted, attempts>>,
           \A r \in Rows : Unsent(r)' \subseteq Unsent(r)
    PROVE  AttemptsCover'
<1> SUFFICES ASSUME NEW r \in Rows
             PROVE  accepted[r] + Cardinality(Unsent(r)') <= attempts[r]
    BY DEF AttemptsCover
<1>1. IsFiniteSet(Unsent(r)) /\ Cardinality(Unsent(r)) \in Nat
  BY UnsentFinite
<1>2. Cardinality(Unsent(r)') <= Cardinality(Unsent(r)) /\ Cardinality(Unsent(r)') \in Nat
  BY <1>1, FS_Subset, FS_CardinalityType
<1>3. accepted[r] \in Nat /\ attempts[r] \in Nat
  BY DEF TypeOK
<1> QED BY <1>1, <1>2, <1>3 DEF AttemptsCover

---------------------------------------------------------------------------
(* Each action preserves the invariant. *)

(* A new message is nobody's.                                              *)
LEMMA EnqueueStep ==
    ASSUME IInv, NEW q \in Rows, Enqueue(q)
    PROVE  IInv'
<1> USE DEF IInv, Enqueue
<1>1. TypeOK'
  BY DEF TypeOK, Statuses, Places
<1>2. HeldByOwner' /\ LocksOnly'
  BY DEF HeldByOwner, LocksOnly, ShortPasses, TypeOK
<1>3. AttemptsBounded' /\ ShortPasses'
  BY DEF HeldByOwner, LocksOnly, ShortPasses, AttemptsBounded, TypeOK
<1>4. SentWasAccepted' /\ GivenUpHonestly'
  BY DEF SentWasAccepted, GivenUpHonestly, InStatus, LocksOnly, TriesAreOld, ReportsAreTrue, DeliversOwnRow, TypeOK
<1>5. DeliversOwnRow' /\ ReportsAreTrue' /\ TriesAreOld'
  BY DEF DeliversOwnRow, ReportsAreTrue, TriesAreOld, LocksOnly, TypeOK
<1>6. AttemptsCover'
  <2>1. \A r \in Rows : Unsent(r)' \subseteq Unsent(r)
    BY DEF Unsent, TypeOK
  <2> QED BY <2>1, CoverKept
<1> QED BY <1>1, <1>2, <1>3, <1>4, <1>5, <1>6

(* The clock makes a message due ...                                       *)
LEMMA BecomesDueStep ==
    ASSUME IInv, NEW q \in Rows, BecomesDue(q)
    PROVE  IInv'
<1> USE DEF IInv, BecomesDue
<1>1. TypeOK'
  BY DEF TypeOK, Statuses, Places
<1>2. HeldByOwner' /\ LocksOnly'
  BY DEF HeldByOwner, LocksOnly, ShortPasses, TypeOK
<1>3. AttemptsBounded' /\ ShortPasses'
  BY DEF HeldByOwner, LocksOnly, ShortPasses, AttemptsBounded, TypeOK
<1>4. SentWasAccepted' /\ GivenUpHonestly'
  BY DEF SentWasAccepted, GivenUpHonestly, InStatus, LocksOnly, TriesAreOld, ReportsAreTrue, DeliversOwnRow, TypeOK
<1>5. DeliversOwnRow' /\ ReportsAreTrue' /\ TriesAreOld'
  BY DEF DeliversOwnRow, ReportsAreTrue, TriesAreOld, LocksOnly, TypeOK
<1>6. AttemptsCover'
  <2>1. \A r \in Rows : Unsent(r)' \subseteq Unsent(r)
    BY DEF Unsent, TypeOK
  <2> QED BY <2>1, CoverKept
<1> QED BY <1>1, <1>2, <1>3, <1>4, <1>5, <1>6

(* ... or too old ...                                                      *)
LEMMA ExpiresStep ==
    ASSUME IInv, NEW q \in Rows, Expires(q)
    PROVE  IInv'
<1> USE DEF IInv, Expires
<1>1. TypeOK'
  BY DEF TypeOK, Statuses, Places
<1>2. HeldByOwner' /\ LocksOnly'
  BY DEF HeldByOwner, LocksOnly, ShortPasses, TypeOK
<1>3. AttemptsBounded' /\ ShortPasses'
  BY DEF HeldByOwner, LocksOnly, ShortPasses, AttemptsBounded, TypeOK
<1>4. SentWasAccepted' /\ GivenUpHonestly'
  BY DEF SentWasAccepted, GivenUpHonestly, InStatus, LocksOnly, TriesAreOld, ReportsAreTrue, DeliversOwnRow, TypeOK
<1>5. DeliversOwnRow' /\ ReportsAreTrue' /\ TriesAreOld'
  BY DEF DeliversOwnRow, ReportsAreTrue, TriesAreOld, LocksOnly, TypeOK
<1>6. AttemptsCover'
  <2>1. \A r \in Rows : Unsent(r)' \subseteq Unsent(r)
    BY DEF Unsent, TypeOK
  <2> QED BY <2>1, CoverKept
<1> QED BY <1>1, <1>2, <1>3, <1>4, <1>5, <1>6

(* ... or its lock stale, when nobody uses it or passes may be slow.       *)
LEMMA LockAgesStep ==
    ASSUME IInv, NEW q \in Rows, LockAges(q)
    PROVE  IInv'
<1> USE DEF IInv, LockAges, Held
<1>1. TypeOK'
  BY DEF TypeOK, Statuses, Places
<1>2. HeldByOwner' /\ LocksOnly'
  BY DEF HeldByOwner, LocksOnly, ShortPasses, TypeOK
<1>3. AttemptsBounded' /\ ShortPasses'
  BY DEF HeldByOwner, LocksOnly, ShortPasses, AttemptsBounded, TypeOK
<1>4. SentWasAccepted' /\ GivenUpHonestly'
  BY DEF SentWasAccepted, GivenUpHonestly, InStatus, LocksOnly, TriesAreOld, ReportsAreTrue, DeliversOwnRow, TypeOK
<1>5. DeliversOwnRow' /\ ReportsAreTrue' /\ TriesAreOld'
  BY DEF DeliversOwnRow, ReportsAreTrue, TriesAreOld, LocksOnly, TypeOK
<1>6. AttemptsCover'
  <2>1. \A r \in Rows : Unsent(r)' \subseteq Unsent(r)
    BY DEF Unsent, TypeOK
  <2> QED BY <2>1, CoverKept
<1> QED BY <1>1, <1>2, <1>3, <1>4, <1>5, <1>6

(* Recovery takes stale locks only.                                        *)
LEMMA RecoverStaleStep ==
    ASSUME IInv, NEW v \in Workers, RecoverStale(v)
    PROVE  IInv'
<1> USE DEF IInv, RecoverStale
<1>1. TypeOK'
  BY DEF TypeOK, Statuses, Places
<1>2. HeldByOwner' /\ LocksOnly'
  BY DEF HeldByOwner, LocksOnly, ShortPasses, TypeOK
<1>3. AttemptsBounded' /\ ShortPasses'
  BY DEF HeldByOwner, LocksOnly, ShortPasses, AttemptsBounded, TypeOK
<1>4. SentWasAccepted' /\ GivenUpHonestly'
  BY DEF SentWasAccepted, GivenUpHonestly, InStatus, LocksOnly, TriesAreOld, ReportsAreTrue, DeliversOwnRow, TypeOK
<1>5. DeliversOwnRow' /\ ReportsAreTrue' /\ TriesAreOld'
  BY DEF DeliversOwnRow, ReportsAreTrue, TriesAreOld, LocksOnly, TypeOK
<1>6. AttemptsCover'
  <2>1. \A r \in Rows : Unsent(r)' \subseteq Unsent(r)
    BY DEF Unsent, TypeOK
  <2> QED BY <2>1, CoverKept
<1> QED BY <1>1, <1>2, <1>3, <1>4, <1>5, <1>6

(* A claim takes rows nobody holds, and counts an attempt for each.        *)
LEMMA ClaimBatchStep ==
    ASSUME IInv, NEW v \in Workers, ClaimBatch(v)
    PROVE  IInv'
<1> USE DEF IInv, CountedOn
<1>a. PICK S \in SUBSET (InStatus("PENDING") \cap due) :
         /\ row' = [r \in Rows |-> IF r \in S THEN "PROCESSING" ELSE row[r]]
         /\ attempts' = CountedOn(S)
         /\ owner' = [r \in Rows |-> IF r \in S THEN v ELSE owner[r]]
         /\ batch' = [batch EXCEPT ![v] = S]
         /\ tries' = [tries EXCEPT ![v] = [r \in Rows |-> IF r \in S THEN CountedOn(S)[r] ELSE 0]]
         /\ at' = [at EXCEPT ![v] = IF S = {} THEN "idle" ELSE "working"]
         /\ due' = due \ S
  BY DEF ClaimBatch
<1>b. /\ S \in SUBSET Rows
      /\ \A r \in S : row[r] = "PENDING"
      /\ row' = [r \in Rows |-> IF r \in S THEN "PROCESSING" ELSE row[r]]
      /\ attempts' = CountedOn(S)
      /\ owner' = [r \in Rows |-> IF r \in S THEN v ELSE owner[r]]
      /\ batch' = [batch EXCEPT ![v] = S]
      /\ tries' = [tries EXCEPT ![v] = [r \in Rows |-> IF r \in S THEN CountedOn(S)[r] ELSE 0]]
      /\ at' = [at EXCEPT ![v] = IF S = {} THEN "idle" ELSE "working"]
      /\ due' = due \ S
      /\ UNCHANGED <<expired, stale, accepted, current>>
      /\ at[v] = "claiming"
  BY <1>a DEF ClaimBatch, InStatus
<1>1. TypeOK'
  BY <1>b DEF TypeOK, Statuses, Places
<1>2. HeldByOwner' /\ LocksOnly'
  BY <1>b DEF HeldByOwner, LocksOnly, ShortPasses, TypeOK
<1>3. AttemptsBounded' /\ ShortPasses'
  BY <1>b DEF HeldByOwner, LocksOnly, ShortPasses, AttemptsBounded, TypeOK
<1>4. SentWasAccepted' /\ GivenUpHonestly'
  BY <1>b DEF SentWasAccepted, GivenUpHonestly, InStatus, LocksOnly, TriesAreOld, ReportsAreTrue, DeliversOwnRow, TypeOK
<1>5. DeliversOwnRow' /\ ReportsAreTrue' /\ TriesAreOld'
  BY <1>b DEF DeliversOwnRow, ReportsAreTrue, TriesAreOld, LocksOnly, TypeOK
<1>6. AttemptsCover'
  <2> SUFFICES ASSUME NEW r \in Rows
               PROVE  accepted[r] + Cardinality(Unsent(r)') <= attempts'[r]
    BY <1>b DEF AttemptsCover
  <2>1. IsFiniteSet(Unsent(r)) /\ Cardinality(Unsent(r)) \in Nat
    BY UnsentFinite
  <2>2. accepted[r] \in Nat /\ attempts[r] \in Nat /\ accepted[r] + Cardinality(Unsent(r)) <= attempts[r]
    BY DEF TypeOK, AttemptsCover
  <2>3. CASE r \in S
    <3>1. Unsent(r)' \subseteq Unsent(r) \cup {v}
      BY <1>b DEF Unsent, TypeOK
    <3>2. Cardinality(Unsent(r) \cup {v}) <= Cardinality(Unsent(r)) + 1
          /\ Cardinality(Unsent(r) \cup {v}) \in Nat /\ IsFiniteSet(Unsent(r) \cup {v})
      <4>1. IsFiniteSet(Unsent(r) \cup {v})
            /\ Cardinality(Unsent(r) \cup {v})
                 = IF v \in Unsent(r) THEN Cardinality(Unsent(r)) ELSE Cardinality(Unsent(r)) + 1
        BY <2>1, FS_AddElement
      <4> QED BY <2>1, <4>1
    <3>3. Cardinality(Unsent(r)') <= Cardinality(Unsent(r) \cup {v}) /\ Cardinality(Unsent(r)') \in Nat
      BY <3>1, <3>2, FS_Subset, FS_CardinalityType
    <3>4. attempts'[r] = attempts[r] + 1
      BY <1>b, <2>3 DEF CountedOn
    <3> QED BY <2>1, <2>2, <3>2, <3>3, <3>4
  <2>4. CASE r \notin S
    <3>1. Unsent(r)' \subseteq Unsent(r)
      BY <1>b, <2>4 DEF Unsent, TypeOK
    <3>2. Cardinality(Unsent(r)') <= Cardinality(Unsent(r)) /\ Cardinality(Unsent(r)') \in Nat
      BY <2>1, <3>1, FS_Subset, FS_CardinalityType
    <3>3. attempts'[r] = attempts[r]
      BY <1>b, <2>4 DEF CountedOn
    <3> QED BY <2>1, <2>2, <3>2, <3>3
  <2> QED BY <2>3, <2>4
<1> QED BY <1>1, <1>2, <1>3, <1>4, <1>5, <1>6

(* A worker closes or releases a row of its batch: a delivery happened, an *)
(* attempt is left, or the row is given up for a reason.                   *)
LEMMA CloseStep ==
    ASSUME IInv, NEW v \in Workers, NEW q \in batch[v], NEW st \in {"SENT", "PENDING", "FAILED"},
           Mark(q, st), Finish(v, q), UNCHANGED accepted,
           at[v] = "working" \/ q = current[v],
           st = "SENT" => accepted[q] > 0,
           st = "PENDING" => tries[v][q] < MaxAttempts,
           st = "FAILED" => q \in expired \/ attempts[q] >= MaxAttempts
    PROVE  IInv'
<1> USE DEF IInv
<1>a. q \in Rows
  BY DEF TypeOK
<1>b. /\ row' = [row EXCEPT ![q] = IF row[q] = "PROCESSING" THEN st ELSE row[q]]
      /\ stale' = IF row[q] = "PROCESSING" THEN stale \ {q} ELSE stale
      /\ batch' = [batch EXCEPT ![v] = batch[v] \ {q}]
      /\ at' = [at EXCEPT ![v] = IF batch[v] = {q} THEN "idle" ELSE "working"]
      /\ current' = [current EXCEPT ![v] = None]
      /\ UNCHANGED <<attempts, owner, due, expired, accepted>>
  BY DEF Mark, Finish
<1>c. /\ tries' \in [Workers -> [Rows -> Nat]]
      /\ \A w \in Workers : \A r \in batch'[w] : r \in batch[w] /\ tries'[w][r] = tries[w][r]
  <2>1. tries' = [tries EXCEPT ![v] = [tries[v] EXCEPT ![q] = 0]]
    BY DEF Finish
  <2>2. tries[v] \in [Rows -> Nat]
    BY DEF TypeOK
  <2>3. [tries[v] EXCEPT ![q] = 0] \in [Rows -> Nat]
        /\ \A r \in Rows \ {q} : [tries[v] EXCEPT ![q] = 0][r] = tries[v][r]
    BY <1>a, <2>2
  <2>4. tries' \in [Workers -> [Rows -> Nat]]
    BY <2>1, <2>3 DEF TypeOK
  <2>5. tries'[v] = [tries[v] EXCEPT ![q] = 0] /\ \A w \in Workers \ {v} : tries'[w] = tries[w]
    BY <2>1 DEF TypeOK
  <2> QED BY <1>b, <2>3, <2>4, <2>5 DEF TypeOK
<1>1. TypeOK'
  BY <1>a, <1>b, <1>c DEF TypeOK, Statuses, Places
<1>2. LocksOnly'
  BY <1>a, <1>b DEF LocksOnly, TypeOK
<1>3. HeldByOwner'
  BY <1>a, <1>b DEF HeldByOwner, TypeOK
<1>4. AttemptsBounded'
  BY <1>a, <1>b DEF AttemptsBounded, TypeOK
<1>5. ShortPasses'
  <2>1. q \notin Outlasted => tries[v][q] = attempts[q]
    BY DEF ShortPasses
  <2>2. \A r \in Rows \ Outlasted : row'[r] \in {"none", "PENDING"} => attempts[r] < MaxAttempts
    BY <1>a, <1>b, <2>1 DEF ShortPasses, TypeOK
  <2>3. \A w \in Workers : \A r \in batch'[w] \ Outlasted : r \notin stale' /\ tries'[w][r] = attempts'[r]
    BY <1>b, <1>c DEF ShortPasses
  <2> QED BY <1>b, <2>2, <2>3 DEF ShortPasses
<1>6. SentWasAccepted'
  BY <1>a, <1>b DEF SentWasAccepted, InStatus, TypeOK
<1>7. GivenUpHonestly'
  BY <1>a, <1>b DEF GivenUpHonestly, InStatus, TypeOK
<1>8. DeliversOwnRow' /\ ReportsAreTrue'
  BY <1>b DEF DeliversOwnRow, ReportsAreTrue, TypeOK
<1>9. TriesAreOld'
  BY <1>b, <1>c DEF TriesAreOld
<1>10. AttemptsCover'
  <2>1. \A r \in Rows : Unsent(r)' \subseteq Unsent(r)
    <3> SUFFICES ASSUME NEW r \in Rows, NEW w \in Workers, r \in batch'[w],
                        ~(at'[w] \in {"sent", "error"} /\ current'[w] = r)
                 PROVE  r \in batch[w] /\ ~(at[w] \in {"sent", "error"} /\ current[w] = r)
      BY DEF Unsent
    <3>1. CASE w # v
      BY <1>b, <3>1 DEF TypeOK
    <3>2. CASE w = v /\ current[v] = q
      BY <1>b, <3>2 DEF TypeOK
    <3>3. CASE w = v /\ at[v] \notin {"sent", "error"}
      BY <1>b, <3>3 DEF TypeOK
    <3> QED BY <3>1, <3>2, <3>3
  <2> QED BY <1>b, <2>1, CoverKept
<1> QED BY <1>1, <1>2, <1>3, <1>4, <1>5, <1>6, <1>7, <1>8, <1>9, <1>10

(* A row too old is failed without a call.                                 *)
LEMMA DropExpiredStep ==
    ASSUME IInv, NEW v \in Workers, NEW q \in Rows, DropExpired(v, q)
    PROVE  IInv'
BY CloseStep DEF DropExpired

(* The call begins.                                                        *)
LEMMA StartSendStep ==
    ASSUME IInv, NEW v \in Workers, NEW q \in Rows, StartSend(v, q)
    PROVE  IInv'
<1> USE DEF IInv, StartSend
<1>1. TypeOK'
  BY DEF TypeOK, Statuses, Places
<1>2. HeldByOwner' /\ LocksOnly'
  BY DEF HeldByOwner, LocksOnly, ShortPasses, TypeOK
<1>3. AttemptsBounded' /\ ShortPasses'
  BY DEF HeldByOwner, LocksOnly, ShortPasses, AttemptsBounded, TypeOK
<1>4. SentWasAccepted' /\ GivenUpHonestly'
  BY DEF SentWasAccepted, GivenUpHonestly, InStatus, LocksOnly, TriesAreOld, ReportsAreTrue, DeliversOwnRow, TypeOK
<1>5. DeliversOwnRow' /\ ReportsAreTrue' /\ TriesAreOld'
  BY DEF DeliversOwnRow, ReportsAreTrue, TriesAreOld, LocksOnly, TypeOK
<1>6. AttemptsCover'
  <2>1. \A r \in Rows : Unsent(r)' \subseteq Unsent(r)
    BY DEF Unsent, TypeOK
  <2> QED BY <2>1, CoverKept
<1> QED BY <1>1, <1>2, <1>3, <1>4, <1>5, <1>6

(* The call ends: one claim less to send, one message more at most.        *)
LEMMA SendStep ==
    ASSUME IInv, NEW v \in Workers, Send(v)
    PROVE  IInv'
<1> USE DEF IInv
<1>a. PICK one \in {0, 1}, end \in {"sent", "error"} :
         /\ accepted' = [accepted EXCEPT ![current[v]] = @ + one]
         /\ at' = [at EXCEPT ![v] = end]
         /\ end = "sent" => one = 1
  <2>1. PICK ok \in BOOLEAN :
           /\ accepted' = [accepted EXCEPT ![current[v]] = @ + IF ok THEN 1 ELSE 0]
           /\ \E end \in (IF ok THEN {"sent", "error"} ELSE {"error"}) : at' = [at EXCEPT ![v] = end]
    BY DEF Send
  <2>2. CASE ok
    BY <2>1, <2>2
  <2>3. CASE ~ok
    BY <2>1, <2>3
  <2> QED BY <2>2, <2>3
<1>b. /\ accepted' = [accepted EXCEPT ![current[v]] = @ + one]
      /\ at' = [at EXCEPT ![v] = end]
      /\ end = "sent" => one = 1
      /\ one \in {0, 1} /\ end \in {"sent", "error"}
      /\ at[v] = "sending"
      /\ current[v] \in batch[v] /\ current[v] \in Rows
      /\ UNCHANGED <<rowVars, clockVars, batch, current, tries>>
  BY <1>a DEF Send, DeliversOwnRow, TypeOK
<1>1. TypeOK'
  BY <1>b DEF TypeOK, Statuses, Places
<1>2. HeldByOwner' /\ LocksOnly'
  BY <1>b DEF HeldByOwner, LocksOnly, ShortPasses, TypeOK
<1>3. AttemptsBounded' /\ ShortPasses'
  BY <1>b DEF HeldByOwner, LocksOnly, ShortPasses, AttemptsBounded, TypeOK
<1>4. SentWasAccepted' /\ GivenUpHonestly'
  BY <1>b DEF SentWasAccepted, GivenUpHonestly, InStatus, LocksOnly, TriesAreOld, ReportsAreTrue, DeliversOwnRow, TypeOK
<1>5. DeliversOwnRow' /\ ReportsAreTrue' /\ TriesAreOld'
  BY <1>b DEF DeliversOwnRow, ReportsAreTrue, TriesAreOld, LocksOnly, TypeOK
<1>6. AttemptsCover'
  <2> SUFFICES ASSUME NEW r \in Rows
               PROVE  accepted'[r] + Cardinality(Unsent(r)') <= attempts[r]
    BY <1>b DEF AttemptsCover
  <2>1. IsFiniteSet(Unsent(r)) /\ Cardinality(Unsent(r)) \in Nat
    BY UnsentFinite
  <2>2. accepted[r] \in Nat /\ attempts[r] \in Nat /\ accepted[r] + Cardinality(Unsent(r)) <= attempts[r]
    BY DEF TypeOK, AttemptsCover
  <2>3. CASE r = current[v]
    <3>1. v \in Unsent(r) /\ Unsent(r)' \subseteq Unsent(r) \ {v}
      BY <1>b, <2>3 DEF Unsent, TypeOK, DeliversOwnRow
    <3>2. Cardinality(Unsent(r) \ {v}) = Cardinality(Unsent(r)) - 1 /\ IsFiniteSet(Unsent(r) \ {v})
      BY <2>1, <3>1, FS_RemoveElement
    <3>3. Cardinality(Unsent(r)') <= Cardinality(Unsent(r) \ {v}) /\ Cardinality(Unsent(r)') \in Nat
      BY <3>1, <3>2, FS_Subset, FS_CardinalityType
    <3>4. accepted'[r] <= accepted[r] + 1 /\ accepted'[r] \in Nat
      BY <1>b, <2>2, <2>3 DEF TypeOK
    <3> QED BY <2>1, <2>2, <3>2, <3>3, <3>4
  <2>4. CASE r # current[v]
    <3>1. Unsent(r)' \subseteq Unsent(r)
      BY <1>b, <2>4 DEF Unsent, TypeOK
    <3>2. Cardinality(Unsent(r)') <= Cardinality(Unsent(r)) /\ Cardinality(Unsent(r)') \in Nat
      BY <2>1, <3>1, FS_Subset, FS_CardinalityType
    <3>3. accepted'[r] = accepted[r]
      BY <1>b, <2>4 DEF TypeOK
    <3> QED BY <2>1, <2>2, <3>2, <3>3
  <2> QED BY <2>3, <2>4
<1> QED BY <1>1, <1>2, <1>3, <1>4, <1>5, <1>6

(* A reported delivery closes the row, unless marking it throws.           *)
LEMMA MarkSentStep ==
    ASSUME IInv, NEW v \in Workers, MarkSent(v)
    PROVE  IInv'
<1>a. current[v] \in batch[v] /\ at[v] = "sent" /\ accepted[current[v]] > 0
  BY DEF IInv, MarkSent, DeliversOwnRow, ReportsAreTrue
<1>1. CASE Mark(current[v], "SENT") /\ Finish(v, current[v])
  BY <1>1, <1>a, CloseStep DEF MarkSent
<1>2. CASE at' = [at EXCEPT ![v] = "error"]
           /\ UNCHANGED <<rowVars, clockVars, batch, current, tries>>
  <2> USE DEF IInv
  <2>a. UNCHANGED accepted
    BY DEF MarkSent
  <2>1. TypeOK'
    BY <1>2, <2>a DEF TypeOK, Statuses, Places
  <2>2. HeldByOwner' /\ LocksOnly'
    BY <1>2 DEF HeldByOwner, LocksOnly, TypeOK
  <2>3. AttemptsBounded' /\ ShortPasses'
    BY <1>2 DEF ShortPasses, AttemptsBounded
  <2>4. SentWasAccepted' /\ GivenUpHonestly'
    BY <1>2, <2>a DEF SentWasAccepted, GivenUpHonestly, InStatus
  <2>5. DeliversOwnRow' /\ ReportsAreTrue' /\ TriesAreOld'
    BY <1>2, <1>a, <2>a DEF DeliversOwnRow, ReportsAreTrue, TriesAreOld, TypeOK
  <2>6. AttemptsCover'
    <3>1. \A r \in Rows : Unsent(r)' \subseteq Unsent(r)
      BY <1>2, <1>a DEF Unsent, TypeOK
    <3> QED BY <1>2, <2>a, <3>1, CoverKept
  <2> QED BY <2>1, <2>2, <2>3, <2>4, <2>5, <2>6
<1> QED BY <1>1, <1>2 DEF MarkSent

(* A failure releases the row, or closes it after the last attempt.        *)
LEMMA MarkErrorStep ==
    ASSUME IInv, NEW v \in Workers, MarkError(v)
    PROVE  IInv'
<1> DEFINE q == current[v]
           st == IF tries[v][q] >= MaxAttempts THEN "FAILED" ELSE "PENDING"
<1>1. q \in batch[v] /\ tries[v][q] <= attempts[q] /\ tries[v][q] \in Nat /\ attempts[q] \in Nat
  BY DEF IInv, MarkError, DeliversOwnRow, TriesAreOld, TypeOK
<1>2. Mark(q, st) /\ Finish(v, q) /\ UNCHANGED accepted
  BY DEF MarkError
<1>3. st \in {"SENT", "PENDING", "FAILED"}
  OBVIOUS
<1>4. (st = "PENDING" => tries[v][q] < MaxAttempts) /\ (st = "FAILED" => attempts[q] >= MaxAttempts)
      /\ st # "SENT"
  BY <1>1
<1> HIDE DEF st, q
<1> QED BY <1>1, <1>2, <1>3, <1>4, CloseStep DEF q

(* A pass that ends leaves its rows locked.                                *)
LEMMA AbortStep ==
    ASSUME IInv, NEW v \in Workers, Abort(v)
    PROVE  IInv'
<1> USE DEF IInv, Abort
<1>1. TypeOK'
  BY DEF TypeOK, Statuses, Places
<1>2. HeldByOwner' /\ LocksOnly'
  BY DEF HeldByOwner, LocksOnly, ShortPasses, TypeOK
<1>3. AttemptsBounded' /\ ShortPasses'
  BY DEF HeldByOwner, LocksOnly, ShortPasses, AttemptsBounded, TypeOK
<1>4. SentWasAccepted' /\ GivenUpHonestly'
  BY DEF SentWasAccepted, GivenUpHonestly, InStatus, LocksOnly, TriesAreOld, ReportsAreTrue, DeliversOwnRow, TypeOK
<1>5. DeliversOwnRow' /\ ReportsAreTrue' /\ TriesAreOld'
  BY DEF DeliversOwnRow, ReportsAreTrue, TriesAreOld, LocksOnly, TypeOK
<1>6. AttemptsCover'
  <2>1. \A r \in Rows : Unsent(r)' \subseteq Unsent(r)
    BY DEF Unsent, TypeOK
  <2> QED BY <2>1, CoverKept
<1> QED BY <1>1, <1>2, <1>3, <1>4, <1>5, <1>6

(* A stuttering step.                                                      *)
LEMMA StutterStep ==
    ASSUME IInv, UNCHANGED vars
    PROVE  IInv'
<1> USE DEF IInv, vars
<1>1. TypeOK'
  BY DEF TypeOK, Statuses, Places
<1>2. HeldByOwner' /\ LocksOnly'
  BY DEF HeldByOwner, LocksOnly, ShortPasses, TypeOK
<1>3. AttemptsBounded' /\ ShortPasses'
  BY DEF HeldByOwner, LocksOnly, ShortPasses, AttemptsBounded, TypeOK
<1>4. SentWasAccepted' /\ GivenUpHonestly'
  BY DEF SentWasAccepted, GivenUpHonestly, InStatus, LocksOnly, TriesAreOld, ReportsAreTrue, DeliversOwnRow, TypeOK
<1>5. DeliversOwnRow' /\ ReportsAreTrue' /\ TriesAreOld'
  BY DEF DeliversOwnRow, ReportsAreTrue, TriesAreOld, LocksOnly, TypeOK
<1>6. AttemptsCover'
  <2>1. \A r \in Rows : Unsent(r)' \subseteq Unsent(r)
    BY DEF Unsent, TypeOK
  <2> QED BY <2>1, CoverKept
<1> QED BY <1>1, <1>2, <1>3, <1>4, <1>5, <1>6

---------------------------------------------------------------------------
(* The invariant holds for every set of rows and workers (sms-queue).      *)
THEOREM Invariance == Spec => []IInv
<1>1. Init => IInv
  BY InitIInv
<1>2. IInv /\ [Next]_vars => IInv'
  <2> SUFFICES ASSUME IInv, [Next]_vars PROVE IInv'
    OBVIOUS
  <2>1. CASE \E r \in Rows : Enqueue(r) \/ BecomesDue(r) \/ Expires(r) \/ LockAges(r)
    BY <2>1, EnqueueStep, BecomesDueStep, ExpiresStep, LockAgesStep
  <2>2. CASE \E w \in Workers : Pass(w) \/ Abort(w)
    BY <2>2, RecoverStaleStep, ClaimBatchStep, DropExpiredStep, StartSendStep, SendStep,
       MarkSentStep, MarkErrorStep, AbortStep DEF Pass
  <2>3. CASE UNCHANGED vars
    BY <2>3, StutterStep
  <2> QED BY <2>1, <2>2, <2>3 DEF Next
<1> QED BY <1>1, <1>2, PTL DEF Spec

(* Type correctness of rows, passes and clocks (sms-queue).                *)
THEOREM TypesHold == Spec => []TypeOK
BY Invariance, PTL DEF IInv

(* A row in delivery is locked by the worker that delivers it, as long as  *)
(* passes are shorter than the stale timeout (claimBatch).                 *)
THEOREM ExclusiveClaims == Spec => []HeldByOwner
BY Invariance, PTL DEF IInv

(* ... and no message is claimed more often than its maximum.              *)
THEOREM BoundedAttempts == Spec => []AttemptsBounded
BY Invariance, PTL DEF IInv

(* However slow the workers are, a claim sends at most one message ...     *)
THEOREM OneSendPerAttempt == Spec => []SendsPerAttempt
<1>1. IInv => SendsPerAttempt
  <2> SUFFICES ASSUME IInv, NEW r \in Rows PROVE accepted[r] <= attempts[r]
    BY DEF SendsPerAttempt
  <2>1. Cardinality(Unsent(r)) \in Nat
    BY UnsentFinite
  <2> QED BY <2>1 DEF IInv, AttemptsCover, TypeOK
<1> QED BY <1>1, Invariance, PTL

(* ... what is marked SENT was accepted ...                                *)
THEOREM SentAreAccepted == Spec => []SentWasAccepted
BY Invariance, PTL DEF IInv

(* ... and what is given up was tried to the end or too old.               *)
THEOREM HonestFailures == Spec => []GivenUpHonestly
BY Invariance, PTL DEF IInv

(* A closed row stays closed (markSent, markRetry, markFailed).            *)
THEOREM ClosedStaysClosed == Spec => ClosedForGood
<1>1. IInv /\ [Next]_vars
        => [\A r \in Rows : row[r] \in {"SENT", "FAILED"} => row'[r] = row[r]]_vars
  <2> SUFFICES ASSUME IInv, Next, NEW r \in Rows, row[r] \in {"SENT", "FAILED"}
               PROVE  row'[r] = row[r]
    OBVIOUS
  <2> USE DEF IInv, TypeOK
  <2>1. CASE \E q \in Rows : Enqueue(q) \/ BecomesDue(q) \/ Expires(q) \/ LockAges(q)
    BY <2>1 DEF Enqueue, BecomesDue, Expires, LockAges
  <2>2. CASE \E w \in Workers : Abort(w) \/ Send(w) \/ \E q \in Rows : StartSend(w, q)
    BY <2>2 DEF Abort, Send, StartSend
  <2>3. CASE \E w \in Workers : RecoverStale(w)
    BY <2>3 DEF RecoverStale, LocksOnly
  <2>4. CASE \E w \in Workers : ClaimBatch(w)
    BY <2>4 DEF ClaimBatch, InStatus
  <2>5. CASE \E w \in Workers : MarkSent(w) \/ MarkError(w) \/ \E q \in Rows : DropExpired(w, q)
    BY <2>5 DEF MarkSent, MarkError, DropExpired, Mark
  <2> QED BY <2>1, <2>2, <2>3, <2>4, <2>5 DEF Next, Pass
<1> QED BY <1>1, Invariance, PTL DEF Spec, ClosedForGood

---------------------------------------------------------------------------
(* The rows implement the outbox. Steps that leave the mapped state alone, *)
(* or change it for one or several rows:                                   *)
Mapped == [r \in Rows |-> Progress(row[r])]
boxVars == <<Mapped, attempts, accepted, expired>>

LEMMA ProgressValues ==
    /\ Progress("none") = "none"
    /\ Progress("PENDING") = "waiting" /\ Progress("PROCESSING") = "waiting"
    /\ Progress("SENT") = "sent" /\ Progress("FAILED") = "failed"
BY DEF Progress

LEMMA ProgressFacts ==
    ASSUME IInv, NEW r \in Rows
    PROVE  /\ Mapped[r] = "none" <=> row[r] = "none"
           /\ Mapped[r] = "waiting" <=> row[r] \in {"PENDING", "PROCESSING"}
           /\ Mapped[r] = "sent" <=> row[r] = "SENT"
           /\ Mapped[r] = "failed" <=> row[r] = "FAILED"
<1>1. row[r] \in {"none", "PENDING", "PROCESSING", "SENT", "FAILED"}
  BY DEF IInv, TypeOK, Statuses
<1> QED BY <1>1 DEF Mapped, Progress

(* A message is queued, gets old, or is claimed with its batch.            *)
LEMMA BoxQueue ==
    ASSUME IInv, NEW q \in Rows, Enqueue(q)
    PROVE  Box!Queue(q)
<1>1. row[q] = "none" /\ row' = [row EXCEPT ![q] = "PENDING"] /\ row \in [Rows -> Statuses]
  BY DEF Enqueue, IInv, TypeOK
<1>2. \A r \in Rows : Mapped'[r] = IF r = q THEN "waiting" ELSE Mapped[r]
  BY <1>1, ProgressValues DEF Mapped
<1>3. Mapped' = [Mapped EXCEPT ![q] = "waiting"]
  BY <1>2 DEF Mapped
<1>4. Mapped[q] = "none"
  BY <1>1, ProgressFacts
<1> QED BY <1>3, <1>4 DEF Box!Queue, Mapped, Enqueue

LEMMA BoxAges ==
    ASSUME IInv, NEW q \in Rows, Expires(q)
    PROVE  Box!Ages(q)
<1>1. row[q] \in {"PENDING", "PROCESSING"} /\ row' = row
  BY DEF Expires
<1>2. Mapped' = Mapped /\ Mapped[q] = "waiting"
  BY <1>1, ProgressFacts DEF Mapped
<1> QED BY <1>2 DEF Box!Ages, Box!Waiting, Mapped, Expires

LEMMA BoxClaim ==
    ASSUME IInv, NEW w \in Workers, ClaimBatch(w)
    PROVE  \E S \in SUBSET Rows : Box!Claim(S)
<1>1. PICK S \in SUBSET Rows :
         /\ \A r \in S : row[r] = "PENDING"
         /\ row' = [r \in Rows |-> IF r \in S THEN "PROCESSING" ELSE row[r]]
         /\ attempts' = CountedOn(S)
  BY DEF ClaimBatch, InStatus
<1>2. UNCHANGED <<accepted, expired>>
  BY DEF ClaimBatch
<1>3. \A r \in Rows : Progress(row'[r]) = Progress(row[r])
  BY <1>1 DEF Progress
<1>4. Mapped' = Mapped
  BY <1>3 DEF Mapped
<1>5. \A r \in S : Mapped[r] = "waiting"
  BY <1>1, ProgressFacts
<1>6. \A r \in S \ Outlasted : ~(attempts[r] >= MaxAttempts)
  BY <1>1 DEF IInv, ShortPasses, TypeOK
<1>7. Box!Claim(S)
  BY <1>1, <1>2, <1>4, <1>5, <1>6 DEF Box!Claim, Box!Waiting, Box!Spent, CountedOn, Mapped
<1> QED BY <1>7

(* The end of a call delivers one copy, or none; the sent row is the one   *)
(* the worker holds, so the claim it uses is one not used before.          *)
LEMMA BoxSend ==
    ASSUME IInv, IInv', NEW w \in Workers, Send(w)
    PROVE  (\E r \in Rows : Box!Deliver(r)) \/ UNCHANGED boxVars
<1>1. PICK r \in Rows : r = current[w]
  BY DEF Send, IInv, DeliversOwnRow, TypeOK
<1>2. UNCHANGED <<row, attempts, expired>> /\ Mapped' = Mapped
  BY DEF Send, Mapped
<1>3. CASE accepted' = accepted
  BY <1>2, <1>3 DEF boxVars
<1>4. CASE accepted' = [accepted EXCEPT ![r] = @ + 1]
  <2>1. accepted'[r] <= attempts'[r]
    <3>1. Cardinality(Unsent(r))' \in Nat
      <4>1. Unsent(r)' \subseteq Workers
        BY DEF Unsent
      <4> QED BY <4>1, FS_Subset, FS_CardinalityType
    <3>2. accepted'[r] + Cardinality(Unsent(r))' <= attempts'[r]
          /\ accepted'[r] \in Nat /\ attempts'[r] \in Nat
      BY <1>1 DEF IInv, AttemptsCover, TypeOK
    <3> QED BY <3>1, <3>2
  <2>2. accepted[r] < attempts[r]
    BY <1>1, <1>2, <1>4, <2>1 DEF IInv, TypeOK
  <2> QED BY <1>1, <1>2, <1>4, <2>2 DEF Box!Deliver, Mapped
<1>5. accepted' = accepted \/ accepted' = [accepted EXCEPT ![r] = @ + 1]
  <2>1. PICK ok \in BOOLEAN : accepted' = [accepted EXCEPT ![r] = @ + IF ok THEN 1 ELSE 0]
    BY <1>1 DEF Send
  <2>2. accepted \in [Rows -> Nat]
    BY DEF IInv, TypeOK
  <2>3. CASE ok
    BY <2>1, <2>3
  <2>4. CASE ~ok
    BY <1>1, <2>1, <2>2, <2>4
  <2> QED BY <2>3, <2>4
<1> QED BY <1>3, <1>4, <1>5

(* Marking a row is nothing to the outbox when the row was closed or       *)
(* released meanwhile, or only released now.                               *)
LEMMA BoxMark ==
    ASSUME IInv, NEW q \in Rows, NEW st \in {"SENT", "PENDING", "FAILED"}, Mark(q, st),
           UNCHANGED accepted,
           st = "SENT" => accepted[q] > 0,
           st = "FAILED" => q \in expired \/ attempts[q] >= MaxAttempts
    PROVE  Box!Confirm(q) \/ Box!GiveUp({q}) \/ UNCHANGED boxVars
<1>1. row \in [Rows -> Statuses] /\ UNCHANGED <<attempts, expired>>
  BY DEF IInv, TypeOK, Mark
<1>2. row' = [row EXCEPT ![q] = IF @ = "PROCESSING" THEN st ELSE @]
  BY DEF Mark
<1>3. CASE row[q] # "PROCESSING" \/ st = "PENDING"
  <2>1. \A r \in Rows : Progress(row'[r]) = Progress(row[r])
    BY <1>1, <1>2, <1>3 DEF Progress
  <2> QED BY <1>1, <2>1 DEF boxVars, Mapped
<1>4. CASE row[q] = "PROCESSING" /\ st = "SENT"
  <2>1. \A r \in Rows : Mapped'[r] = IF r = q THEN "sent" ELSE Mapped[r]
    BY <1>1, <1>2, <1>4, ProgressValues DEF Mapped
  <2>2. Mapped' = [Mapped EXCEPT ![q] = "sent"]
    BY <2>1 DEF Mapped
  <2>3. Mapped[q] = "waiting"
    BY <1>4, ProgressFacts
  <2> QED BY <1>1, <1>4, <2>2, <2>3 DEF Box!Confirm, Box!Waiting, Mapped
<1>5. CASE row[q] = "PROCESSING" /\ st = "FAILED"
  <2>1. \A r \in Rows : Mapped'[r] = IF r = q THEN "failed" ELSE Mapped[r]
    BY <1>1, <1>2, <1>5, ProgressValues DEF Mapped
  <2>2. Mapped' = [r \in Rows |-> IF r \in {q} THEN "failed" ELSE Mapped[r]]
    BY <2>1 DEF Mapped
  <2>3. Mapped[q] = "waiting"
    BY <1>5, ProgressFacts
  <2> QED BY <1>1, <1>5, <2>2, <2>3 DEF Box!GiveUp, Box!Waiting, Box!Spent, Mapped
<1> QED BY <1>3, <1>4, <1>5

(* Recovery gives up the stale rows whose attempts are spent.              *)
LEMMA BoxRecover ==
    ASSUME IInv, NEW w \in Workers, RecoverStale(w)
    PROVE  \E S \in SUBSET Rows : Box!GiveUp(S)
<1> DEFINE S == {r \in stale : attempts[r] >= MaxAttempts}
<1>1. row \in [Rows -> Statuses] /\ stale \subseteq Rows /\ UNCHANGED <<attempts, expired, accepted>>
  BY DEF IInv, TypeOK, RecoverStale
<1>2. \A r \in stale : row[r] = "PROCESSING" /\ Mapped[r] = "waiting"
  BY <1>1, ProgressFacts DEF IInv, LocksOnly
<1>3. row' = [r \in Rows |-> IF r \notin stale THEN row[r]
                             ELSE IF attempts[r] >= MaxAttempts THEN "FAILED" ELSE "PENDING"]
  BY DEF RecoverStale
<1>4. \A r \in Rows : Progress(row'[r]) = IF r \in S THEN "failed" ELSE Progress(row[r])
  BY <1>1, <1>2, <1>3, ProgressValues
<1>5. Mapped' = [r \in Rows |-> IF r \in S THEN "failed" ELSE Mapped[r]]
  BY <1>4 DEF Mapped
<1>6. S \in SUBSET Rows /\ Box!GiveUp(S)
  BY <1>1, <1>2, <1>5 DEF Box!GiveUp, Box!Waiting, Box!Spent, Mapped
<1> QED BY <1>6

(* Every step of the queue is a step of the outbox or none.                *)
LEMMA BoxStep ==
    ASSUME IInv, IInv', [Next]_vars
    PROVE  Box!Next \/ UNCHANGED boxVars
<1>1. ASSUME NEW q \in Rows, Enqueue(q) \/ BecomesDue(q) \/ Expires(q) \/ LockAges(q)
      PROVE  Box!Next \/ UNCHANGED boxVars
  <2>1. CASE Enqueue(q) \/ Expires(q)
    BY <2>1, BoxQueue, BoxAges DEF Box!Next
  <2>2. CASE BecomesDue(q) \/ LockAges(q)
    BY <2>2 DEF BecomesDue, LockAges, boxVars, Mapped
  <2> QED BY <1>1, <2>1, <2>2
<1>2. ASSUME NEW w \in Workers, RecoverStale(w) \/ ClaimBatch(w) \/ Send(w)
      PROVE  Box!Next \/ UNCHANGED boxVars
  BY <1>2, BoxRecover, BoxClaim, BoxSend DEF Box!Next
<1>3. ASSUME NEW w \in Workers, NEW q \in Rows, DropExpired(w, q)
      PROVE  Box!Next \/ UNCHANGED boxVars
  <2>1. Mark(q, "FAILED") /\ UNCHANGED accepted /\ q \in expired
    BY <1>3 DEF DropExpired
  <2>2. Box!Confirm(q) \/ Box!GiveUp({q}) \/ UNCHANGED boxVars
    BY <2>1, BoxMark
  <2> QED BY <2>2 DEF Box!Next
<1>4. ASSUME NEW w \in Workers, Abort(w) \/ \E q \in Rows : StartSend(w, q)
      PROVE  UNCHANGED boxVars
  BY <1>4 DEF Abort, StartSend, boxVars, Mapped
<1>5. ASSUME NEW w \in Workers, MarkSent(w)
      PROVE  Box!Next \/ UNCHANGED boxVars
  <2>1. current[w] \in Rows /\ accepted[current[w]] > 0 /\ UNCHANGED accepted
    BY <1>5 DEF MarkSent, IInv, DeliversOwnRow, ReportsAreTrue, TypeOK
  <2>2. CASE Mark(current[w], "SENT")
    <3>1. Box!Confirm(current[w]) \/ Box!GiveUp({current[w]}) \/ UNCHANGED boxVars
      BY <2>1, <2>2, BoxMark
    <3> QED BY <2>1, <3>1 DEF Box!Next
  <2>3. CASE UNCHANGED <<rowVars, clockVars, batch, current, tries>>
    BY <2>1, <2>3 DEF boxVars, Mapped
  <2> QED BY <1>5, <2>2, <2>3 DEF MarkSent
<1>6. ASSUME NEW w \in Workers, MarkError(w)
      PROVE  Box!Next \/ UNCHANGED boxVars
  <2> DEFINE q == current[w]
             st == IF tries[w][q] >= MaxAttempts THEN "FAILED" ELSE "PENDING"
  <2>1. q \in Rows /\ tries[w][q] <= attempts[q] /\ tries[w][q] \in Nat /\ attempts[q] \in Nat
    BY <1>6 DEF MarkError, IInv, DeliversOwnRow, TriesAreOld, TypeOK
  <2>2. Mark(q, st) /\ UNCHANGED accepted /\ st \in {"FAILED", "PENDING"}
    BY <1>6 DEF MarkError
  <2>3. st = "FAILED" => attempts[q] >= MaxAttempts
    BY <2>1
  <2> HIDE DEF st, q
  <2>4. Box!Confirm(q) \/ Box!GiveUp({q}) \/ UNCHANGED boxVars
    BY <2>1, <2>2, <2>3, BoxMark
  <2> QED BY <2>1, <2>4 DEF Box!Next
<1>7. CASE UNCHANGED vars
  BY <1>7 DEF vars, boxVars, Mapped
<1> QED BY <1>1, <1>2, <1>3, <1>4, <1>5, <1>6, <1>7 DEF Next, Pass

(* The queue with its workers, locks, clocks and deaths implements the     *)
(* outbox (claimBatch, markSent, markRetry, markFailed, recoverStale).     *)
THEOREM Refinement == Spec => ImplementsOutbox
<1>1. Init => Box!Init
  BY DEF Init, Box!Init, Progress
<1>2. IInv /\ IInv' /\ [Next]_vars => [Box!Next]_(Box!vars)
  BY BoxStep DEF boxVars, Mapped, Box!vars
<1> QED BY <1>1, <1>2, Invariance, PTL DEF Spec, ImplementsOutbox, Box!Spec

(* However the workers overlap or die, a message whose passes are short     *)
(* reaches its recipient at most max_attempts times (recoverStale,         *)
(* claimBatch).                                                            *)
THEOREM BoundedCopies == Spec => [](\A r \in Rows \ Outlasted : accepted[r] <= MaxAttempts)
<1>1. IInv /\ SendsPerAttempt => \A r \in Rows \ Outlasted : accepted[r] <= MaxAttempts
  BY DEF IInv, TypeOK, SendsPerAttempt, AttemptsBounded
<1> QED BY <1>1, Invariance, OneSendPerAttempt, PTL

(* OnlyOwnerMarks, which slow passes break, is what the code promises when *)
(* no pass outlasts its locks: only the worker whose claim locked a row    *)
(* closes or releases it (sms-queue.repository.ts markSent, markRetry,     *)
(* markFailed).                                                            *)
THEOREM OwnersMark == Outlasted = {} => (Spec => OnlyOwnerMarks)
<1> SUFFICES ASSUME Outlasted = {} PROVE Spec => OnlyOwnerMarks
    OBVIOUS
<1>1. IInv /\ [Next]_vars
        => [\A w \in Workers : \A r \in batch[w] \ batch'[w] :
               row[r] = "PROCESSING" /\ row'[r] # "PROCESSING" => owner[r] = w]_vars
  BY DEF IInv, HeldByOwner
<1> QED BY <1>1, Invariance, PTL DEF Spec, OnlyOwnerMarks
=============================================================================
