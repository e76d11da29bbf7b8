-------------------------- MODULE ConnectorSyncProofs -------------------------
(***************************************************************************)
(* ConnectorSync is safe for every set of events, every batch size, with   *)
(* and without disk faults: one inductive invariant, IInv, from which the  *)
(* safety properties and the refinement of PunchDelivery follow.           *)
(***************************************************************************)
EXTENDS ConnectorSync, ConnectorQueueLemmas

(* The named parts of the invariant that speak of the state alone. *)
USE DEF queueVars, fetchVars, requestVars, loopVars, deviceVars, cloudVars

LEMMA InitIInv == Init => IInv
<1> SUFFICES ASSUME Init PROVE IInv
    OBVIOUS
<1> USE EmptyFacts DEF Init, QueueInit, NoResults
<1>1. TypeOK
  BY DEF TypeOK, QueueTypeOK, Results
<1>2. ConfirmedIsStored /\ FailedIsRefused
  BY DEF ConfirmedIsStored, FailedIsRefused, States
<1>3. NoPunchLost /\ AnswersAreStored /\ ClearingIsSafe
  BY DEF NoPunchLost, AnswersAreStored, ClearingIsSafe
<1>4. ForgottenIsStored /\ OnlyPunched
  BY DEF ForgottenIsStored, OnlyPunched
<1> QED BY <1>1, <1>2, <1>3, <1>4 DEF IInv

---------------------------------------------------------------------------
(* What the queue operations do to both copies, whether or not they throw. *)

LEMMA EnqueueFacts ==
    ASSUME QueueTypeOK, NEW S \in SUBSET Ids, NEW ok, Enqueue(S, ok)
    PROVE  /\ mem' \in Image /\ disk' \in Image /\ up' = up
           /\ Queued(mem') = Queued(mem) \cup NewOf(S)
           /\ Queued(disk) \subseteq Queued(disk')
           /\ Queued(disk') \subseteq Queued(disk) \cup NewOf(S)
           /\ NewOf(S) \subseteq S
           /\ mem'.dedupe = mem.dedupe /\ disk'.dedupe = disk.dedupe
           /\ \A st \in {"syncing", "synced", "failed"} :
                 /\ InState(mem', st) \subseteq InState(mem, st)
                 /\ InState(disk', st) \subseteq InState(disk, st)
<1> DEFINE new == NewOf(S)
<1>1. new \in SUBSET Ids /\ new \subseteq S
  BY DEF NewOf
<1>2. mem \in Image /\ disk \in Image
  BY DEF QueueTypeOK
<1>3. mem' = Put(mem, new) /\ disk' \in {disk, Put(disk, new)} /\ up' = up
  BY DEF Enqueue, Written
<1> HIDE DEF new
<1>4. /\ mem' \in Image /\ disk' \in Image
      /\ Queued(mem') = Queued(mem) \cup new
      /\ Queued(disk) \subseteq Queued(disk')
      /\ Queued(disk') \subseteq Queued(disk) \cup new
      /\ mem'.dedupe = mem.dedupe /\ disk'.dedupe = disk.dedupe
      /\ \A st \in {"syncing", "synced", "failed"} :
            /\ InState(mem', st) \subseteq InState(mem, st)
            /\ InState(disk', st) \subseteq InState(disk, st)
  BY <1>1, <1>2, <1>3, PutFacts
<1> QED BY <1>1, <1>3, <1>4 DEF new

LEMMA SetStateFacts ==
    ASSUME QueueTypeOK, NEW S \in SUBSET Ids, NEW st \in States, NEW ok, SetState(S, st, ok)
    PROVE  /\ mem' \in Image /\ disk' \in Image /\ up' = up
           /\ Queued(mem') = Queued(mem) /\ Queued(disk') = Queued(disk)
           /\ mem'.dedupe = mem.dedupe /\ disk'.dedupe = disk.dedupe
           /\ \A other \in States \ {st} :
                 /\ InState(mem', other) \subseteq InState(mem, other)
                 /\ InState(disk', other) \subseteq InState(disk, other)
<1> DEFINE known == S \cap Queued(mem)
<1>1. known \in SUBSET Ids /\ mem \in Image /\ disk \in Image
  BY DEF QueueTypeOK
<1>2. mem' = SetTo(mem, S, st) /\ up' = up /\ disk' \in {disk, SetTo(disk, known, st)}
  BY DEF SetState, Written
<1> HIDE DEF known
<1>3. /\ mem' \in Image
      /\ Queued(mem') = Queued(mem)
      /\ mem'.dedupe = mem.dedupe
      /\ \A other \in States \ {st} : InState(mem', other) \subseteq InState(mem, other)
  BY <1>1, <1>2, SetToFacts
<1>4. /\ disk' \in Image
      /\ Queued(disk') = Queued(disk)
      /\ disk'.dedupe = disk.dedupe
      /\ \A other \in States \ {st} : InState(disk', other) \subseteq InState(disk, other)
  <2>1. CASE disk' = disk
    BY <2>1, <1>1
  <2>2. CASE disk' = SetTo(disk, known, st)
    BY <2>2, <1>1, SetToFacts
  <2> QED BY <1>2, <2>1, <2>2
<1> QED BY <1>2, <1>3, <1>4

LEMMA PruneFacts ==
    ASSUME QueueTypeOK, NEW S \in SUBSET Ids, NEW F \in SUBSET Ids, NEW end, Prune(S, F, end)
    PROVE  /\ mem' \in Image /\ disk' \in Image /\ up' = up
           /\ S \subseteq InState(mem, "synced")
           /\ Queued(mem') = Queued(mem) \ S
           /\ Queued(disk') \subseteq Queued(disk) \cup Queued(mem)
           /\ Queued(disk) \ Queued(disk') \subseteq S \cup (Queued(disk) \ Queued(mem))
           /\ Queued(disk') \ Queued(mem') \subseteq S \cup (Queued(disk) \ Queued(mem))
           /\ mem'.dedupe \subseteq mem.dedupe \cup S
           /\ disk'.dedupe \subseteq disk.dedupe \cup mem.dedupe \cup S
           /\ \A st \in States :
                 /\ InState(mem', st) \subseteq InState(mem, st)
                 /\ InState(disk', st) \subseteq InState(disk, st) \cup InState(mem, st)
<1> DEFINE gone == Pruned(mem, S)
           rest == Forgotten(gone, F)
           log == Pruned(disk, S)
<1>1. mem \in Image /\ disk \in Image
  BY DEF QueueTypeOK
<1>2. /\ gone \in Image
      /\ Queued(gone) = Queued(mem) \ S
      /\ gone.dedupe = mem.dedupe \cup S
      /\ \A st \in States : InState(gone, st) = InState(mem, st) \ S
  BY <1>1, PrunedFacts
<1>3. /\ log \in Image
      /\ Queued(log) = Queued(disk) \ S
      /\ log.dedupe = disk.dedupe \cup S
      /\ \A st \in States : InState(log, st) = InState(disk, st) \ S
  BY <1>1, PrunedFacts
<1>4. /\ S \subseteq InState(mem, "synced")
      /\ up' = up
      /\ \/ mem' = gone /\ disk' = disk
         \/ mem' = rest /\ disk' = rest
         \/ mem' = rest /\ disk' = log
  BY DEF Prune
<1> HIDE DEF gone, log
<1>5. /\ rest \in Image
      /\ Queued(rest) = Queued(gone)
      /\ rest.dedupe = gone.dedupe \ F
      /\ \A st \in States : InState(rest, st) = InState(gone, st)
  BY <1>2, ForgottenFacts
<1> HIDE DEF rest
<1>6. CASE mem' = gone /\ disk' = disk
  BY <1>1, <1>2, <1>4, <1>6
<1>7. CASE mem' = rest /\ disk' = rest
  BY <1>2, <1>4, <1>5, <1>7
<1>8. CASE mem' = rest /\ disk' = log
  BY <1>2, <1>3, <1>4, <1>5, <1>8
<1> QED BY <1>4, <1>6, <1>7, <1>8

(* Marking the answers of a request: the refused ones failed, the others   *)
(* synced, as far as the writes go.                                        *)
LEMMA MarkedFacts ==
    ASSUME NEW img \in Image, NEW R \in SUBSET Ids, NEW C \in SUBSET Ids
    PROVE  LET marked == SetTo(SetTo(img, R, "failed"), C, "synced")
           IN /\ marked \in Image
              /\ Queued(marked) = Queued(img)
              /\ marked.dedupe = img.dedupe
              /\ InState(marked, "failed") \subseteq InState(img, "failed") \cup R
              /\ InState(marked, "synced") \subseteq InState(img, "synced") \cup C
<1> DEFINE refused == SetTo(img, R, "failed")
           marked == SetTo(refused, C, "synced")
<1>1. /\ refused \in Image
      /\ Queued(refused) = Queued(img)
      /\ refused.dedupe = img.dedupe
      /\ InState(refused, "failed") \subseteq InState(img, "failed") \cup R
      /\ InState(refused, "synced") \subseteq InState(img, "synced")
  BY SetToFacts DEF States
<1> HIDE DEF refused
<1>2. /\ marked \in Image
      /\ Queued(marked) = Queued(refused)
      /\ marked.dedupe = refused.dedupe
      /\ InState(marked, "failed") \subseteq InState(refused, "failed")
      /\ InState(marked, "synced") \subseteq InState(refused, "synced") \cup C
  BY <1>1, SetToFacts DEF States
<1> HIDE DEF marked
<1>3. /\ marked \in Image
      /\ Queued(marked) = Queued(img)
      /\ marked.dedupe = img.dedupe
      /\ InState(marked, "failed") \subseteq InState(img, "failed") \cup R
      /\ InState(marked, "synced") \subseteq InState(img, "synced") \cup C
  BY <1>1, <1>2
<1> QED BY <1>3 DEF marked, refused

---------------------------------------------------------------------------
(* Each action preserves the invariant. *)

(* A new punch is on the device.                                           *)
LEMMA PunchStep ==
    ASSUME IInv, NEW i \in Ids, Punch(i)
    PROVE  IInv'
<1> USE DEF IInv, Punch
<1>1. TypeOK'
  BY DEF TypeOK, QueueTypeOK
<1>2. ConfirmedIsStored' /\ FailedIsRefused' /\ AnswersAreStored'
  BY DEF ConfirmedIsStored, FailedIsRefused, AnswersAreStored
<1>3. NoPunchLost' /\ ClearingIsSafe'
  BY DEF NoPunchLost, ClearingIsSafe
<1>4. ForgottenIsStored' /\ OnlyPunched'
  BY DEF ForgottenIsStored, OnlyPunched
<1> QED BY <1>1, <1>2, <1>3, <1>4

(* Start: the log is replayed, what was being sent is pending again.       *)
LEMMA StartStep ==
    ASSUME IInv, Start
    PROVE  IInv'
<1> USE DEF IInv, Start, Open
<1>0. disk \in Image
  BY DEF TypeOK, QueueTypeOK
<1>1. TypeOK'
  BY <1>0, RecoveredFacts DEF TypeOK, QueueTypeOK
<1>2. ConfirmedIsStored' /\ FailedIsRefused' /\ AnswersAreStored'
  BY <1>0, RecoveredFacts, ImageFacts DEF ConfirmedIsStored, FailedIsRefused, AnswersAreStored
<1>3. NoPunchLost' /\ ClearingIsSafe'
  BY <1>0, RecoveredFacts DEF NoPunchLost, ClearingIsSafe
<1>4. ForgottenIsStored' /\ OnlyPunched'
  BY <1>0, RecoveredFacts DEF ForgottenIsStored, OnlyPunched
<1> QED BY <1>1, <1>2, <1>3, <1>4

(* A crash empties the memory; the request on its way may run late.        *)
LEMMA DieStep ==
    ASSUME IInv, Die
    PROVE  IInv'
<1> USE EmptyFacts DEF IInv, Die, Crash, Abandon
<1>1. TypeOK'
  BY DEF TypeOK, QueueTypeOK, NoResults, Results
<1>2. ConfirmedIsStored' /\ FailedIsRefused' /\ AnswersAreStored'
  BY DEF ConfirmedIsStored, FailedIsRefused, AnswersAreStored, States, NoResults
<1>3. NoPunchLost' /\ ClearingIsSafe'
  BY DEF NoPunchLost, ClearingIsSafe
<1>4. ForgottenIsStored' /\ OnlyPunched'
  BY DEF ForgottenIsStored, OnlyPunched
<1> QED BY <1>1, <1>2, <1>3, <1>4

(* retry-failed changes states in the log, never what it holds.            *)
LEMMA RetryFailedStep ==
    ASSUME IInv, RetryFailed
    PROVE  IInv'
<1> USE DEF IInv, RetryFailed
<1> DEFINE rec == Recovered(disk)
           again == SetTo(rec, InState(disk, "failed"), "pending")
<1>a. disk \in Image /\ InState(disk, "failed") \in SUBSET Ids
  BY DEF TypeOK, QueueTypeOK, InState
<1>b. disk' \in {rec, again}
  OBVIOUS
<1>c. rec \in Image /\ "pending" \in States
  BY <1>a, RecoveredFacts DEF States
<1>d. /\ disk' \in Image
      /\ Queued(disk') = Queued(disk)
      /\ disk'.dedupe = disk.dedupe
      /\ \A st \in {"synced", "failed"} : InState(disk', st) \subseteq InState(disk, st)
  <2>1. CASE disk' = rec
    BY <2>1, <1>a, RecoveredFacts
  <2>2. CASE disk' = again
    <3> HIDE DEF rec
    <3>1. /\ again \in Image
          /\ Queued(again) = Queued(rec)
          /\ again.dedupe = rec.dedupe
          /\ \A other \in States \ {"pending"} : InState(again, other) \subseteq InState(rec, other)
      BY <1>a, <1>c, SetToFacts
    <3>2. /\ Queued(rec) = Queued(disk)
          /\ rec.dedupe = disk.dedupe
          /\ \A st \in {"synced", "failed"} : InState(rec, st) \subseteq InState(disk, st)
      BY <1>a, RecoveredFacts DEF rec
    <3> HIDE DEF again
    <3> QED BY <2>2, <3>1, <3>2 DEF States
  <2> QED BY <1>b, <2>1, <2>2
<1> HIDE DEF rec, again
<1>1. TypeOK'
  BY <1>d DEF TypeOK, QueueTypeOK
<1>2. ConfirmedIsStored' /\ FailedIsRefused' /\ AnswersAreStored'
  BY <1>d DEF ConfirmedIsStored, FailedIsRefused, AnswersAreStored
<1>3. NoPunchLost' /\ ClearingIsSafe'
  BY <1>d DEF NoPunchLost, ClearingIsSafe
<1>4. ForgottenIsStored' /\ OnlyPunched'
  BY <1>d DEF ForgottenIsStored, OnlyPunched
<1> QED BY <1>1, <1>2, <1>3, <1>4

(* A read, whole or truncated, changes nothing but what the loop has seen. *)
LEMMA FetchReadStep ==
    ASSUME IInv, NEW S \in SUBSET device, FetchRead(S)
    PROVE  IInv'
<1> USE DEF IInv, FetchRead
<1>1. TypeOK'
  BY DEF TypeOK, QueueTypeOK
<1>2. ConfirmedIsStored' /\ FailedIsRefused' /\ AnswersAreStored'
  BY DEF ConfirmedIsStored, FailedIsRefused, AnswersAreStored
<1>3. NoPunchLost' /\ ClearingIsSafe'
  BY DEF NoPunchLost, ClearingIsSafe
<1>4. ForgottenIsStored' /\ OnlyPunched'
  BY DEF ForgottenIsStored, OnlyPunched
<1> QED BY <1>1, <1>2, <1>3, <1>4

(* The queue before the device: whatever the read returned is queued, and  *)
(* the clear follows only when the cloud has it all.                       *)
LEMMA FetchAfterReadStep ==
    ASSUME IInv, NEW ok \in Outcomes, FetchAfterRead(ok)
    PROVE  IInv'
<1> USE DEF IInv
<1>a. seen \in SUBSET Ids /\ Enqueue(seen, ok) /\ QueueTypeOK
  BY DEF FetchAfterRead, TypeOK
<1>b. fetch' = "clearing" => \A i \in device : cloud[i] # "none"
  <2> SUFFICES ASSUME fetch' = "clearing" PROVE \A i \in device : cloud[i] # "none"
    OBVIOUS
  <2>1. seen = device /\ seen \subseteq Synced(mem)
    BY DEF FetchAfterRead, Clearable, ClearingIsSafe
  <2> QED BY <2>1, <1>a DEF Synced, ConfirmedIsStored
<1>c. UNCHANGED <<seen, requestVars, loopVars, deviceVars, cloudVars>>
      /\ fetch' \in {"idle", "clearing", "read"}
  BY DEF FetchAfterRead
<1>1. TypeOK'
  BY <1>a, <1>c, EnqueueFacts DEF TypeOK, QueueTypeOK
<1>2. ConfirmedIsStored' /\ FailedIsRefused' /\ AnswersAreStored'
  BY <1>a, <1>c, EnqueueFacts DEF ConfirmedIsStored, FailedIsRefused, AnswersAreStored
<1>3. NoPunchLost' /\ ClearingIsSafe'
  BY <1>a, <1>b, <1>c, EnqueueFacts DEF NoPunchLost, ClearingIsSafe
<1>4. ForgottenIsStored' /\ OnlyPunched'
  BY <1>a, <1>c, EnqueueFacts DEF ForgottenIsStored, OnlyPunched
<1> QED BY <1>1, <1>2, <1>3, <1>4

(* The clear discards stored punches only.                                 *)
LEMMA FetchClearStep ==
    ASSUME IInv, FetchClear
    PROVE  IInv'
<1> USE DEF IInv, FetchClear
<1>1. TypeOK'
  BY DEF TypeOK, QueueTypeOK
<1>2. ConfirmedIsStored' /\ FailedIsRefused' /\ AnswersAreStored'
  BY DEF ConfirmedIsStored, FailedIsRefused, AnswersAreStored
<1>3. NoPunchLost' /\ ClearingIsSafe'
  BY DEF NoPunchLost, ClearingIsSafe
<1>4. ForgottenIsStored' /\ OnlyPunched'
  BY DEF ForgottenIsStored, OnlyPunched
<1> QED BY <1>1, <1>2, <1>3, <1>4

LEMMA FetchStoreStep ==
    ASSUME IInv, NEW ok \in Outcomes, FetchStore(ok)
    PROVE  IInv'
<1> USE DEF IInv
<1>a. seen \in SUBSET Ids /\ Enqueue(seen, ok) /\ QueueTypeOK
  BY DEF FetchStore, TypeOK
<1>c. UNCHANGED <<seen, requestVars, loopVars, deviceVars, cloudVars>> /\ fetch' = "idle"
  BY DEF FetchStore
<1>1. TypeOK'
  BY <1>a, <1>c, EnqueueFacts DEF TypeOK, QueueTypeOK
<1>2. ConfirmedIsStored' /\ FailedIsRefused' /\ AnswersAreStored'
  BY <1>a, <1>c, EnqueueFacts DEF ConfirmedIsStored, FailedIsRefused, AnswersAreStored
<1>3. NoPunchLost' /\ ClearingIsSafe'
  BY <1>a, <1>c, EnqueueFacts DEF NoPunchLost, ClearingIsSafe
<1>4. ForgottenIsStored' /\ OnlyPunched'
  BY <1>a, <1>c, EnqueueFacts DEF ForgottenIsStored, OnlyPunched
<1> QED BY <1>1, <1>2, <1>3, <1>4

(* Dying in the middle of an enqueue leaves a part of it in the log.       *)
LEMMA DieInFetchStep ==
    ASSUME IInv, DieInFetch
    PROVE  IInv'
<1> USE DEF IInv
<1>a. PICK T \in SUBSET NewOf(seen) : disk' = Put(disk, T)
  BY DEF DieInFetch, CrashInEnqueue
<1>b. T \in SUBSET Ids /\ T \subseteq seen /\ disk \in Image
  BY <1>a DEF NewOf, TypeOK, QueueTypeOK
<1>c. /\ disk' \in Image
      /\ Queued(disk') = Queued(disk) \cup T
      /\ disk'.dedupe = disk.dedupe
      /\ \A st \in {"synced", "failed"} : InState(disk', st) \subseteq InState(disk, st)
  BY <1>a, <1>b, PutFacts
<1>d. mem' = Empty /\ up' = FALSE /\ Abandon
  BY DEF DieInFetch, CrashInEnqueue
<1> USE EmptyFacts DEF Abandon, NoResults, Results, States
<1>1. TypeOK'
  BY <1>b, <1>c, <1>d DEF TypeOK, QueueTypeOK
<1>2. ConfirmedIsStored' /\ FailedIsRefused' /\ AnswersAreStored'
  BY <1>b, <1>c, <1>d DEF ConfirmedIsStored, FailedIsRefused, AnswersAreStored
<1>3. NoPunchLost' /\ ClearingIsSafe'
  BY <1>b, <1>c, <1>d DEF NoPunchLost, ClearingIsSafe
<1>4. ForgottenIsStored' /\ OnlyPunched'
  BY <1>b, <1>c, <1>d DEF ForgottenIsStored, OnlyPunched
<1> QED BY <1>1, <1>2, <1>3, <1>4

(* Pruning and compaction drop confirmed entries only.                     *)
LEMMA FetchPruneStep ==
    ASSUME IInv, FetchPrune
    PROVE  IInv'
<1> USE DEF IInv
<1>a. PICK S \in SUBSET Ids, F \in SUBSET Ids, end \in PruneEnds : Prune(S, F, end)
  BY DEF FetchPrune
<1>b. UNCHANGED <<fetchVars, requestVars, loopVars, deviceVars, cloudVars>>
  BY DEF FetchPrune
<1>c. QueueTypeOK
  BY DEF TypeOK
<1>d. \A i \in S : cloud[i] # "none"
  BY <1>a, <1>c, PruneFacts DEF ConfirmedIsStored
<1> USE <1>a, <1>b, <1>c, <1>d, PruneFacts DEF States
<1>1. TypeOK'
  BY DEF TypeOK, QueueTypeOK
<1>2. ConfirmedIsStored' /\ AnswersAreStored'
  BY DEF ConfirmedIsStored, AnswersAreStored
<1>3. FailedIsRefused'
  BY DEF FailedIsRefused
<1>4. up => \A i \in Queued(disk) \ Queued(disk') : cloud[i] # "none"
  BY DEF ForgottenIsStored
<1>5. up
  BY DEF FetchPrune
<1>6. NoPunchLost' /\ ClearingIsSafe'
  BY <1>4, <1>5 DEF NoPunchLost, ClearingIsSafe
<1>7. ForgottenIsStored' /\ OnlyPunched'
  BY DEF ForgottenIsStored, OnlyPunched
<1> QED BY <1>1, <1>2, <1>3, <1>6, <1>7

---------------------------------------------------------------------------
(* The oldest of a set are some of it.                                     *)
LEMMA OldestFacts ==
    ASSUME NEW S, NEW n
    PROVE  Oldest(S, n) \subseteq S
BY DEF Oldest

(* A request carries queued entries.                                       *)
LEMMA SyncSendStep ==
    ASSUME IInv, NEW ok \in Outcomes, SyncSend(ok)
    PROVE  IInv'
<1> USE DEF IInv
<1> DEFINE pending == InState(mem, "pending")
           B == Oldest(pending, IF isolate THEN 1 ELSE BatchSize)
<1>a. /\ SetState(B, "syncing", ok)
      /\ UNCHANGED <<fetchVars, res, loopVars, deviceVars, cloudVars>>
      /\ \/ sync' = "waiting" /\ batch' = B /\ todo' = B
         \/ UNCHANGED <<sync, batch, todo>>
  BY DEF SyncSend
<1>b. B \subseteq pending
  BY OldestFacts
<1> HIDE DEF B
<1>c. B \in SUBSET Ids /\ B \subseteq Queued(mem) /\ QueueTypeOK /\ "syncing" \in States
  BY <1>b, ImageFacts DEF TypeOK, QueueTypeOK, States
<1>d. /\ mem' \in Image /\ disk' \in Image /\ up' = up
      /\ Queued(mem') = Queued(mem) /\ Queued(disk') = Queued(disk)
      /\ mem'.dedupe = mem.dedupe /\ disk'.dedupe = disk.dedupe
      /\ \A st \in {"synced", "failed"} :
            /\ InState(mem', st) \subseteq InState(mem, st)
            /\ InState(disk', st) \subseteq InState(disk, st)
  BY <1>a, <1>c, SetStateFacts DEF States
<1>1. TypeOK'
  BY <1>a, <1>c, <1>d DEF TypeOK, QueueTypeOK
<1>2. ConfirmedIsStored' /\ FailedIsRefused' /\ AnswersAreStored'
  BY <1>a, <1>c, <1>d DEF ConfirmedIsStored, FailedIsRefused, AnswersAreStored
<1>3. NoPunchLost' /\ ClearingIsSafe'
  BY <1>a, <1>c, <1>d DEF NoPunchLost, ClearingIsSafe
<1>4. ForgottenIsStored' /\ OnlyPunched'
  BY <1>a, <1>c, <1>d DEF ForgottenIsStored, OnlyPunched
<1> QED BY <1>1, <1>2, <1>3, <1>4

(* Every answer in hand is backed by a row, so what it marks is right,     *)
(* however many of its writes succeed.                                     *)
LEMMA SyncAnsweredStep ==
    ASSUME IInv, SyncAnswered
    PROVE  IInv'
<1> USE DEF IInv
<1> DEFINE R == Rejected
           C == Confirmed
<1>a. /\ UNCHANGED <<up, fetchVars, authBlocked, deviceVars, cloudVars>>
      /\ sync' = "idle" /\ batch' = {} /\ todo' = {} /\ res' = NoResults
  BY DEF SyncAnswered, EndRequest
<1>b. /\ R \in SUBSET Ids /\ C \in SUBSET Ids
      /\ \A i \in R : cloud[i] = "rejected"
      /\ \A i \in C : cloud[i] # "none"
      /\ mem \in Image /\ disk \in Image
      /\ isolate \in BOOLEAN /\ singles \in Nat
  BY DEF Rejected, Confirmed, AnswersAreStored, TypeOK, QueueTypeOK
<1>c. isolate' \in BOOLEAN /\ singles' \in Nat
  <2> DEFINE back == isolate /\ singles + 1 >= IsolateRuns
  <2>1. CASE /\ isolate' = (isolate /\ ~back)
             /\ singles' = IF back THEN 0 ELSE IF isolate THEN singles + 1 ELSE singles
    <3>1. isolate' \in BOOLEAN
      BY <2>1
    <3>2. singles' \in Nat
      BY <2>1, <1>b
    <3> QED BY <3>1, <3>2
  <2>2. CASE UNCHANGED <<isolate, singles>>
    BY <2>2, <1>b
  <2> QED BY <2>1, <2>2 DEF SyncAnswered, MarkAnswered
<1>d. \/ /\ mem' = SetTo(SetTo(mem, R, "failed"), C, "synced")
         /\ disk' = SetTo(SetTo(disk, R, "failed"), C, "synced")
      \/ \E r \in R : /\ mem' = SetTo(mem, {x \in R : x <= r}, "failed")
                      /\ disk' = SetTo(disk, {x \in R : x < r}, "failed")
      \/ /\ mem' = SetTo(SetTo(mem, R, "failed"), C, "synced")
         /\ disk' = SetTo(disk, R, "failed")
  BY DEF SyncAnswered, MarkAnswered
<1> HIDE DEF R, C
<1> DEFINE Marked(old, new) ==
             /\ new \in Image
             /\ Queued(new) = Queued(old)
             /\ new.dedupe = old.dedupe
             /\ InState(new, "failed") \subseteq InState(old, "failed") \cup R
             /\ InState(new, "synced") \subseteq InState(old, "synced") \cup C
<1>e. \A img \in Image : Marked(img, SetTo(SetTo(img, R, "failed"), C, "synced"))
  BY <1>b, MarkedFacts
<1>f. \A img \in Image, Q \in SUBSET R : Marked(img, SetTo(img, Q, "failed"))
  <2> SUFFICES ASSUME NEW img \in Image, NEW Q \in SUBSET R
               PROVE  Marked(img, SetTo(img, Q, "failed"))
    OBVIOUS
  <2>1. Q \in SUBSET Ids
    BY <1>b
  <2> QED BY <2>1, SetToFacts DEF States
<1>g. Marked(mem, mem') /\ Marked(disk, disk')
  <2> HIDE DEF Marked
  <2>1. \A r \in R : {x \in R : x <= r} \in SUBSET R /\ {x \in R : x < r} \in SUBSET R
    OBVIOUS
  <2> QED BY <1>b, <1>d, <1>e, <1>f, <2>1
<1> USE DEF NoResults, Results
<1>1. TypeOK'
  BY <1>a, <1>b, <1>c, <1>g DEF TypeOK, QueueTypeOK
<1>2. ConfirmedIsStored' /\ FailedIsRefused' /\ AnswersAreStored'
  BY <1>a, <1>b, <1>c, <1>g DEF ConfirmedIsStored, FailedIsRefused, AnswersAreStored
<1>3. NoPunchLost' /\ ClearingIsSafe'
  BY <1>a, <1>b, <1>c, <1>g DEF NoPunchLost, ClearingIsSafe
<1>4. ForgottenIsStored' /\ OnlyPunched'
  BY <1>a, <1>b, <1>c, <1>g DEF ForgottenIsStored, OnlyPunched
<1> QED BY <1>1, <1>2, <1>3, <1>4

(* A lost answer releases the batch and may leave a late request.          *)
LEMMA SyncUnreachableStep ==
    ASSUME IInv, NEW ok \in Outcomes, SyncUnreachable(ok)
    PROVE  IInv'
<1> USE DEF IInv
<1>a. /\ SetState(batch, "pending", ok)
      /\ UNCHANGED <<fetchVars, loopVars, deviceVars, cloud>>
      /\ sync' = "idle" /\ batch' = {} /\ todo' = {} /\ res' = NoResults
      /\ late' \in {late, late \cup todo}
  BY DEF SyncUnreachable, EndRequest
<1>c. batch \in SUBSET Ids /\ QueueTypeOK /\ "pending" \in States
  BY DEF TypeOK, States
<1>d. /\ mem' \in Image /\ disk' \in Image /\ up' = up
      /\ Queued(mem') = Queued(mem) /\ Queued(disk') = Queued(disk)
      /\ mem'.dedupe = mem.dedupe /\ disk'.dedupe = disk.dedupe
      /\ \A st \in {"synced", "failed"} :
            /\ InState(mem', st) \subseteq InState(mem, st)
            /\ InState(disk', st) \subseteq InState(disk, st)
  BY <1>a, <1>c, SetStateFacts DEF States
<1> USE DEF NoResults, Results
<1>1. TypeOK'
  BY <1>a, <1>c, <1>d DEF TypeOK, QueueTypeOK
<1>2. ConfirmedIsStored' /\ FailedIsRefused' /\ AnswersAreStored'
  BY <1>a, <1>c, <1>d DEF ConfirmedIsStored, FailedIsRefused, AnswersAreStored
<1>3. NoPunchLost' /\ ClearingIsSafe'
  BY <1>a, <1>c, <1>d DEF NoPunchLost, ClearingIsSafe
<1>4. ForgottenIsStored' /\ OnlyPunched'
  BY <1>a, <1>c, <1>d DEF ForgottenIsStored, OnlyPunched
<1> QED BY <1>1, <1>2, <1>3, <1>4

(* A refused key releases the batch.                                       *)
LEMMA SyncAuthRefusedStep ==
    ASSUME IInv, NEW ok \in Outcomes, SyncAuthRefused(ok)
    PROVE  IInv'
<1> USE DEF IInv
<1>a. /\ SetState(batch, "pending", ok)
      /\ UNCHANGED <<fetchVars, isolate, singles, deviceVars, cloudVars>>
      /\ sync' = "idle" /\ batch' = {} /\ todo' = {} /\ res' = NoResults
      /\ authBlocked' \in BOOLEAN
  BY DEF SyncAuthRefused, EndRequest, TypeOK, Outcomes
<1>c. batch \in SUBSET Ids /\ QueueTypeOK /\ "pending" \in States
  BY DEF TypeOK, States
<1>d. /\ mem' \in Image /\ disk' \in Image /\ up' = up
      /\ Queued(mem') = Queued(mem) /\ Queued(disk') = Queued(disk)
      /\ mem'.dedupe = mem.dedupe /\ disk'.dedupe = disk.dedupe
      /\ \A st \in {"synced", "failed"} :
            /\ InState(mem', st) \subseteq InState(mem, st)
            /\ InState(disk', st) \subseteq InState(disk, st)
  BY <1>a, <1>c, SetStateFacts DEF States
<1> USE DEF NoResults, Results
<1>1. TypeOK'
  BY <1>a, <1>c, <1>d DEF TypeOK, QueueTypeOK
<1>2. ConfirmedIsStored' /\ FailedIsRefused' /\ AnswersAreStored'
  BY <1>a, <1>c, <1>d DEF ConfirmedIsStored, FailedIsRefused, AnswersAreStored
<1>3. NoPunchLost' /\ ClearingIsSafe'
  BY <1>a, <1>c, <1>d DEF NoPunchLost, ClearingIsSafe
<1>4. ForgottenIsStored' /\ OnlyPunched'
  BY <1>a, <1>c, <1>d DEF ForgottenIsStored, OnlyPunched
<1> QED BY <1>1, <1>2, <1>3, <1>4

(* A refused batch is released and sent one by one.                        *)
LEMMA SyncRefusedBatchStep ==
    ASSUME IInv, NEW ok \in Outcomes, SyncRefusedBatch(ok)
    PROVE  IInv'
<1> USE DEF IInv
<1>a. /\ SetState(batch, "pending", ok)
      /\ UNCHANGED <<fetchVars, authBlocked, deviceVars, cloudVars>>
      /\ sync' = "idle" /\ batch' = {} /\ todo' = {} /\ res' = NoResults
      /\ isolate' \in BOOLEAN /\ singles' \in Nat
  BY DEF SyncRefusedBatch, EndRequest, TypeOK, Outcomes
<1>c. batch \in SUBSET Ids /\ QueueTypeOK /\ "pending" \in States
  BY DEF TypeOK, States
<1>d. /\ mem' \in Image /\ disk' \in Image /\ up' = up
      /\ Queued(mem') = Queued(mem) /\ Queued(disk') = Queued(disk)
      /\ mem'.dedupe = mem.dedupe /\ disk'.dedupe = disk.dedupe
      /\ \A st \in {"synced", "failed"} :
            /\ InState(mem', st) \subseteq InState(mem, st)
            /\ InState(disk', st) \subseteq InState(disk, st)
  BY <1>a, <1>c, SetStateFacts DEF States
<1> USE DEF NoResults, Results
<1>1. TypeOK'
  BY <1>a, <1>c, <1>d DEF TypeOK, QueueTypeOK
<1>2. ConfirmedIsStored' /\ FailedIsRefused' /\ AnswersAreStored'
  BY <1>a, <1>c, <1>d DEF ConfirmedIsStored, FailedIsRefused, AnswersAreStored
<1>3. NoPunchLost' /\ ClearingIsSafe'
  BY <1>a, <1>c, <1>d DEF NoPunchLost, ClearingIsSafe
<1>4. ForgottenIsStored' /\ OnlyPunched'
  BY <1>a, <1>c, <1>d DEF ForgottenIsStored, OnlyPunched
<1> QED BY <1>1, <1>2, <1>3, <1>4

(* Only the event the cloud refused on its own is set aside.               *)
LEMMA SyncRefusedSingleStep ==
    ASSUME IInv, SyncRefusedSingle
    PROVE  IInv'
<1> USE DEF IInv
<1>a. /\ UNCHANGED <<up, fetchVars, authBlocked, deviceVars, cloudVars>>
      /\ sync' = "idle" /\ batch' = {} /\ todo' = {} /\ res' = NoResults
      /\ mem' = SetTo(mem, batch, "pending") \/ mem' = SetTo(mem, batch, "failed")
      /\ \/ disk' = disk
         \/ disk' = SetTo(disk, batch, "pending")
         \/ disk' = SetTo(disk, batch, "failed")
  BY DEF SyncRefusedSingle, EndRequest
<1>e. isolate' \in BOOLEAN /\ singles' \in Nat
  <2>1. CASE isolate' = FALSE /\ singles' = 0
    BY <2>1
  <2>2. CASE UNCHANGED <<isolate, singles>>
    BY <2>2 DEF TypeOK
  <2> QED BY <2>1, <2>2 DEF SyncRefusedSingle
<1>b. batch \in SUBSET Ids /\ batch \subseteq Poison /\ mem \in Image /\ disk \in Image
  BY DEF SyncRefusedSingle, Single, TypeOK, QueueTypeOK
<1> DEFINE Marked(old, new) ==
             /\ new \in Image
             /\ Queued(new) = Queued(old)
             /\ new.dedupe = old.dedupe
             /\ InState(new, "failed") \subseteq InState(old, "failed") \cup batch
             /\ InState(new, "synced") \subseteq InState(old, "synced")
<1>c. \A img \in Image : /\ Marked(img, img)
                         /\ Marked(img, SetTo(img, batch, "pending"))
                         /\ Marked(img, SetTo(img, batch, "failed"))
  BY <1>b, SetToFacts DEF States
<1>d. Marked(mem, mem') /\ Marked(disk, disk')
  <2> HIDE DEF Marked
  <2> QED BY <1>a, <1>b, <1>c
<1> USE DEF NoResults, Results
<1>1. TypeOK'
  BY <1>a, <1>b, <1>d, <1>e DEF TypeOK, QueueTypeOK
<1>2. ConfirmedIsStored' /\ FailedIsRefused' /\ AnswersAreStored'
  BY <1>a, <1>b, <1>d DEF ConfirmedIsStored, FailedIsRefused, AnswersAreStored
<1>3. NoPunchLost' /\ ClearingIsSafe'
  BY <1>a, <1>b, <1>d DEF NoPunchLost, ClearingIsSafe
<1>4. ForgottenIsStored' /\ OnlyPunched'
  BY <1>a, <1>b, <1>d DEF ForgottenIsStored, OnlyPunched
<1> QED BY <1>1, <1>2, <1>3, <1>4

(* Backing off touches nothing else.                                       *)
LEMMA OtherAuthRefusedStep ==
    ASSUME IInv, OtherAuthRefused
    PROVE  IInv'
<1> USE DEF IInv, OtherAuthRefused
<1>1. TypeOK'
  BY DEF TypeOK, QueueTypeOK
<1>2. ConfirmedIsStored' /\ FailedIsRefused' /\ AnswersAreStored'
  BY DEF ConfirmedIsStored, FailedIsRefused, AnswersAreStored
<1>3. NoPunchLost' /\ ClearingIsSafe'
  BY DEF NoPunchLost, ClearingIsSafe
<1>4. ForgottenIsStored' /\ OnlyPunched'
  BY DEF ForgottenIsStored, OnlyPunched
<1> QED BY <1>1, <1>2, <1>3, <1>4

(* Nor does the end of it.                                                 *)
LEMMA AuthExpiresStep ==
    ASSUME IInv, AuthExpires
    PROVE  IInv'
<1> USE DEF IInv, AuthExpires
<1>1. TypeOK'
  BY DEF TypeOK, QueueTypeOK
<1>2. ConfirmedIsStored' /\ FailedIsRefused' /\ AnswersAreStored'
  BY DEF ConfirmedIsStored, FailedIsRefused, AnswersAreStored
<1>3. NoPunchLost' /\ ClearingIsSafe'
  BY DEF NoPunchLost, ClearingIsSafe
<1>4. ForgottenIsStored' /\ OnlyPunched'
  BY DEF ForgottenIsStored, OnlyPunched
<1> QED BY <1>1, <1>2, <1>3, <1>4

---------------------------------------------------------------------------
(* A row once written stays as it is; only punched events get one.         *)
LEMMA StoreEventFacts ==
    ASSUME TypeOK, NEW i \in Ids, StoreEvent(i)
    PROVE  /\ cloud' \in [Ids -> {"none", "accepted", "rejected"}]
           /\ cloud'[i] # "none"
           /\ \A j \in Ids : cloud[j] # "none" => cloud'[j] = cloud[j]
           /\ \A j \in Ids \ {i} : cloud'[j] = cloud[j]
           /\ cloud[i] = "none" => cloud'[i] = RowFor(i)
BY DEF TypeOK, StoreEvent, RowFor

(* The answer to an event speaks of the row that is there.                 *)
LEMMA CloudIngestStep ==
    ASSUME IInv, NEW i \in Ids, CloudIngest(i)
    PROVE  IInv'
<1> USE DEF IInv
<1>a. /\ StoreEvent(i) /\ i \in punched
      /\ todo' = todo \ {i} /\ late' = late
      /\ res' = [res EXCEPT ![i] = IF cloud[i] = "none" THEN RowFor(i) ELSE "duplicate"]
      /\ UNCHANGED <<queueVars, fetchVars, sync, batch, loopVars, deviceVars>>
  BY DEF CloudIngest, OnlyPunched
<1>b. /\ cloud' \in [Ids -> {"none", "accepted", "rejected"}]
      /\ cloud'[i] # "none"
      /\ \A j \in Ids : cloud[j] # "none" => cloud'[j] = cloud[j]
      /\ \A j \in Ids \ {i} : cloud'[j] = cloud[j]
      /\ cloud[i] = "none" => cloud'[i] = RowFor(i)
  BY <1>a, StoreEventFacts
<1>c. RowFor(i) \in Results
  BY DEF RowFor, Results
<1>1. TypeOK'
  BY <1>a, <1>b, <1>c DEF TypeOK, QueueTypeOK, Results
<1>2. ConfirmedIsStored' /\ FailedIsRefused'
  BY <1>a, <1>b DEF ConfirmedIsStored, FailedIsRefused, InState
<1>5. AnswersAreStored'
  BY <1>a, <1>b, <1>c DEF AnswersAreStored, TypeOK
<1>3. NoPunchLost' /\ ClearingIsSafe'
  BY <1>a, <1>b DEF NoPunchLost, ClearingIsSafe, TypeOK
<1>4. ForgottenIsStored' /\ OnlyPunched'
  BY <1>a, <1>b DEF ForgottenIsStored, OnlyPunched, Queued
<1> QED BY <1>1, <1>2, <1>3, <1>4, <1>5

(* A late request writes the row it would have written in time.            *)
LEMMA CloudLateStep ==
    ASSUME IInv, NEW i \in Ids, CloudLate(i)
    PROVE  IInv'
<1> USE DEF IInv
<1>a. /\ StoreEvent(i) /\ i \in punched
      /\ late' = late \ {i}
      /\ UNCHANGED <<queueVars, fetchVars, requestVars, loopVars, deviceVars>>
  BY DEF CloudLate, OnlyPunched
<1>b. /\ cloud' \in [Ids -> {"none", "accepted", "rejected"}]
      /\ cloud'[i] # "none"
      /\ \A j \in Ids : cloud[j] # "none" => cloud'[j] = cloud[j]
      /\ \A j \in Ids \ {i} : cloud'[j] = cloud[j]
      /\ cloud[i] = "none" => cloud'[i] = RowFor(i)
  BY <1>a, StoreEventFacts
<1>1. TypeOK'
  BY <1>a, <1>b DEF TypeOK, QueueTypeOK
<1>2. ConfirmedIsStored' /\ FailedIsRefused' /\ AnswersAreStored'
  BY <1>a, <1>b DEF ConfirmedIsStored, FailedIsRefused, AnswersAreStored, InState
<1>3. NoPunchLost' /\ ClearingIsSafe'
  BY <1>a, <1>b DEF NoPunchLost, ClearingIsSafe, TypeOK
<1>4. ForgottenIsStored' /\ OnlyPunched'
  BY <1>a, <1>b DEF ForgottenIsStored, OnlyPunched, Queued
<1> QED BY <1>1, <1>2, <1>3, <1>4
(* A stuttering step. *)
LEMMA StutterStep ==
    ASSUME IInv, UNCHANGED vars
    PROVE  IInv'
BY DEF IInv, vars, TypeOK, QueueTypeOK, ConfirmedIsStored, FailedIsRefused, NoPunchLost,
       AnswersAreStored, ClearingIsSafe, ForgottenIsStored, OnlyPunched

---------------------------------------------------------------------------
(* Every step of the system preserves the invariant.                       *)
LEMMA NextIInv ==
    ASSUME IInv, [Next]_vars
    PROVE  IInv'
<1>1. CASE \E i \in Ids : Punch(i)
  BY <1>1, PunchStep
<1>2. CASE Start
  BY <1>2, StartStep
<1>3. CASE Die
  BY <1>3, DieStep
<1>4. CASE RetryFailed
  BY <1>4, RetryFailedStep
<1>5. CASE FetchNext
  BY <1>5, FetchReadStep, FetchClearStep, DieInFetchStep, FetchPruneStep,
     FetchAfterReadStep, FetchStoreStep DEF FetchNext
<1>6. CASE SyncNext
  BY <1>6, SyncAnsweredStep, SyncRefusedSingleStep, SyncSendStep, SyncUnreachableStep,
     SyncAuthRefusedStep, SyncRefusedBatchStep DEF SyncNext
<1>7. CASE CloudNext
  BY <1>7, CloudIngestStep, CloudLateStep DEF CloudNext
<1>8. CASE OtherAuthRefused
  BY <1>8, OtherAuthRefusedStep
<1>9. CASE AuthExpires
  BY <1>9, AuthExpiresStep
<1>10. CASE UNCHANGED vars
  BY <1>10, StutterStep
<1> QED BY <1>1, <1>2, <1>3, <1>4, <1>5, <1>6, <1>7, <1>8, <1>9, <1>10 DEF Next

(* The invariant holds in every reachable state of the connector, for      *)
(* every set of events, batch size, mode and fault assumption.             *)
THEOREM Invariance == Spec => []IInv
<1>1. Init => IInv
  BY InitIInv
<1>2. IInv /\ [Next]_vars => IInv'
  BY NextIInv
<1> QED BY <1>1, <1>2, PTL DEF Spec

(* Type correctness of queue, loops, device and cloud (connector).         *)
THEOREM TypesHold == Spec => []TypeOK
BY Invariance, PTL DEF IInv

(* Whatever the queue holds as confirmed has a row in the cloud            *)
(* (connector.ts sendBatch, queue.ts prune and load).                      *)
THEOREM ConfirmedAreStored == Spec => []ConfirmedIsStored
BY Invariance, PTL DEF IInv

(* An event is set aside as failed only when the cloud refused that very   *)
(* event (connector.ts syncLoop, sendBatch).                               *)
THEOREM FailedAreRefused == Spec => []FailedIsRefused
BY Invariance, PTL DEF IInv
---------------------------------------------------------------------------
(* The device log loses an entry in one action only.                       *)
LEMMA DeviceSteps ==
    ASSUME Next
    PROVE  FetchClear \/ device \subseteq device'
BY DEF Next, Punch, Start, Die, Abandon, RetryFailed, FetchNext, FetchRead, FetchAfterRead,
       FetchStore, DieInFetch, FetchPrune, SyncNext, SyncAnswered, SyncRefusedSingle,
       SyncSend, SyncUnreachable, SyncAuthRefused, SyncRefusedBatch, OtherAuthRefused,
       AuthExpires, CloudNext, CloudIngest, CloudLate

(* Clearing the device log discards only punches the cloud has             *)
(* (connector.ts afterRead).                                               *)
THEOREM ClearsOnlyStored == Spec => ClearedOnlyWhenStored
<1>1. IInv /\ [Next]_vars => [\A i \in device \ device' : cloud[i] # "none"]_vars
  <2> SUFFICES ASSUME IInv, Next
               PROVE  \A i \in device \ device' : cloud[i] # "none"
    OBVIOUS
  <2>1. CASE FetchClear
    BY <2>1 DEF IInv, FetchClear, ClearingIsSafe
  <2>2. CASE device \subseteq device'
    BY <2>2
  <2> QED BY <2>1, <2>2, DeviceSteps
<1> QED BY <1>1, Invariance, PTL DEF Spec, ClearedOnlyWhenStored

(* Nor does the log lose an entry, but by pruning.                         *)
LEMMA LogSteps ==
    ASSUME IInv, Next
    PROVE  FetchPrune \/ Queued(disk) \subseteq Queued(disk')
<1> USE DEF IInv, TypeOK
<1>0. /\ mem \in Image /\ disk \in Image
      /\ seen \in SUBSET Ids /\ batch \in SUBSET Ids
  BY DEF QueueTypeOK
<1>1. CASE \/ \E i \in Ids : Punch(i)
           \/ \E S \in SUBSET device : FetchRead(S)
           \/ Die \/ FetchClear \/ CloudNext \/ OtherAuthRefused \/ AuthExpires
  BY <1>1 DEF Punch, FetchRead, Die, Crash, FetchClear, CloudNext, CloudIngest, CloudLate,
              OtherAuthRefused, AuthExpires
<1>2. CASE Start
  BY <1>0, <1>2, RecoveredFacts DEF Start, Open
<1>3. CASE RetryFailed
  <2>1. /\ Recovered(disk) \in Image /\ Queued(Recovered(disk)) = Queued(disk)
        /\ InState(disk, "failed") \in SUBSET Ids
    BY <1>0, RecoveredFacts, ImageFacts
  <2>2. Queued(SetTo(Recovered(disk), InState(disk, "failed"), "pending"))
          = Queued(Recovered(disk))
    BY <2>1, SetToFacts DEF States
  <2> QED BY <1>3, <2>1, <2>2 DEF RetryFailed
<1>4. CASE DieInFetch
  <2>1. PICK T \in SUBSET NewOf(seen) : disk' = Put(disk, T)
    BY <1>4 DEF DieInFetch, CrashInEnqueue
  <2>2. T \in SUBSET Ids
    BY <1>0, <2>1 DEF NewOf
  <2> QED BY <1>0, <2>1, <2>2, PutFacts
<1>5. CASE \E ok \in Outcomes : FetchAfterRead(ok) \/ FetchStore(ok)
  BY <1>0, <1>5, EnqueueFacts DEF FetchAfterRead, FetchStore
<1>6. CASE SyncAnswered
  <2>1. Rejected \in SUBSET Ids /\ Confirmed \in SUBSET Ids
    BY <1>0 DEF Rejected, Confirmed
  <2>2. \/ disk' = SetTo(SetTo(disk, Rejected, "failed"), Confirmed, "synced")
        \/ \E Q \in SUBSET Rejected : disk' = SetTo(disk, Q, "failed")
    <3>1. \A r \in Rejected : {x \in Rejected : x < r} \in SUBSET Rejected
      OBVIOUS
    <3> QED BY <1>6, <3>1 DEF SyncAnswered, MarkAnswered
  <2>3. Queued(SetTo(SetTo(disk, Rejected, "failed"), Confirmed, "synced")) = Queued(disk)
    BY <1>0, <2>1, MarkedFacts
  <2>4. \A Q \in SUBSET Rejected : Queued(SetTo(disk, Q, "failed")) = Queued(disk)
    <3> TAKE Q \in SUBSET Rejected
    <3>1. Q \in SUBSET Ids /\ "failed" \in States
      BY <2>1 DEF States
    <3> QED BY <1>0, <3>1, SetToFacts
  <2> QED BY <2>2, <2>3, <2>4
<1>7. CASE SyncRefusedSingle
  <2>1. \A st \in {"pending", "failed"} : Queued(SetTo(disk, batch, st)) = Queued(disk)
    BY <1>0, SetToFacts DEF States
  <2> QED BY <1>7, <2>1 DEF SyncRefusedSingle
<1>8. CASE \E ok \in Outcomes : SyncSend(ok)
  <2>1. PICK B \in SUBSET Ids, ok \in Outcomes : SetState(B, "syncing", ok)
    <3>1. \A n : Oldest(InState(mem, "pending"), n) \in SUBSET Ids
      BY <1>0, ImageFacts, OldestFacts
    <3> QED BY <1>8, <3>1 DEF SyncSend
  <2> QED BY <2>1, SetStateFacts DEF States
<1>9. CASE \E ok \in Outcomes :
             SyncUnreachable(ok) \/ SyncAuthRefused(ok) \/ SyncRefusedBatch(ok)
  <2>1. PICK ok \in Outcomes : SetState(batch, "pending", ok)
    BY <1>9 DEF SyncUnreachable, SyncAuthRefused, SyncRefusedBatch
  <2> QED BY <1>0, <2>1, SetStateFacts DEF States
<1> QED BY <1>1, <1>2, <1>3, <1>4, <1>5, <1>6, <1>7, <1>8, <1>9
        DEF Next, FetchNext, SyncNext

(* An entry leaves the log only when the cloud has it (queue.ts prune,     *)
(* compact, load).                                                         *)
THEOREM LogKeeps == Spec => LogKeepsUntilStored
<1>1. IInv /\ [Next]_vars => [\A i \in Queued(disk) \ Queued(disk') : cloud[i] # "none"]_vars
  <2> SUFFICES ASSUME IInv, Next
               PROVE  \A i \in Queued(disk) \ Queued(disk') : cloud[i] # "none"
    OBVIOUS
  <2>1. CASE FetchPrune
    <3>1. PICK S \in SUBSET Ids, F \in SUBSET Ids, end \in PruneEnds : Prune(S, F, end)
      BY <2>1 DEF FetchPrune
    <3>2. QueueTypeOK /\ up
      BY <2>1 DEF IInv, TypeOK, FetchPrune
    <3>3. \A i \in S : cloud[i] # "none"
      BY <3>1, <3>2, PruneFacts DEF IInv, ConfirmedIsStored
    <3>4. \A i \in Queued(disk) \ Queued(mem) : cloud[i] # "none"
      BY <3>2 DEF IInv, ForgottenIsStored
    <3> QED BY <3>1, <3>2, <3>3, <3>4, PruneFacts
  <2>2. CASE Queued(disk) \subseteq Queued(disk')
    BY <2>2
  <2> QED BY <2>1, <2>2, LogSteps
<1> QED BY <1>1, Invariance, PTL DEF Spec, LogKeepsUntilStored
---------------------------------------------------------------------------
(* Under the invariant a punch is with us exactly from the moment it is    *)
(* made until its row is written; nothing is ever "lost".                  *)
LEMMA WhereFacts ==
    IInv => Where = [i \in Ids |-> IF cloud[i] # "none" THEN "stored"
                                   ELSE IF i \in punched THEN "held"
                                   ELSE "unmade"]
BY DEF Where, IInv, NoPunchLost, OnlyPunched

(* Only a punch and a row change where a punch is.                         *)
LEMMA DeliverySteps ==
    ASSUME Next
    PROVE  \/ \E i \in Ids : Punch(i)
           \/ CloudNext
           \/ UNCHANGED <<punched, cloud>>
BY DEF Next, Start, Die, Abandon, RetryFailed, FetchNext, FetchRead, FetchAfterRead,
       FetchClear, FetchStore, DieInFetch, FetchPrune, SyncNext, SyncAnswered,
       SyncRefusedSingle, SyncSend, SyncUnreachable, SyncAuthRefused, SyncRefusedBatch,
       OtherAuthRefused, AuthExpires

(* Every step of the pipeline is a step of the delivery service or none.   *)
LEMMA DeliveryStep ==
    ASSUME IInv, IInv', Next
    PROVE  [Delivery!Next]_Where
<1> DEFINE at == [i \in Ids |-> IF cloud[i] # "none" THEN "stored"
                                ELSE IF i \in punched THEN "held"
                                ELSE "unmade"]
<1>1. Where = at
  BY WhereFacts
<1>2. Where' = at'
  BY DEF Where, IInv, NoPunchLost, OnlyPunched
<1>3. CASE \E i \in Ids : Punch(i)
  <2>1. PICK i \in Ids : Punch(i)
    BY <1>3
  <2>2. i \notin punched /\ punched' = punched \cup {i} /\ cloud' = cloud /\ cloud[i] = "none"
    BY <2>1 DEF Punch, IInv, OnlyPunched
  <2>3. at[i] = "unmade" /\ at' = [at EXCEPT ![i] = "held"]
    BY <2>2
  <2> QED BY <1>1, <1>2, <2>3 DEF Delivery!Next, Delivery!Make
<1>4. CASE CloudNext
  <2>1. PICK i \in Ids : /\ i \in todo \cup late
                         /\ StoreEvent(i)
                         /\ UNCHANGED punched
    BY <1>4 DEF CloudNext, CloudIngest, CloudLate, IInv, OnlyPunched
  <2>2. i \in punched /\ TypeOK
    BY <2>1 DEF IInv, OnlyPunched
  <2>3. CASE cloud[i] = "none"
    <3>1. at[i] = "held" /\ at' = [at EXCEPT ![i] = "stored"]
      BY <2>1, <2>2, <2>3, StoreEventFacts
    <3> QED BY <1>1, <1>2, <3>1 DEF Delivery!Next, Delivery!Store
  <2>4. CASE cloud[i] # "none"
    <3>1. at' = at
      BY <2>1, <2>2, <2>4, StoreEventFacts
    <3> QED BY <1>1, <1>2, <3>1
  <2> QED BY <2>3, <2>4
<1>5. CASE UNCHANGED <<punched, cloud>>
  <2>1. at' = at
    BY <1>5
  <2> QED BY <1>1, <1>2, <2>1
<1> QED BY <1>3, <1>4, <1>5, DeliverySteps

(* The whole pipeline implements PunchDelivery: no punch is lost between   *)
(* the device, the log and the cloud, and none is stored twice.            *)
THEOREM Refinement == Spec => ImplementsDelivery
<1>1. Init => Delivery!Init
  BY EmptyFacts DEF Init, QueueInit, Where, Delivery!Init
<1>2. IInv /\ IInv' /\ [Next]_vars => [Delivery!Next]_Where
  <2> SUFFICES ASSUME IInv, IInv', [Next]_vars
               PROVE  [Delivery!Next]_Where
    OBVIOUS
  <2>1. CASE Next
    BY <2>1, DeliveryStep
  <2>2. CASE UNCHANGED vars
    BY <2>2 DEF vars, Where
  <2> QED BY <2>1, <2>2
<1> QED BY <1>1, <1>2, Invariance, PTL DEF Spec, ImplementsDelivery, Delivery!Spec
---------------------------------------------------------------------------
(* Without disk faults the queue and the sync loop agree.                  *)

LEMMA AgreeInit == Init => LoopsAgree
BY EmptyFacts DEF Init, QueueInit, LoopsAgree

(* What a write does when it cannot fail: to both copies the same.         *)
LEMMA WholeWrites ==
    ASSUME ~DiskFaults
    PROVE  Outcomes = {TRUE} /\ PruneEnds = {"ok", "compacted"}
BY DEF Outcomes, PruneEnds

(* Queueing new events leaves the request in flight alone.                 *)
LEMMA AgreeEnqueue ==
    ASSUME ~DiskFaults, IInv, LoopsAgree, up, NEW S \in SUBSET Ids, Enqueue(S, TRUE),
           UNCHANGED <<requestVars>>
    PROVE  LoopsAgree'
<1> DEFINE new == NewOf(S)
<1>1. mem' = Put(mem, new) /\ disk' = Put(disk, new) /\ up' = up
  BY DEF Enqueue, Written
<1>2. mem \in Image /\ new \in SUBSET Ids /\ new \cap InState(mem, "syncing") = {}
  BY DEF IInv, TypeOK, QueueTypeOK, NewOf, Has, Queued, InState
<1> HIDE DEF new
<1>3. InState(Put(mem, new), "syncing") = InState(mem, "syncing")
  <2>1. InState(Put(mem, new), "syncing") = InState(mem, "syncing") \ new
    BY <1>2, PutFacts
  <2> QED BY <1>2, <2>1
<1> QED BY <1>1, <1>3 DEF LoopsAgree

(* Pruning takes confirmed entries, and the log follows.                   *)
LEMMA AgreePrune ==
    ASSUME ~DiskFaults, IInv, LoopsAgree, FetchPrune
    PROVE  LoopsAgree'
<1>1. PICK S \in SUBSET Ids, F \in SUBSET Ids, end \in {"ok", "compacted"} : Prune(S, F, end)
  BY WholeWrites DEF FetchPrune
<1>2. /\ mem \in Image /\ up /\ mem = disk
      /\ S \subseteq InState(mem, "synced") /\ up' = up
      /\ UNCHANGED requestVars
  BY <1>1 DEF IInv, TypeOK, QueueTypeOK, LoopsAgree, FetchPrune, Prune
<1> DEFINE gone == Pruned(mem, S)
<1>3. /\ gone \in Image
      /\ InState(gone, "syncing") = InState(mem, "syncing")
  BY <1>2, PrunedFacts DEF States, InState
<1>4. /\ mem' = Forgotten(gone, F)
      /\ disk' = Forgotten(gone, F) \/ (F = {} /\ disk' = gone)
  <2>1. CASE end = "ok"
    BY <1>1, <1>2, <2>1 DEF Prune
  <2>2. CASE end = "compacted"
    BY <1>1, <1>2, <2>2 DEF Prune
  <2> QED BY <2>1, <2>2
<1> HIDE DEF gone
<1>5. InState(Forgotten(gone, F), "syncing") = InState(gone, "syncing")
  BY <1>3, ForgottenFacts DEF States
<1>6. F = {} => Forgotten(gone, F) = gone
  BY <1>3 DEF Forgotten, Image
<1> QED BY <1>2, <1>3, <1>4, <1>5, <1>6 DEF LoopsAgree
(* What is being sent is queued.                                           *)
LEMMA SyncingIsQueued ==
    ASSUME NEW img \in Image
    PROVE  InState(img, "syncing") \in SUBSET Queued(img)
BY DEF InState, Queued

(* Moving every entry that is being sent leaves none.                      *)
LEMMA ReleasedFacts ==
    ASSUME NEW img \in Image
    PROVE  \A st \in {"pending", "failed"} :
              InState(SetTo(img, InState(img, "syncing"), st), "syncing") = {}
BY DEF InState, SetTo, Queued, Image

(* So does giving each of them its answer.                                 *)
LEMMA AnsweredFacts ==
    ASSUME NEW img \in Image, NEW R \in SUBSET Ids, NEW C \in SUBSET Ids,
           InState(img, "syncing") = R \cup C
    PROVE  InState(SetTo(SetTo(img, R, "failed"), C, "synced"), "syncing") = {}
<1> DEFINE refused == SetTo(img, R, "failed")
<1>1. refused \in Image /\ InState(refused, "syncing") \subseteq C
  <2>1. refused \in Image
    BY SetToFacts DEF States
  <2>2. InState(refused, "syncing") \subseteq InState(img, "syncing") \ R
    BY DEF InState, SetTo, Queued, Image
  <2> QED BY <2>1, <2>2
<1> HIDE DEF refused
<1>2. InState(SetTo(refused, C, "synced"), "syncing") = {}
  BY <1>1 DEF InState, SetTo, Queued, Image
<1> QED BY <1>2 DEF refused

(* Every step keeps the queue and the loop in agreement.                   *)
LEMMA AgreeStep ==
    ASSUME ~DiskFaults, IInv, LoopsAgree, Next
    PROVE  LoopsAgree'
<1>0. /\ mem \in Image /\ disk \in Image
      /\ batch \in SUBSET Ids /\ seen \in SUBSET Ids
      /\ Outcomes = {TRUE}
  BY WholeWrites DEF IInv, TypeOK, QueueTypeOK
<1>1. CASE \/ \E i \in Ids : Punch(i) \/ CloudLate(i)
           \/ \E S \in SUBSET device : FetchRead(S)
           \/ FetchClear \/ OtherAuthRefused \/ AuthExpires
  BY <1>1 DEF LoopsAgree, Punch, CloudLate, FetchRead, FetchClear, OtherAuthRefused, AuthExpires
<1>2. CASE Start
  BY <1>0, <1>2, RecoveredFacts DEF LoopsAgree, Start, Open
<1>3. CASE Die \/ DieInFetch
  BY <1>3 DEF LoopsAgree, Die, DieInFetch, Crash, CrashInEnqueue, Abandon
<1>4. CASE RetryFailed
  BY <1>4 DEF LoopsAgree, RetryFailed
<1>5. CASE \E ok \in Outcomes : FetchAfterRead(ok) \/ FetchStore(ok)
  <2>1. up /\ Enqueue(seen, TRUE) /\ UNCHANGED requestVars
    BY <1>0, <1>5 DEF FetchAfterRead, FetchStore
  <2> QED BY <1>0, <2>1, AgreeEnqueue
<1>6. CASE FetchPrune
  BY <1>6, AgreePrune
<1>7. CASE SyncSend(TRUE)
  <2> DEFINE B == Oldest(InState(mem, "pending"), IF isolate THEN 1 ELSE BatchSize)
  <2>1. /\ up /\ sync = "idle" /\ SetState(B, "syncing", TRUE)
        /\ sync' = "waiting" /\ batch' = B /\ todo' = B
    BY <1>7 DEF SyncSend
  <2>2. B \in SUBSET Queued(mem) /\ B \in SUBSET Ids
    BY <1>0, OldestFacts, ImageFacts DEF States
  <2> HIDE DEF B
  <2>3. /\ mem' = SetTo(mem, B, "syncing") /\ disk' = SetTo(disk, B \cap Queued(mem), "syncing")
        /\ up' = up
    BY <2>1 DEF SetState, Written
  <2>4. B \cap Queued(mem) = B /\ mem = disk /\ InState(mem, "syncing") = {}
    BY <2>1, <2>2 DEF LoopsAgree
  <2>5. InState(SetTo(mem, B, "syncing"), "syncing") = B
    BY <1>0, <2>2, <2>4 DEF SetTo, InState, Image
  <2> QED BY <2>1, <2>3, <2>4, <2>5 DEF LoopsAgree
<1>8. CASE SyncUnreachable(TRUE) \/ SyncAuthRefused(TRUE) \/ SyncRefusedBatch(TRUE)
  <2>1. /\ SetState(batch, "pending", TRUE)
        /\ sync = "waiting" /\ sync' = "idle" /\ batch' = {}
    BY <1>8 DEF SyncUnreachable, SyncAuthRefused, SyncRefusedBatch, EndRequest
  <2>2. /\ mem' = SetTo(mem, batch, "pending")
        /\ disk' = SetTo(disk, batch \cap Queued(mem), "pending")
        /\ up' = up
    BY <2>1 DEF SetState, Written
  <2>3. up => /\ batch \cap Queued(mem) = batch
              /\ InState(SetTo(mem, batch, "pending"), "syncing") = {}
    BY <1>0, SyncingIsQueued, ReleasedFacts DEF LoopsAgree
  <2> QED BY <2>1, <2>2, <2>3 DEF LoopsAgree
<1>9. CASE SyncRefusedSingle
  <2>1. /\ mem' = SetTo(mem, batch, "failed") /\ disk' = SetTo(disk, batch, "failed")
        /\ up' = up /\ sync' = "idle" /\ batch' = {}
    BY <1>9 DEF SyncRefusedSingle, EndRequest
  <2>2. up => InState(SetTo(mem, batch, "failed"), "syncing") = {}
    BY <1>0, ReleasedFacts DEF LoopsAgree
  <2> QED BY <2>1, <2>2 DEF LoopsAgree
<1>10. CASE SyncAnswered
  <2>1. /\ mem' = SetTo(SetTo(mem, Rejected, "failed"), Confirmed, "synced")
        /\ disk' = SetTo(SetTo(disk, Rejected, "failed"), Confirmed, "synced")
        /\ up' = up /\ sync' = "idle" /\ batch' = {} /\ todo = {}
    BY <1>10 DEF SyncAnswered, MarkAnswered, EndRequest
  <2>2. batch = Rejected \cup Confirmed /\ Rejected \in SUBSET Ids /\ Confirmed \in SUBSET Ids
    BY <1>0, <2>1 DEF LoopsAgree, Rejected, Confirmed, IInv, TypeOK, Results
  <2>3. up => InState(SetTo(SetTo(mem, Rejected, "failed"), Confirmed, "synced"), "syncing") = {}
    BY <1>0, <2>2, AnsweredFacts DEF LoopsAgree
  <2> QED BY <2>1, <2>3 DEF LoopsAgree
<1>11. CASE \E i \in Ids : CloudIngest(i)
  <2>1. PICK i \in Ids : CloudIngest(i)
    BY <1>11
  <2>2. /\ todo' = todo \ {i} /\ res' \in [Ids -> Results] /\ res'[i] # "none"
        /\ \A j \in Ids \ {i} : res'[j] = res[j]
        /\ UNCHANGED <<queueVars, sync, batch>>
    BY <2>1 DEF CloudIngest, RowFor, IInv, TypeOK, Results
  <2> QED BY <1>0, <2>2 DEF LoopsAgree
<1> QED BY <1>0, <1>1, <1>2, <1>3, <1>4, <1>5, <1>6, <1>7, <1>8, <1>9, <1>10, <1>11
        DEF Next, FetchNext, SyncNext, CloudNext

(* On such a disk the agreement always holds.                              *)
LEMMA Agreement == Spec => [](LoopsAgree \/ DiskFaults)
<1>1. Init => LoopsAgree \/ DiskFaults
  BY AgreeInit
<1>2. IInv /\ (LoopsAgree \/ DiskFaults) /\ [Next]_vars => (LoopsAgree \/ DiskFaults)'
  <2> SUFFICES ASSUME ~DiskFaults, IInv, LoopsAgree, [Next]_vars
               PROVE  LoopsAgree'
    OBVIOUS
  <2>1. CASE Next
    BY <2>1, AgreeStep
  <2>2. CASE UNCHANGED vars
    BY <2>2 DEF vars, LoopsAgree
  <2> QED BY <2>1, <2>2
<1> QED BY <1>1, <1>2, Invariance, PTL DEF Spec

(* On a disk that takes every write, an entry is `syncing` exactly while   *)
(* its request is outstanding (connector.ts sendBatch).                    *)
THEOREM SyncingInFlight == Spec => []SyncingIsInFlight
<1>1. LoopsAgree \/ DiskFaults => SyncingIsInFlight
  BY DEF LoopsAgree, SyncingIsInFlight
<1> QED BY <1>1, Agreement, PTL

(* ... and no request carries an event the log does not have (queue.ts     *)
(* append, connector.ts syncLoop).                                         *)
THEOREM StoredFirst == ASSUME ~DiskFaults PROVE Spec => []StoredBeforeUpload
<1>1. IInv /\ (LoopsAgree \/ DiskFaults) => StoredBeforeUpload
  <2> SUFFICES ASSUME IInv, LoopsAgree
               PROVE  batch \subseteq Queued(disk)
    BY DEF StoredBeforeUpload
  <2>1. CASE up
    BY <2>1, SyncingIsQueued DEF LoopsAgree, IInv, TypeOK, QueueTypeOK
  <2>2. CASE ~up
    BY <2>2 DEF LoopsAgree
  <2> QED BY <2>1, <2>2
<1> QED BY <1>1, Agreement, Invariance, PTL
=============================================================================
