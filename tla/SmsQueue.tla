------------------------------ MODULE SmsQueue ------------------------------
(***************************************************************************)
(* The queue of outgoing attendance messages and its workers               *)
(* (backend attendance-device/sms-queue.repository.ts and                  *)
(* sms-queue.service.ts).                                                  *)
(*                                                                         *)
(* Every backend instance runs one worker, one pass at a time: put back    *)
(* rows locked for too long, claim a batch, then deliver its rows one      *)
(* after the other.  Each database statement is atomic; between two of     *)
(* them the other workers, the clock and a crash may intervene.  A row is  *)
(* locked when its batch is claimed, not when its turn comes.              *)
(***************************************************************************)
EXTENDS Naturals, FiniteSets

CONSTANTS
    Rows,          \* queued messages, one per dedupe key
    Workers,       \* backend instances
    None,          \* no worker, or no row
    MaxAttempts,   \* max_attempts of every row
    BatchSize,     \* rows claimed per pass
    Outlasted      \* rows a pass may hold for longer than the stale timeout

ASSUME SmsQueueAssumption ==
    /\ MaxAttempts \in Nat \ {0}
    /\ BatchSize \in Nat \ {0}
    /\ Outlasted \subseteq Rows
    /\ IsFiniteSet(Workers)
    /\ None \notin Workers \cup Rows

VARIABLES
    row,        \* status of each row
    attempts,   \* its claims so far
    due,        \* rows whose next_attempt_at has come
    expired,    \* rows older than the maximum age
    stale,      \* rows locked for longer than the stale timeout
    owner,      \* the worker whose claim locked the row last
    accepted,   \* how often the provider accepted the message
    at,         \* where the pass of each worker stands
    batch,      \* rows of its batch it is not done with
    current,    \* the row it is delivering
    tries       \* attempts as its claim returned them

rowVars == <<row, attempts, owner>>
clockVars == <<due, expired, stale>>
passVars == <<at, batch, current, tries>>
vars == <<rowVars, clockVars, accepted, passVars>>

Statuses == {"none", "PENDING", "PROCESSING", "SENT", "FAILED"}
Places == {"idle", "claiming", "working", "sending", "sent", "error"}

TypeOK ==
    /\ row \in [Rows -> Statuses]
    /\ attempts \in [Rows -> Nat]
    /\ due \in SUBSET Rows
    /\ expired \in SUBSET Rows
    /\ stale \in SUBSET Rows
    /\ owner \in [Rows -> Workers \cup {None}]
    /\ accepted \in [Rows -> Nat]
    /\ at \in [Workers -> Places]
    /\ batch \in [Workers -> SUBSET Rows]
    /\ current \in [Workers -> Rows \cup {None}]
    /\ tries \in [Workers -> [Rows -> Nat]]

Init ==
    /\ row = [r \in Rows |-> "none"]
    /\ attempts = [r \in Rows |-> 0]
    /\ due = {}
    /\ expired = {}
    /\ stale = {}
    /\ owner = [r \in Rows |-> None]
    /\ accepted = [r \in Rows |-> 0]
    /\ at = [w \in Workers |-> "idle"]
    /\ batch = [w \in Workers |-> {}]
    /\ current = [w \in Workers |-> None]
    /\ tries = [w \in Workers |-> [r \in Rows |-> 0]]

InStatus(st) == {r \in Rows : row[r] = st}
Held(r) == \E w \in Workers : r \in batch[w]

---------------------------------------------------------------------------
(* The world around the workers. *)

(* The ingest or a job queues a message; the dedupe key is unique. *)
Enqueue(r) ==
    /\ row[r] = "none"
    /\ row' = [row EXCEPT ![r] = "PENDING"]
    /\ due' = due \cup {r}
    /\ UNCHANGED <<attempts, owner, expired, stale, accepted, passVars>>

BecomesDue(r) ==
    /\ row[r] = "PENDING"
    /\ r \notin due
    /\ due' = due \cup {r}
    /\ UNCHANGED <<rowVars, expired, stale, accepted, passVars>>

Expires(r) ==
    /\ row[r] \in {"PENDING", "PROCESSING"}
    /\ expired' = expired \cup {r}
    /\ UNCHANGED <<rowVars, due, stale, accepted, passVars>>

(* A lock gets old: after a worker died, or while a slow pass holds it. *)
LockAges(r) ==
    /\ row[r] = "PROCESSING"
    /\ r \notin stale
    /\ r \in Outlasted \/ ~Held(r)
    /\ stale' = stale \cup {r}
    /\ UNCHANGED <<rowVars, due, expired, accepted, passVars>>

---------------------------------------------------------------------------
(* One pass of a worker. *)

(* Mutants: every locked row is put back; none is; a spent row is tried again. *)
RecoverNothing(w) ==
    /\ at[w] = "idle"
    /\ at' = [at EXCEPT ![w] = "claiming"]
    /\ UNCHANGED <<rowVars, clockVars, accepted, batch, current, tries>>

RecoverAll(w) ==
    /\ at[w] = "idle"
    /\ row' = [r \in Rows |-> IF row[r] = "PROCESSING" THEN "PENDING" ELSE row[r]]
    /\ at' = [at EXCEPT ![w] = "claiming"]
    /\ UNCHANGED <<attempts, owner, clockVars, accepted, batch, current, tries>>

RecoverSpent(w) ==
    /\ at[w] = "idle"
    /\ row' = [r \in Rows |-> IF r \in stale THEN "PENDING" ELSE row[r]]
    /\ due' = due \cup stale
    /\ stale' = {}
    /\ at' = [at EXCEPT ![w] = "claiming"]
    /\ UNCHANGED <<attempts, owner, expired, accepted, batch, current, tries>>

(* recoverStale(): due again at once, or failed once the attempts are spent. *)
RecoverStale(w) ==
    /\ at[w] = "idle"
    /\ row' = [r \in Rows |-> IF r \notin stale THEN row[r]
                              ELSE IF attempts[r] >= MaxAttempts THEN "FAILED"
                              ELSE "PENDING"]
    /\ due' = due \cup stale
    /\ stale' = {}
    /\ at' = [at EXCEPT ![w] = "claiming"]
    /\ UNCHANGED <<attempts, owner, expired, accepted, batch, current, tries>>

(* Mutant: the attempt is not counted at claim time. *)
NotCounted(S) == attempts

CountedOn(S) == [r \in Rows |-> IF r \in S THEN attempts[r] + 1 ELSE attempts[r]]

(* claimBatch(): some of the due pending rows, up to the limit. *)
ClaimBatch(w) ==
    /\ at[w] = "claiming"
    /\ LET ready == InStatus("PENDING") \cap due
       IN \E S \in SUBSET ready :
            /\ Cardinality(S) <= BatchSize
            /\ S = {} => ready = {}
            /\ row' = [r \in Rows |-> IF r \in S THEN "PROCESSING" ELSE row[r]]
            /\ attempts' = CountedOn(S)
            /\ owner' = [r \in Rows |-> IF r \in S THEN w ELSE owner[r]]
            /\ batch' = [batch EXCEPT ![w] = S]
            /\ tries' = [tries EXCEPT ![w] = [r \in Rows |-> IF r \in S THEN CountedOn(S)[r] ELSE 0]]
            /\ at' = [at EXCEPT ![w] = IF S = {} THEN "idle" ELSE "working"]
            /\ due' = due \ S
    /\ UNCHANGED <<expired, stale, accepted, current>>

(* Mutant: the status is not looked at. *)
MarkAny(r, st) ==
    /\ row' = [row EXCEPT ![r] = st]
    /\ stale' = stale \ {r}
    /\ UNCHANGED <<attempts, owner, due, expired>>

(* markSent, markRetry, markFailed: only a PROCESSING row is changed. *)
Mark(r, st) ==
    /\ row' = [row EXCEPT ![r] = IF @ = "PROCESSING" THEN st ELSE @]
    /\ stale' = IF row[r] = "PROCESSING" THEN stale \ {r} ELSE stale
    /\ UNCHANGED <<attempts, owner, due, expired>>

(* The worker is done with a row of its batch, and with the pass after the last. *)
Finish(w, r) ==
    /\ batch' = [batch EXCEPT ![w] = @ \ {r}]
    /\ at' = [at EXCEPT ![w] = IF batch[w] = {r} THEN "idle" ELSE "working"]
    /\ current' = [current EXCEPT ![w] = None]
    /\ tries' = [tries EXCEPT ![w][r] = 0]

(* processOne() of a row that waited too long. *)
DropExpired(w, r) ==
    /\ at[w] = "working"
    /\ r \in batch[w] \cap expired
    /\ Mark(r, "FAILED")
    /\ Finish(w, r)
    /\ UNCHANGED accepted

StartSend(w, r) ==
    /\ at[w] = "working"
    /\ r \in batch[w] \ expired
    /\ current' = [current EXCEPT ![w] = r]
    /\ at' = [at EXCEPT ![w] = "sending"]
    /\ UNCHANGED <<rowVars, clockVars, accepted, batch, tries>>

(* send(): reported as SENT only when the provider accepted the message;   *)
(* an acceptance may also be reported as a failure (see MessageBilling).   *)
Send(w) ==
    /\ at[w] = "sending"
    /\ \E ok \in BOOLEAN :
         /\ accepted' = [accepted EXCEPT ![current[w]] = @ + IF ok THEN 1 ELSE 0]
         /\ \E end \in (IF ok THEN {"sent", "error"} ELSE {"error"}) :
              at' = [at EXCEPT ![w] = end]
    /\ UNCHANGED <<rowVars, clockVars, batch, current, tries>>

(* markSent(); when it throws, the delivery is handled as a failed one. *)
MarkSent(w) ==
    /\ at[w] = "sent"
    /\ \/ Mark(current[w], "SENT") /\ Finish(w, current[w])
       \/ /\ at' = [at EXCEPT ![w] = "error"]
          /\ UNCHANGED <<rowVars, clockVars, batch, current, tries>>
    /\ UNCHANGED accepted

(* Mutant: a failure is final at once. *)
MarkErrorFinal(w) ==
    /\ at[w] = "error"
    /\ Mark(current[w], "FAILED")
    /\ Finish(w, current[w])
    /\ UNCHANGED accepted

MarkError(w) ==
    /\ at[w] = "error"
    /\ LET r == current[w]
       IN /\ Mark(r, IF tries[w][r] >= MaxAttempts THEN "FAILED" ELSE "PENDING")
          /\ Finish(w, r)
    /\ UNCHANGED accepted

(* The instance dies, or a statement throws and ends the pass. *)
Abort(w) ==
    /\ at[w] # "idle"
    /\ at' = [at EXCEPT ![w] = "idle"]
    /\ batch' = [batch EXCEPT ![w] = {}]
    /\ current' = [current EXCEPT ![w] = None]
    /\ tries' = [tries EXCEPT ![w] = [r \in Rows |-> 0]]
    /\ UNCHANGED <<rowVars, clockVars, accepted>>

Pass(w) ==
    \/ RecoverStale(w)
    \/ ClaimBatch(w)
    \/ \E r \in Rows : DropExpired(w, r) \/ StartSend(w, r)
    \/ Send(w)
    \/ MarkSent(w)
    \/ MarkError(w)

Next ==
    \/ \E r \in Rows : Enqueue(r) \/ BecomesDue(r) \/ Expires(r) \/ LockAges(r)
    \/ \E w \in Workers : Pass(w) \/ Abort(w)

Spec == Init /\ [][Next]_vars

(* The timer starts pass after pass and the clock runs. *)
FairSpec ==
    /\ Spec
    /\ \A r \in Rows : WF_vars(BecomesDue(r)) /\ WF_vars(LockAges(r))
    /\ \A w \in Workers : SF_vars(ClaimBatch(w)) /\ WF_vars(Pass(w))

---------------------------------------------------------------------------
(* repository.claimBatch "each row is claimed by exactly one worker": a    *)
(* row somebody is delivering is locked by that very worker, unless the    *)
(* pass holds it for longer than the stale timeout.                        *)
HeldByOwner ==
    \A w \in Workers : \A r \in batch[w] \ Outlasted :
        row[r] = "PROCESSING" /\ owner[r] = w

(* A message is never claimed more often than its maximum (processOne,     *)
(* recoverStale), whoever dies in between, unless a pass outlasts its lock.*)
AttemptsBounded ==
    \A r \in Rows \ Outlasted : attempts[r] <= MaxAttempts

(* One claim costs the recipient at most one message, so duplicates are    *)
(* bounded by the attempts even with overlapping workers.                  *)
SendsPerAttempt == \A r \in Rows : accepted[r] <= attempts[r]

(* A row says SENT only if the provider accepted the message.              *)
SentWasAccepted == \A r \in InStatus("SENT") : accepted[r] > 0

(* A message is given up only when its attempts are spent or it is too old *)
(* to be of use (processOne, recoverStale).                                *)
GivenUpHonestly ==
    \A r \in InStatus("FAILED") : r \in expired \/ attempts[r] >= MaxAttempts

(* sms-queue.repository.ts:61 "a row that stale recovery already handed to *)
(* another worker is never overwritten": the worker that closes or         *)
(* releases a locked row is the one that locked it.                        *)
OnlyOwnerMarks ==
    [][\A w \in Workers : \A r \in batch[w] \ batch'[w] :
          row[r] = "PROCESSING" /\ row'[r] # "PROCESSING" => owner[r] = w]_vars

(* A closed row stays closed, whatever a late worker still writes.         *)
ClosedForGood ==
    [][\A r \in Rows : row[r] \in {"SENT", "FAILED"} => row'[r] = row[r]]_vars

(* Every queued message is sent or given up, although instances keep dying *)
(* (setInterval, recoverStale).                                            *)
EventuallyClosed ==
    \A r \in Rows : row[r] = "PENDING" ~> row[r] \in {"SENT", "FAILED"}

(* The rows implement the outbox: whichever workers overlap or die, every  *)
(* message waits until it was delivered or given up for a reason, is       *)
(* closed once (markSent, markRetry, markFailed "guarded by status"), and  *)
(* costs at most one copy per claim.                                       *)
Progress(st) ==
    CASE st = "none" -> "none"
      [] st \in {"PENDING", "PROCESSING"} -> "waiting"
      [] st = "SENT" -> "sent"
      [] st = "FAILED" -> "failed"
Box == INSTANCE Outbox WITH
    state <- [r \in Rows |-> Progress(row[r])],
    claims <- attempts, copies <- accepted, old <- expired
ImplementsOutbox == Box!Spec

---------------------------------------------------------------------------
(* The inductive invariant behind the safety properties.                   *)

(* A worker delivers a row of its own batch. *)
DeliversOwnRow ==
    \A w \in Workers :
        at[w] \in {"sending", "sent", "error"} => current[w] \in batch[w]

(* Only locks get stale; only a free worker has no batch. *)
LocksOnly ==
    /\ \A r \in stale : row[r] = "PROCESSING"
    /\ \A w \in Workers : at[w] \in {"idle", "claiming"} => batch[w] = {}

(* What a worker remembers of a row's attempts is no more than the row's. *)
TriesAreOld == \A w \in Workers : \A r \in batch[w] : tries[w][r] <= attempts[r]

(* A reported delivery happened. *)
ReportsAreTrue == \A w \in Workers : at[w] = "sent" => accepted[current[w]] > 0

(* The claims of a row that have not led to a call of the provider yet. *)
Unsent(r) == {w \in Workers : r \in batch[w] /\ ~(at[w] \in {"sent", "error"} /\ current[w] = r)}
AttemptsCover == \A r \in Rows : accepted[r] + Cardinality(Unsent(r)) <= attempts[r]

(* When passes are short: no lock in use is stale, what the worker         *)
(* remembers is exact, and a waiting row has an attempt left.              *)
ShortPasses ==
    /\ \A w \in Workers : \A r \in batch[w] \ Outlasted :
         r \notin stale /\ tries[w][r] = attempts[r]
    /\ \A r \in Rows \ Outlasted :
         row[r] \in {"none", "PENDING"} => attempts[r] < MaxAttempts

IInv ==
    /\ TypeOK
    /\ HeldByOwner
    /\ AttemptsBounded
    /\ SentWasAccepted
    /\ GivenUpHonestly
    /\ DeliversOwnRow
    /\ LocksOnly
    /\ TriesAreOld
    /\ ReportsAreTrue
    /\ AttemptsCover
    /\ ShortPasses
=============================================================================
