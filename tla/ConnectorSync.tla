---------------------------- MODULE ConnectorSync ----------------------------
(***************************************************************************)
(* The attendance connector between the K40 device and the cloud           *)
(* (attendance-connector/src/connector.ts, with cloud.ts and the cloud's   *)
(* ingest handler).                                                        *)
(*                                                                         *)
(* Two loops share the queue of ConnectorQueue in one process.  The fetch  *)
(* loop reads the whole device log and enqueues it; in clear mode it also  *)
(* empties the device log once every record is confirmed.  The sync loop   *)
(* sends the oldest pending batch and interprets the answer.  Every await  *)
(* is a point where the other loop, the device and the cloud may move.     *)
(* A request whose answer the connector gave up on may still be executed.  *)
(***************************************************************************)
EXTENDS ConnectorQueue, FiniteSets

CONSTANTS
    BatchSize,     \* events per ingest request (batchSize)
    IsolateRuns,   \* one-by-one requests before batching again (50)
    ClearMode,     \* clearDeviceLogsAfterSync
    Poison,        \* events whose request the cloud refuses with a 4xx
    OutOfRange     \* punches whose time the cloud does not accept

ASSUME SyncAssumption ==
    /\ BatchSize \in Nat \ {0}
    /\ IsolateRuns \in Nat \ {0}
    /\ ClearMode \in BOOLEAN
    /\ Poison \subseteq Ids
    /\ OutOfRange \subseteq Ids

VARIABLES
    punched,      \* punches made so far
    device,       \* the device's own log
    fetch,        \* where the fetch loop stands
    seen,         \* what its last read returned
    sync,         \* where the sync loop stands
    batch,        \* events of the request it is waiting for
    todo,         \* those the cloud has not handled yet
    res,          \* the result the cloud gave to each
    isolate,      \* sending one by one after a client error
    singles,      \* one-by-one requests that went well
    authBlocked,  \* backing off after a 401 or 403
    late,         \* events of abandoned requests the cloud may still handle
    cloud         \* the attendance log row of each event

fetchVars == <<fetch, seen>>
requestVars == <<sync, batch, todo, res>>
loopVars == <<isolate, singles, authBlocked>>
deviceVars == <<punched, device>>
cloudVars == <<late, cloud>>
vars == <<queueVars, fetchVars, requestVars, loopVars, deviceVars, cloudVars>>

Results == {"none", "accepted", "duplicate", "rejected"}
NoResults == [i \in Ids |-> "none"]

TypeOK ==
    /\ QueueTypeOK
    /\ punched \in SUBSET Ids
    /\ device \in SUBSET Ids
    /\ fetch \in {"idle", "afterRead", "clearing", "read"}
    /\ seen \in SUBSET Ids
    /\ sync \in {"idle", "waiting"}
    /\ batch \in SUBSET Ids
    /\ todo \in SUBSET Ids
    /\ res \in [Ids -> Results]
    /\ isolate \in BOOLEAN
    /\ singles \in Nat
    /\ authBlocked \in BOOLEAN
    /\ late \in SUBSET Ids
    /\ cloud \in [Ids -> {"none", "accepted", "rejected"}]

Init ==
    /\ QueueInit
    /\ punched = {}
    /\ device = {}
    /\ fetch = "idle"
    /\ seen = {}
    /\ sync = "idle"
    /\ batch = {}
    /\ todo = {}
    /\ res = NoResults
    /\ isolate = FALSE
    /\ singles = 0
    /\ authBlocked = FALSE
    /\ late = {}
    /\ cloud = [i \in Ids |-> "none"]

---------------------------------------------------------------------------
(* The device and the process. *)

(* A person punches; the device is disabled while clear mode looks at it. *)
Punch(i) ==
    /\ i \notin punched
    /\ fetch \notin {"afterRead", "clearing"}
    /\ punched' = punched \cup {i}
    /\ device' = device \cup {i}
    /\ UNCHANGED <<queueVars, fetchVars, requestVars, loopVars, cloudVars>>

(* What a dead process leaves behind: a request still on its way. *)
Abandon ==
    /\ fetch' = "idle"
    /\ seen' = {}
    /\ sync' = "idle"
    /\ batch' = {}
    /\ todo' = {}
    /\ res' = NoResults
    /\ isolate' = FALSE
    /\ singles' = 0
    /\ authBlocked' = FALSE
    /\ late' = IF batch \cap Poison = {} THEN late \cup todo ELSE late
    /\ UNCHANGED <<deviceVars, cloud>>

Start ==
    /\ Open
    /\ UNCHANGED <<fetchVars, requestVars, loopVars, deviceVars, cloudVars>>

Die == Crash /\ Abandon

(* `connector retry-failed`, run while the service is stopped. *)
RetryFailed ==
    /\ ~up
    /\ \E ok \in Outcomes :
         disk' = IF ok THEN SetTo(Recovered(disk), InState(disk, "failed"), "pending")
                 ELSE Recovered(disk)
    /\ UNCHANGED <<mem, up, fetchVars, requestVars, loopVars, deviceVars, cloudVars>>

---------------------------------------------------------------------------
(* Fetch loop. *)

(* The read returns the whole log, or a truncated part of it. *)
FetchRead(S) ==
    /\ up
    /\ fetch = "idle"
    /\ S \subseteq device
    /\ seen' = S
    /\ fetch' = IF ClearMode /\ S # {} /\ S = device THEN "afterRead" ELSE "read"
    /\ UNCHANGED <<queueVars, requestVars, loopVars, deviceVars, cloudVars>>

(* Mutant: queued is taken for confirmed. *)
ClearableWhenQueued == NewOf(seen) = {}

(* Nothing new was read and the cloud confirmed all of it. *)
Clearable == NewOf(seen) = {} /\ seen \subseteq Synced(mem)

(* Mutant: the device is cleared before anything is queued. *)
FetchClearFirst(ok) ==
    /\ up
    /\ fetch = "afterRead"
    /\ fetch' = "clearing"
    /\ UNCHANGED <<queueVars, seen, requestVars, loopVars, deviceVars, cloudVars>>

(* afterRead: enqueue first, then decide about clearing; a throw ends the *)
(* cycle as a failed fetch.                                               *)
FetchAfterRead(ok) ==
    /\ up
    /\ fetch = "afterRead"
    /\ Enqueue(seen, ok)
    /\ fetch' = IF ~ok THEN "idle" ELSE IF Clearable THEN "clearing" ELSE "read"
    /\ UNCHANGED <<seen, requestVars, loopVars, deviceVars, cloudVars>>

(* clearAttendance(): the device may do it whether or not its answer comes. *)
FetchClear ==
    /\ up
    /\ fetch = "clearing"
    /\ device' \in {device, {}}
    /\ fetch' = "idle"
    /\ UNCHANGED <<queueVars, seen, requestVars, loopVars, punched, cloudVars>>

FetchStore(ok) ==
    /\ up
    /\ fetch = "read"
    /\ Enqueue(seen, ok)
    /\ fetch' = "idle"
    /\ UNCHANGED <<seen, requestVars, loopVars, deviceVars, cloudVars>>

DieInFetch ==
    /\ fetch \in {"afterRead", "read"}
    /\ CrashInEnqueue(seen)
    /\ Abandon

(* maybePrune(), at the end of a cycle. *)
FetchPrune ==
    /\ up
    /\ fetch = "idle"
    /\ \E S \in SUBSET Ids, F \in SUBSET Ids, end \in PruneEnds : Prune(S, F, end)
    /\ UNCHANGED <<fetchVars, requestVars, loopVars, deviceVars, cloudVars>>

---------------------------------------------------------------------------
(* Sync loop. *)

(* peekPending(): the n oldest of S. *)
Oldest(S, n) == {i \in S : Cardinality({j \in S : j < i}) < n}

SyncSend(ok) ==
    /\ up
    /\ sync = "idle"
    /\ ~authBlocked
    /\ InState(mem, "pending") # {}
    /\ LET B == Oldest(InState(mem, "pending"), IF isolate THEN 1 ELSE BatchSize)
       IN /\ SetState(B, "syncing", ok)
          /\ IF ok THEN /\ sync' = "waiting"
                        /\ batch' = B
                        /\ todo' = B
                   ELSE UNCHANGED <<sync, batch, todo>>
    /\ UNCHANGED <<fetchVars, res, loopVars, deviceVars, cloudVars>>

(* The request is over, whatever its end. *)
EndRequest ==
    /\ sync' = "idle"
    /\ batch' = {}
    /\ todo' = {}
    /\ res' = NoResults

Rejected == {i \in batch : res[i] = "rejected"}
Confirmed == {i \in batch : res[i] \in {"accepted", "duplicate"}}

(* sendBatch() with a result for every event: each rejected event is       *)
(* marked, one write each, then the confirmed ones in one write.  A write  *)
(* that throws leaves the ones after it undone.  The release of events the *)
(* answer does not mention is left out: ingest() answers every event.      *)
MarkAnswered ==
    \/ /\ mem' = SetTo(SetTo(mem, Rejected, "failed"), Confirmed, "synced")
       /\ disk' = SetTo(SetTo(disk, Rejected, "failed"), Confirmed, "synced")
       /\ LET back == isolate /\ singles + 1 >= IsolateRuns
          IN /\ isolate' = (isolate /\ ~back)
             /\ singles' = IF back THEN 0 ELSE IF isolate THEN singles + 1 ELSE singles
    \/ /\ DiskFaults
       /\ \/ \E r \in Rejected :
               /\ mem' = SetTo(mem, {x \in Rejected : x <= r}, "failed")
               /\ disk' = SetTo(disk, {x \in Rejected : x < r}, "failed")
          \/ /\ Confirmed # {}
             /\ mem' = SetTo(SetTo(mem, Rejected, "failed"), Confirmed, "synced")
             /\ disk' = SetTo(disk, Rejected, "failed")
       /\ UNCHANGED <<isolate, singles>>

SyncAnswered ==
    /\ sync = "waiting"
    /\ todo = {}
    /\ MarkAnswered
    /\ EndRequest
    /\ UNCHANGED <<up, fetchVars, authBlocked, deviceVars, cloudVars>>

(* Mutant: the batch is not released. *)
SyncUnreachableKept(ok) ==
    /\ sync = "waiting"
    /\ ok
    /\ EndRequest
    /\ UNCHANGED <<queueVars, fetchVars, loopVars, deviceVars, cloudVars>>

(* No answer, a timeout, a 5xx or a 429: the batch is released.  What the  *)
(* cloud had not handled yet may be dropped, or still be handled later.    *)
SyncUnreachable(ok) ==
    /\ sync = "waiting"
    /\ SetState(batch, "pending", ok)
    /\ late' \in {late, IF batch \cap Poison = {} THEN late \cup todo ELSE late}
    /\ EndRequest
    /\ UNCHANGED <<fetchVars, loopVars, deviceVars, cloud>>

(* 401 or 403 *)
SyncAuthRefused(ok) ==
    /\ sync = "waiting"
    /\ todo = batch
    /\ SetState(batch, "pending", ok)
    /\ authBlocked' = (authBlocked \/ ok)
    /\ EndRequest
    /\ UNCHANGED <<fetchVars, isolate, singles, deviceVars, cloudVars>>

Single == \E i \in Ids : batch = {i}

(* Mutants: the whole batch pays for one event; it is never split. *)
SyncFailedBatch(ok) ==
    /\ sync = "waiting"
    /\ batch \cap Poison # {}
    /\ ~Single
    /\ SetState(batch, "failed", ok)
    /\ EndRequest
    /\ UNCHANGED <<fetchVars, loopVars, deviceVars, cloudVars>>

SyncReleasedBatch(ok) ==
    /\ sync = "waiting"
    /\ batch \cap Poison # {}
    /\ ~Single
    /\ SetState(batch, "pending", ok)
    /\ EndRequest
    /\ UNCHANGED <<fetchVars, loopVars, deviceVars, cloudVars>>

(* Another 4xx for a batch: release it and go one by one. *)
SyncRefusedBatch(ok) ==
    /\ sync = "waiting"
    /\ batch \cap Poison # {}
    /\ ~Single
    /\ SetState(batch, "pending", ok)
    /\ isolate' = (isolate \/ ok)
    /\ singles' = IF ok THEN 0 ELSE singles
    /\ EndRequest
    /\ UNCHANGED <<fetchVars, authBlocked, deviceVars, cloudVars>>

(* ... for a single event: release it, then mark it failed. *)
SyncRefusedSingle ==
    /\ sync = "waiting"
    /\ batch \cap Poison # {}
    /\ Single
    /\ \/ /\ mem' = SetTo(mem, batch, "failed")
          /\ disk' = SetTo(disk, batch, "failed")
          /\ isolate' = FALSE
          /\ singles' = 0
       \/ /\ DiskFaults
          /\ \/ /\ mem' = SetTo(mem, batch, "pending")
                /\ disk' = disk
             \/ /\ mem' = SetTo(mem, batch, "failed")
                /\ disk' = SetTo(disk, batch, "pending")
          /\ UNCHANGED <<isolate, singles>>
    /\ EndRequest
    /\ UNCHANGED <<up, fetchVars, authBlocked, deviceVars, cloudVars>>

(* blockAuth() by a heartbeat or a config fetch. *)
OtherAuthRefused ==
    /\ up
    /\ authBlocked' = TRUE
    /\ UNCHANGED <<queueVars, fetchVars, requestVars, isolate, singles, deviceVars, cloudVars>>

AuthExpires ==
    /\ authBlocked
    /\ authBlocked' = FALSE
    /\ UNCHANGED <<queueVars, fetchVars, requestVars, isolate, singles, deviceVars, cloudVars>>

---------------------------------------------------------------------------
(* Cloud ingest: one transaction per event, in the order of the request.   *)

(* An event the connector sends has an id, a person and a time: ingest()'s *)
(* answer to a malformed one, rejected without a row, is left out.         *)
RowFor(i) == IF i \in OutOfRange THEN "rejected" ELSE "accepted"

StoreEvent(i) ==
    cloud' = [cloud EXCEPT ![i] = IF @ = "none" THEN RowFor(i) ELSE @]

CloudIngest(i) ==
    /\ i \in todo
    /\ \A j \in todo : i <= j
    /\ batch \cap Poison = {}
    /\ StoreEvent(i)
    /\ res' = [res EXCEPT ![i] = IF cloud[i] = "none" THEN RowFor(i) ELSE "duplicate"]
    /\ todo' = todo \ {i}
    /\ UNCHANGED <<queueVars, fetchVars, sync, batch, loopVars, deviceVars, late>>

CloudLate(i) ==
    /\ i \in late
    /\ StoreEvent(i)
    /\ late' = late \ {i}
    /\ UNCHANGED <<queueVars, fetchVars, requestVars, loopVars, deviceVars>>

---------------------------------------------------------------------------
FetchNext ==
    \/ \E S \in SUBSET device : FetchRead(S)
    \/ FetchClear
    \/ DieInFetch
    \/ FetchPrune
    \/ \E ok \in Outcomes : FetchAfterRead(ok) \/ FetchStore(ok)

SyncNext ==
    \/ SyncAnswered
    \/ SyncRefusedSingle
    \/ \E ok \in Outcomes :
         \/ SyncSend(ok)
         \/ SyncUnreachable(ok)
         \/ SyncAuthRefused(ok)
         \/ SyncRefusedBatch(ok)

CloudNext == \E i \in Ids : CloudIngest(i) \/ CloudLate(i)

Next ==
    \/ \E i \in Ids : Punch(i)
    \/ Start
    \/ Die
    \/ RetryFailed
    \/ FetchNext
    \/ SyncNext
    \/ CloudNext
    \/ OtherAuthRefused
    \/ AuthExpires

Spec == Init /\ [][Next]_vars

---------------------------------------------------------------------------
(* Safety. *)

(* connector.ts sendBatch, queue.ts prune: whatever the queue holds as     *)
(* confirmed, in memory or in the log, pruned or not, has a row in the     *)
(* cloud, although answers get lost and abandoned requests run late.       *)
ConfirmedIsStored ==
    \A i \in Ids :
        i \in InState(mem, "synced") \cup mem.dedupe
              \cup InState(disk, "synced") \cup disk.dedupe
        => cloud[i] # "none"

(* connector.ts syncLoop: an event is set aside as failed only when the    *)
(* cloud refused that very event, never for a neighbour in its batch.      *)
FailedIsRefused ==
    \A i \in InState(mem, "failed") \cup InState(disk, "failed") :
        i \in Poison \/ cloud[i] = "rejected"

(* connector.ts sendBatch: an entry is `syncing` exactly while its request *)
(* is outstanding.  peekPending never looks at `syncing`, so an entry left *)
(* in that state would wait for the next restart.                          *)
SyncingIsInFlight ==
    (up /\ ~DiskFaults) => InState(mem, "syncing") = batch

(* README.md:11 "stores every new punch in a crash-safe local queue first, *)
(* then uploads": no request carries an event the log does not have.       *)
StoredBeforeUpload == batch \subseteq Queued(disk)

(* connector.ts afterRead: clearing the device log discards only punches   *)
(* the cloud has, although answers, restarts and the sync loop interleave. *)
ClearedOnlyWhenStored ==
    [][\A i \in device \ device' : cloud[i] # "none"]_vars

(* queue.ts prune, compact, load: an entry leaves the log only when the    *)
(* cloud has it, so a power cut never costs a punch that was queued.       *)
LogKeepsUntilStored ==
    [][\A i \in Queued(disk) \ Queued(disk') : cloud[i] # "none"]_vars

(* A punch is in the cloud, or still held by the device or by the log.     *)
Where ==
    [i \in Ids |-> IF cloud[i] # "none" THEN "stored"
                   ELSE IF i \in device \cup Queued(disk) THEN "held"
                   ELSE IF i \in punched THEN "lost"
                   ELSE "unmade"]

(* The whole pipeline, crashes and lost answers included, is the delivery  *)
(* service of PunchDelivery: no punch is lost, none is stored twice.       *)
Delivery == INSTANCE PunchDelivery WITH at <- Where
ImplementsDelivery == Delivery!Spec

---------------------------------------------------------------------------
(* The inductive invariant behind the safety properties.                   *)

(* A punch is with the device, in the log or in the cloud. *)
NoPunchLost ==
    \A i \in punched : i \in device \cup Queued(disk) \/ cloud[i] # "none"

(* A result in hand speaks of a row that exists. *)
AnswersAreStored ==
    \A i \in Ids :
        /\ res[i] # "none" => cloud[i] # "none"
        /\ res[i] = "rejected" => cloud[i] = "rejected"

(* From the read to the clear the device log stays what was read, and the  *)
(* clear is only on its way when all of it is stored.                      *)
ClearingIsSafe ==
    /\ fetch = "afterRead" => seen = device
    /\ fetch = "clearing" => \A i \in device : cloud[i] # "none"

(* What the log has and the process forgot is stored. *)
ForgottenIsStored ==
    up => \A i \in Queued(disk) \ Queued(mem) : cloud[i] # "none"

(* Nothing is invented. *)
OnlyPunched ==
    /\ device \cup seen \cup batch \cup todo \cup late \subseteq punched
    /\ Queued(mem) \cup Queued(disk) \subseteq punched
    /\ \A i \in Ids : cloud[i] # "none" => i \in punched

IInv ==
    /\ TypeOK
    /\ ConfirmedIsStored
    /\ FailedIsRefused
    /\ NoPunchLost
    /\ AnswersAreStored
    /\ ClearingIsSafe
    /\ ForgottenIsStored
    /\ OnlyPunched

(* Without disk faults the queue and the sync loop agree exactly: the log  *)
(* is the memory, `syncing` is the request in flight, and every event of   *)
(* the request is waiting for its result or has it.                        *)
LoopsAgree ==
    ~DiskFaults =>
        /\ up => mem = disk /\ InState(mem, "syncing") = batch
        /\ ~up \/ sync = "idle" => batch = {}
        /\ batch \subseteq todo \cup {i \in Ids : res[i] # "none"}

---------------------------------------------------------------------------
(* Fairness: the process is restarted (run.cmd), its loops run, and the    *)
(* device and the cloud answer again and again, however often they fail.   *)
FetchAll == FetchRead(device)
Fairness ==
    /\ WF_vars(Start)
    /\ WF_vars(AuthExpires)
    /\ SF_vars(FetchAll)
    /\ WF_vars(FetchAfterRead(TRUE))
    /\ WF_vars(FetchClear)
    /\ WF_vars(FetchStore(TRUE))
    /\ SF_vars(SyncSend(TRUE))
    /\ SF_vars(SyncAnswered)
    /\ SF_vars(SyncRefusedBatch(TRUE))
    /\ SF_vars(SyncRefusedSingle)
    /\ \A i \in Ids : SF_vars(CloudIngest(i))

FairSpec == Spec /\ Fairness

(* Crashes come to an end: the process is not killed for ever and ever.    *)
StaysUp == <>[]up

(* Every punch whose request the cloud does not refuse reaches the cloud,  *)
(* even when a refused one sits in front of it (syncLoop isolation).       *)
EventuallyStored ==
    StaysUp => \A i \in Ids \ Poison : i \in punched ~> cloud[i] # "none"

(* The connector learns the fate of every punch: it ends up confirmed or   *)
(* set aside in the log, never released and sent for ever.                 *)
EventuallySettled ==
    StaysUp => \A i \in Ids : i \in punched ~> i \in Synced(disk) \cup InState(disk, "failed")
=============================================================================
