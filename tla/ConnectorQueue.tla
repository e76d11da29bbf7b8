--------------------------- MODULE ConnectorQueue ---------------------------
(***************************************************************************)
(* The durable punch queue of the attendance connector                     *)
(* (attendance-connector/src/queue.ts, class EventQueue).                  *)
(*                                                                         *)
(* The queue keeps two copies of the same information: the maps `entries`  *)
(* and `dedupe` in memory, and the write-ahead log queue.jsonl.  The log   *)
(* is represented by its meaning: the image that replaying it would give.  *)
(* Every mutation is applied to the memory first and appended to the log   *)
(* second, in one synchronous call, and the append may throw (a full disk) *)
(* after the memory has changed.  ConnectorSync drives the queue.          *)
(***************************************************************************)
EXTENDS Naturals

CONSTANTS
    Ids,         \* punch event ids, numbered in punch-time order
    DiskFaults   \* TRUE: an append or a compaction may throw

ASSUME IdsAssumption == Ids \subseteq Nat
ASSUME DiskFaultsAssumption == DiskFaults \in BOOLEAN

VARIABLES
    mem,   \* the maps of the running process (Empty while it is down)
    disk,  \* the image of queue.jsonl
    up     \* a connector process has the queue open

queueVars == <<mem, disk, up>>

States == {"pending", "syncing", "synced", "failed"}
Image == [entry : [Ids -> States \cup {"none"}], dedupe : SUBSET Ids]
Empty == [entry |-> [i \in Ids |-> "none"], dedupe |-> {}]

QueueTypeOK ==
    /\ mem \in Image
    /\ disk \in Image
    /\ up \in BOOLEAN

---------------------------------------------------------------------------
(* Queries. *)

Queued(img) == {i \in Ids : img.entry[i] # "none"}
InState(img, st) == {i \in Ids : img.entry[i] = st}

(* has(): queued in any state, or remembered in the dedupe index. *)
Has(img) == Queued(img) \cup img.dedupe

(* isSynced(): an entry answers for itself, the index for the pruned ones. *)
Synced(img) == InState(img, "synced") \cup (img.dedupe \ Queued(img))

---------------------------------------------------------------------------
(* The log records, as the change each makes to an image (apply()). *)

Put(img, S) ==
    [img EXCEPT !.entry = [i \in Ids |-> IF i \in S THEN "pending" ELSE img.entry[i]]]

(* A `set` of an id that is not an entry is ignored. *)
SetTo(img, S, st) ==
    [img EXCEPT !.entry = [i \in Ids |-> IF i \in S \cap Queued(img) THEN st
                                         ELSE img.entry[i]]]

Pruned(img, S) ==
    [entry  |-> [i \in Ids |-> IF i \in S THEN "none" ELSE img.entry[i]],
     dedupe |-> img.dedupe \cup S]

Forgotten(img, F) == [img EXCEPT !.dedupe = @ \ F]

(* Mutant: what was being sent is trusted to have arrived. *)
RecoveredAsSynced(img) == SetTo(img, InState(img, "syncing"), "synced")

(* load(): what was being sent when the process died is pending again. *)
Recovered(img) == SetTo(img, InState(img, "syncing"), "pending")

---------------------------------------------------------------------------
(* How a write to the log can end. *)

Outcomes == IF DiskFaults THEN BOOLEAN ELSE {TRUE}

(* Mutant: the memory changes and nothing is appended. *)
WrittenMemoryOnly(newMem, newDisk, ok) ==
    /\ mem' = newMem
    /\ UNCHANGED <<disk, up>>

(* apply() then append(): when the append throws only the memory changed. *)
Written(newMem, newDisk, ok) ==
    /\ mem' = newMem
    /\ disk' = IF ok THEN newDisk ELSE disk
    /\ UNCHANGED up

---------------------------------------------------------------------------
(* Operations.  `ok` is FALSE when the call throws. *)

(* open() of a queue nobody holds; replay, recovery and repair of the tail. *)
Open ==
    /\ ~up
    /\ up' = TRUE
    /\ mem' = Recovered(disk)
    /\ disk' = Recovered(disk)

(* The process dies, or stops: only the log survives. *)
Crash ==
    /\ up
    /\ up' = FALSE
    /\ mem' = Empty
    /\ UNCHANGED disk

NewOf(S) == S \ Has(mem)

Enqueue(S, ok) ==
    /\ NewOf(S) = {} => ok
    /\ Written(Put(mem, NewOf(S)), Put(disk, NewOf(S)), ok)

(* The process dies while the batch of `put` lines is being written: any   *)
(* part of them may have reached the log.                                  *)
CrashInEnqueue(S) ==
    /\ up
    /\ up' = FALSE
    /\ mem' = Empty
    /\ \E T \in SUBSET NewOf(S) : disk' = Put(disk, T)

(* setState(): markSyncing, markSynced, markFailed, release, retryFailed. *)
SetState(S, st, ok) ==
    /\ S \cap Queued(mem) = {} => ok
    /\ Written(SetTo(mem, S, st), SetTo(disk, S \cap Queued(mem), st), ok)

(* prune(): old synced entries S move to the index, old ids F are then     *)
(* forgotten from it and the log is rewritten from memory.  `end` says     *)
(* which write threw, if any; with nothing forgotten the rewrite happens   *)
(* only when the log has grown.                                            *)
PruneEnds == IF DiskFaults THEN {"ok", "compacted", "appendThrew", "compactThrew"}
             ELSE {"ok", "compacted"}

(* Mutant: entries are pruned by age alone. *)
PruneByAge(S, F, end) ==
    /\ end = "ok"
    /\ F = {}
    /\ S \subseteq Queued(mem)
    /\ Written(Pruned(mem, S), Pruned(disk, S), TRUE)

Prune(S, F, end) ==
    /\ S \subseteq InState(mem, "synced")
    /\ IF end = "appendThrew"
       THEN /\ S # {}
            /\ F = {}
            /\ mem' = Pruned(mem, S)
            /\ UNCHANGED disk
       ELSE /\ F \subseteq Pruned(mem, S).dedupe
            /\ F # {} => end # "ok"
            /\ mem' = Forgotten(Pruned(mem, S), F)
            /\ disk' = IF end = "compacted" THEN Forgotten(Pruned(mem, S), F)
                       ELSE Pruned(disk, S)
    /\ UNCHANGED up

---------------------------------------------------------------------------
(* No log yet, and no process. *)
QueueInit ==
    /\ mem = Empty
    /\ disk = Empty
    /\ up = FALSE
=============================================================================
