---------------------------- MODULE AutoAbsentGate ----------------------------
(***************************************************************************)
(* When the auto-absent job may run (backend attendance-device-jobs.       *)
(* service.ts), seen together with what its gate relies on: the fetch      *)
(* cycle, queue and heartbeats of each connector (connector.ts, queue.ts)  *)
(* and the heartbeat and ingest handlers of the cloud.                     *)
(*                                                                         *)
(* After the cutoff the job waits until every device is settled: its       *)
(* connector has read the K40 after the cutoff and reported an empty       *)
(* queue.  At the deadline it runs anyway.  Only punches made before the   *)
(* cutoff matter, and between cutoff and deadline one instant is like the  *)
(* other, so the clock has three values, and a contact is before or after  *)
(* the cutoff.  The queue length a heartbeat reports is only compared with *)
(* zero.  What happens after the job has listed its people is modelled by  *)
(* AttendanceDay.                                                          *)
(***************************************************************************)
EXTENDS Naturals

CONSTANTS
    Devices,    \* devices of the madrasa, one connector each
    Punches,    \* punches that may be made before the cutoff
    Device,     \* the device of each punch
    Poison,     \* punches whose request the cloud refuses with a 4xx
    None        \* no read, no heartbeat, no contact

ASSUME GateAssumption ==
    /\ Device \in [Punches -> Devices]
    /\ Poison \subseteq Punches
    /\ None \notin {"before", "after"}
    /\ \A S \in SUBSET Punches : S # None

Cutoff == 1
Deadline == 2    \* cutoff + autoAbsentMaxWaitMinutes
Clock == 0..Deadline

VARIABLES
    now,        \* the clock
    made,       \* punches made, all on their devices
    up,         \* connectors running
    reading,    \* what the read in progress will return, or None
    contact,    \* lastContactIso of each connector, or None
    mem,        \* queue in memory: pending and syncing punches
    saved,      \* punches waiting in the queue according to its log
    confirmed,  \* punches filed as synced, in memory and log
    refused,    \* punches set aside as failed after a client error
    stored,     \* punches in the cloud
    beat,       \* the heartbeat on its way, or None
    old,        \* heartbeats given up that may still arrive
    cloud,      \* the device row: seen lately, contact, queue_pending = 0
    job,        \* the auto-absent pass of the day
    absent,     \* punches whose person it finds without a row
    past        \* history: see PastInit

queueVars == <<mem, saved, confirmed, refused, stored>>
beatVars == <<beat, old, cloud>>
jobVars == <<job, absent>>
vars == <<now, made, up, reading, contact, queueVars, beatVars, jobVars, past>>

Contacts == {"before", "after"}
Beats == [contact : Contacts \cup {None}, empty : BOOLEAN]
Of(d) == {p \in Punches : Device[p] = d}

(* What the gate cannot know: punches a read after the cutoff did not      *)
(* return; punches that were only in a queue's memory when its process     *)
(* died; devices one of whose heartbeats was overtaken by a later one;     *)
(* devices not seen lately; whether the deadline was reached.              *)
Past == [missed : SUBSET Punches, torn : SUBSET Punches,
         overtaken : SUBSET Devices, unseen : SUBSET Devices, forced : BOOLEAN]
PastInit == [missed |-> {}, torn |-> {}, overtaken |-> {}, unseen |-> {}, forced |-> FALSE]

TypeOK ==
    /\ now \in Clock
    /\ made \in SUBSET Punches
    /\ up \in SUBSET Devices
    /\ reading \in [Devices -> (SUBSET Punches) \cup {None}]
    /\ contact \in [Devices -> Contacts \cup {None}]
    /\ mem \in SUBSET Punches
    /\ saved \in SUBSET Punches
    /\ confirmed \in SUBSET Punches
    /\ refused \in SUBSET Punches
    /\ stored \in SUBSET Punches
    /\ beat \in [Devices -> Beats \cup {None}]
    /\ old \in [Devices -> Beats \cup {None}]
    /\ cloud \in [Devices -> [seen : BOOLEAN, contact : Contacts, empty : BOOLEAN]]
    /\ job \in {"waiting", "done"}
    /\ absent \in SUBSET Punches
    /\ past \in Past

(* The day begins with empty queues; yesterday's contact is before the     *)
(* cutoff like any contact of this morning.                                *)
Init ==
    /\ now = 0
    /\ made = {}
    /\ up = {}
    /\ reading = [d \in Devices |-> None]
    /\ contact = [d \in Devices |-> None]
    /\ mem = {} /\ saved = {} /\ confirmed = {} /\ refused = {} /\ stored = {}
    /\ beat = [d \in Devices |-> None]
    /\ old = [d \in Devices |-> None]
    /\ cloud \in [Devices -> [seen : BOOLEAN, contact : {"before"}, empty : {TRUE}]]
    /\ job = "waiting"
    /\ absent = {}
    /\ past = PastInit

Tick ==
    /\ now < Deadline
    /\ now' = now + 1
    /\ UNCHANGED <<made, up, reading, contact, queueVars, beatVars, jobVars, past>>

Punch(p) ==
    /\ now < Cutoff
    /\ p \notin made
    /\ made' = made \cup {p}
    /\ UNCHANGED <<now, up, reading, contact, queueVars, beatVars, jobVars, past>>

---------------------------------------------------------------------------
(* The connector. *)

(* load(): the queue is what the log says. *)
Start(d) ==
    /\ d \notin up
    /\ up' = up \cup {d}
    /\ mem' = mem \cup (saved \cap Of(d))
    /\ UNCHANGED <<now, made, reading, contact, saved, confirmed, refused, stored, beatVars, jobVars, past>>

Crash(d) ==
    /\ d \in up
    /\ up' = up \ {d}
    /\ reading' = [reading EXCEPT ![d] = None]
    /\ contact' = [contact EXCEPT ![d] = None]
    /\ mem' = mem \ Of(d)
    /\ past' = [past EXCEPT !.torn = @ \cup ((mem \cap Of(d)) \ saved)]
    /\ beat' = [beat EXCEPT ![d] = None]
    /\ old' = [old EXCEPT ![d] = IF beat[d] = None THEN @ ELSE beat[d]]
    /\ UNCHANGED <<now, made, saved, confirmed, refused, stored, cloud, jobVars>>

(* readDevicePunches(): the device answers with its log, or part of it. *)
StartRead(d) ==
    /\ d \in up
    /\ reading[d] = None
    /\ \E got \in SUBSET (made \cap Of(d)) : reading' = [reading EXCEPT ![d] = got]
    /\ UNCHANGED <<now, made, up, contact, queueVars, beatVars, jobVars, past>>

ReadFails(d) ==
    /\ reading[d] # None
    /\ reading' = [reading EXCEPT ![d] = None]
    /\ UNCHANGED <<now, made, up, contact, queueVars, beatVars, jobVars, past>>

(* fetchFromDevice() after the read: the contact is stamped, then the new  *)
(* punches are queued; the write to the log may throw once they are in     *)
(* memory.                                                                 *)
EndRead(d) ==
    LET new == reading[d] \ (mem \cup confirmed \cup refused)
    IN /\ reading[d] # None
       /\ reading' = [reading EXCEPT ![d] = None]
       /\ contact' = [contact EXCEPT ![d] = IF now < Cutoff THEN "before" ELSE "after"]
       /\ mem' = mem \cup new
       /\ \/ saved' = saved \cup new
          \/ saved' = saved
       /\ past' = [past EXCEPT !.missed = IF now < Cutoff THEN @
                                          ELSE @ \cup ((made \cap Of(d)) \ reading[d])]
       /\ UNCHANGED <<now, made, up, confirmed, refused, stored, beatVars, jobVars>>

(* queue_pending = 0: no pending and no syncing event. *)
Empty(d) == mem \cap Of(d) = {}

(* sendHeartbeat(); one that timed out may still be executed. *)
SendBeat(d) ==
    /\ d \in up
    /\ beat' = [beat EXCEPT ![d] = [contact |-> contact[d], empty |-> Empty(d)]]
    /\ old' = [old EXCEPT ![d] = IF beat[d] = None THEN @ ELSE beat[d]]
    /\ UNCHANGED <<now, made, up, reading, contact, queueVars, cloud, jobVars, past>>

---------------------------------------------------------------------------
(* The cloud's handlers. *)

(* An event of a request of the sync loop; its answer comes later. *)
Store(p) ==
    /\ p \in mem \ Poison
    /\ stored' = stored \cup {p}
    /\ cloud' = [cloud EXCEPT ![Device[p]].seen = TRUE]
    /\ UNCHANGED <<now, made, up, reading, contact, mem, saved, confirmed, refused, beat, old, jobVars, past>>

Confirm(p) ==
    /\ p \in mem \cap stored
    /\ mem' = mem \ {p}
    /\ saved' = saved \ {p}
    /\ confirmed' = confirmed \cup {p}
    /\ UNCHANGED <<now, made, up, reading, contact, refused, stored, beatVars, jobVars, past>>

(* Client error for a request with this event alone: it is set aside. *)
Refuse(p) ==
    /\ p \in mem \cap Poison
    /\ mem' = mem \ {p}
    /\ saved' = saved \ {p}
    /\ refused' = refused \cup {p}
    /\ UNCHANGED <<now, made, up, reading, contact, confirmed, stored, beatVars, jobVars, past>>

(* heartbeat(): an omitted contact leaves the column unchanged. *)
Report(d, b) ==
    cloud' = [cloud EXCEPT ![d] = [seen |-> TRUE, empty |-> b.empty,
                                   contact |-> IF b.contact = None THEN @.contact ELSE b.contact]]

Heartbeat(d) ==
    /\ beat[d] # None
    /\ Report(d, beat[d])
    /\ beat' = [beat EXCEPT ![d] = None]
    /\ UNCHANGED <<now, made, up, reading, contact, queueVars, old, jobVars, past>>

LateHeartbeat(d) ==
    /\ old[d] # None
    /\ Report(d, old[d])
    /\ old' = [old EXCEPT ![d] = None]
    /\ past' = [past EXCEPT !.overtaken = @ \cup {d}]
    /\ UNCHANGED <<now, made, up, reading, contact, queueVars, beat, jobVars>>

---------------------------------------------------------------------------
(* The job. *)

(* Mutant: the contact alone settles a device. *)
SettledByContact(d) == cloud[d].contact = "after"

Settled(d) == cloud[d].contact = "after" /\ cloud[d].empty

(* Mutant: the pass waits for ever. *)
NeverForced == FALSE
TimeIsUp == now >= Deadline

(* unsettledDevices(): devices not seen lately do not hold the job back.   *)
(* The people without an attendance row are then marked.                   *)
GateOpens ==
    /\ now >= Cutoff
    /\ (\A d \in Devices : cloud[d].seen => Settled(d)) \/ TimeIsUp
    /\ job' = "done"
    /\ absent' = made \ stored
    /\ past' = [past EXCEPT !.forced = now >= Deadline,
                            !.unseen = {d \in Devices : ~cloud[d].seen}]
    /\ UNCHANGED <<now, made, up, reading, contact, queueVars, beatVars>>

(* The model ends with the mark: lastAutoAbsentDate closes the day. *)
Next ==
    /\ job = "waiting"
    /\ \/ Tick
       \/ \E p \in Punches : Punch(p) \/ Store(p) \/ Confirm(p) \/ Refuse(p)
       \/ \E d \in Devices : \/ Start(d) \/ Crash(d)
                             \/ StartRead(d) \/ ReadFails(d) \/ EndRead(d)
                             \/ SendBeat(d) \/ Heartbeat(d) \/ LateHeartbeat(d)
       \/ GateOpens

Spec == Init /\ [][Next]_vars

(* The clock runs and the job's timer fires. *)
FairSpec == Spec /\ WF_vars(Tick) /\ WF_vars(GateOpens)

---------------------------------------------------------------------------
(* jobs.service.ts:147 "so nobody who punched in gets an ABSENT row": a    *)
(* pass that runs before the deadline marks nobody whose punch was made    *)
(* before the cutoff on a device seen lately, although connectors crash    *)
(* and heartbeats get lost - except what the gate cannot know.             *)
AbsentOnlyWhenSynced ==
    ~past.forced =>
        \A p \in absent :
            \/ p \in refused \cup past.missed \cup past.torn
            \/ Device[p] \in past.overtaken \cup past.unseen

(* jobs.service.ts:149 "up to autoAbsentMaxWaitMinutes past the cutoff":   *)
(* the absent are marked in the end, whatever the devices do.              *)
EventuallyMarked == <>(job = "done")

---------------------------------------------------------------------------
(* The inductive invariant behind AbsentOnlyWhenSynced.                    *)

(* Every punch of the device is in a queue, in the cloud, or among what    *)
(* the gate cannot know; it has left the queues.                           *)
Unknowable == refused \cup past.missed \cup past.torn
Known(d) == made \cap Of(d) \subseteq mem \cup saved \cup stored \cup Unknowable
Delivered(d) == made \cap Of(d) \subseteq stored \cup Unknowable

(* What is confirmed is stored; a running connector has its log in memory. *)
QueuesAgree ==
    /\ confirmed \subseteq stored
    /\ \A d \in up : saved \cap Of(d) \subseteq mem

(* A contact after the cutoff, wherever it has got to, means that a read   *)
(* has been made when no more punches could be added.                      *)
After(b) == b # None /\ b.contact = "after"
ContactsAreReads ==
    \A d \in Devices :
        \/ contact[d] = "after" \/ After(beat[d]) \/ After(old[d]) \/ cloud[d].contact = "after"
        => now >= Cutoff /\ Known(d)

(* An empty queue reported by such a connector, or to a cloud that has its *)
(* contact, means that everything is delivered.                            *)
EmptyIsDelivered ==
    \A d \in Devices \ past.overtaken :
        \/ cloud[d].contact = "after" /\ cloud[d].empty
        \/ beat[d] # None /\ beat[d].empty /\ "after" \in {beat[d].contact, cloud[d].contact}
        => Delivered(d)

IInv ==
    /\ TypeOK
    /\ QueuesAgree
    /\ ContactsAreReads
    /\ EmptyIsDelivered
    /\ job = "waiting" => absent = {}
    /\ AbsentOnlyWhenSynced
=============================================================================
