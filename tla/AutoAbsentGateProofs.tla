------------------------- MODULE AutoAbsentGateProofs -------------------------
(***************************************************************************)
(* Proofs about AutoAbsentGate, for every set of devices and punches: the  *)
(* inductive invariant IInv, and from it type correctness and              *)
(* AbsentOnlyWhenSynced.  One lemma per action; each looks at the parts of *)
(* the invariant the action can disturb.                                   *)
(***************************************************************************)
EXTENDS AutoAbsentGate, TLAPS

LEMMA InitIInv == Init => IInv
<1> SUFFICES ASSUME Init PROVE IInv
  OBVIOUS
<1>1. TypeOK
  <2>1. cloud \in [Devices -> [seen : BOOLEAN, contact : Contacts, empty : BOOLEAN]]
    <3>1. \A d \in Devices : cloud[d] \in [seen : BOOLEAN, contact : {"before"}, empty : {TRUE}]
      BY DEF Init
    <3>2. \A d \in Devices : cloud[d] \in [seen : BOOLEAN, contact : Contacts, empty : BOOLEAN]
      BY <3>1 DEF Contacts
    <3> QED BY <3>2 DEF Init
  <2>2. past \in Past
    BY DEF Init, Past, PastInit
  <2> QED BY <2>1, <2>2 DEF Init, TypeOK, Clock, Deadline
<1>2. QueuesAgree /\ ContactsAreReads /\ EmptyIsDelivered
  BY GateAssumption DEF Init, QueuesAgree, ContactsAreReads, EmptyIsDelivered, After, Delivered
<1>3. (job = "waiting" => absent = {}) /\ AbsentOnlyWhenSynced
  BY DEF Init, AbsentOnlyWhenSynced
<1> QED BY <1>1, <1>2, <1>3 DEF IInv

(* The clock. *)
LEMMA TickStep ==
    ASSUME IInv, job = "waiting", Tick
    PROVE  IInv'
<1> USE DEF IInv, Tick, queueVars, beatVars, jobVars
<1>1. TypeOK'
  BY DEF TypeOK, Clock, Deadline, Of
<1>2. QueuesAgree'
  BY DEF QueuesAgree, TypeOK, Of
<1>3. ContactsAreReads'
  BY DEF ContactsAreReads, After, Known, Unknowable, TypeOK, Of, Cutoff, Deadline, Clock
<1>4. EmptyIsDelivered'
  BY DEF ContactsAreReads, EmptyIsDelivered, After, Known, Delivered, Unknowable, TypeOK,
       Of, Cutoff, Deadline, Clock
<1>5. (job = "waiting" => absent = {})' /\ AbsentOnlyWhenSynced'
  BY DEF AbsentOnlyWhenSynced
<1> QED BY <1>1, <1>2, <1>3, <1>4, <1>5

(* A punch comes before the cutoff, when nothing is settled yet. *)
LEMMA PunchStep ==
    ASSUME IInv, job = "waiting", NEW p \in Punches, Punch(p)
    PROVE  IInv'
<1> USE DEF IInv, Punch, queueVars, beatVars, jobVars
<1>1. TypeOK'
  BY DEF TypeOK, Clock, Deadline, Of
<1>2. QueuesAgree'
  BY DEF QueuesAgree, TypeOK, Of
<1>3. ContactsAreReads'
  BY DEF ContactsAreReads, After, Known, Unknowable, TypeOK, Of, Cutoff, Deadline, Clock
<1>4. EmptyIsDelivered'
  BY DEF ContactsAreReads, EmptyIsDelivered, After, Known, Delivered, Unknowable, TypeOK,
       Of, Cutoff, Deadline, Clock
<1>5. (job = "waiting" => absent = {})' /\ AbsentOnlyWhenSynced'
  BY DEF AbsentOnlyWhenSynced
<1> QED BY <1>1, <1>2, <1>3, <1>4, <1>5

(* A connector starts with the queue of its log. *)
LEMMA StartStep ==
    ASSUME IInv, job = "waiting", NEW d \in Devices, Start(d)
    PROVE  IInv'
<1> USE DEF IInv, Start, queueVars, beatVars, jobVars
<1>1. TypeOK'
  BY DEF TypeOK, Of
<1>2. QueuesAgree'
  BY DEF QueuesAgree, TypeOK, Of
<1>3. ContactsAreReads'
  BY DEF ContactsAreReads, After, Known, Unknowable, TypeOK, Of, QueuesAgree
<1>4. EmptyIsDelivered'
  BY DEF ContactsAreReads, EmptyIsDelivered, After, Known, Delivered, Unknowable, TypeOK,
       Of, QueuesAgree
<1>5. (job = "waiting" => absent = {})' /\ AbsentOnlyWhenSynced'
  BY DEF AbsentOnlyWhenSynced
<1> QED BY <1>1, <1>2, <1>3, <1>4, <1>5

(* What only the memory had is torn. *)
LEMMA CrashStep ==
    ASSUME IInv, job = "waiting", NEW d \in Devices, Crash(d)
    PROVE  IInv'
<1> USE DEF IInv, Crash, queueVars, beatVars, jobVars
<1>1. TypeOK'
  <2>1. past' \in Past
    BY DEF TypeOK, Past
  <2>2. old' \in [Devices -> Beats \cup {None}]
    BY DEF TypeOK
  <2> QED BY <2>1, <2>2 DEF TypeOK
<1>2. QueuesAgree'
  <2> SUFFICES ASSUME NEW e \in up \ {d} PROVE saved \cap Of(e) \subseteq mem \ Of(d)
    BY DEF QueuesAgree
  <2>1. Of(e) \cap Of(d) = {}
    BY DEF Of
  <2> QED BY <2>1 DEF QueuesAgree
<1>a. /\ mem \subseteq mem' \cup saved' \cup past'.torn
      /\ past'.missed = past.missed /\ past.torn \subseteq past'.torn
      /\ past'.overtaken = past.overtaken
  BY DEF TypeOK, Of
<1>b. \A e \in Devices : Known(e) => Known(e)'
  BY <1>a DEF Known, Unknowable
<1>c. \A e \in Devices : Delivered(e) => Delivered(e)'
  BY <1>a DEF Delivered, Unknowable
<1>3. ContactsAreReads'
  BY <1>b, GateAssumption DEF ContactsAreReads, After, TypeOK
<1>4. EmptyIsDelivered'
  BY <1>a, <1>c, GateAssumption DEF EmptyIsDelivered, TypeOK
<1>5. (job = "waiting" => absent = {})' /\ AbsentOnlyWhenSynced'
  BY DEF AbsentOnlyWhenSynced
<1> QED BY <1>1, <1>2, <1>3, <1>4, <1>5

(* A read begins. *)
LEMMA StartReadStep ==
    ASSUME IInv, job = "waiting", NEW d \in Devices, StartRead(d)
    PROVE  IInv'
<1> USE DEF IInv, StartRead, queueVars, beatVars, jobVars
<1>1. TypeOK'
  BY DEF TypeOK, Of
<1>2. QueuesAgree'
  BY DEF QueuesAgree, TypeOK, Of
<1>3. ContactsAreReads'
  BY DEF ContactsAreReads, After, Known, Unknowable, TypeOK, Of
<1>4. EmptyIsDelivered'
  BY DEF ContactsAreReads, EmptyIsDelivered, After, Known, Delivered, Unknowable, TypeOK, Of
<1>5. (job = "waiting" => absent = {})' /\ AbsentOnlyWhenSynced'
  BY DEF AbsentOnlyWhenSynced
<1> QED BY <1>1, <1>2, <1>3, <1>4, <1>5

(* A read fails. *)
LEMMA ReadFailsStep ==
    ASSUME IInv, job = "waiting", NEW d \in Devices, ReadFails(d)
    PROVE  IInv'
<1> USE DEF IInv, ReadFails, queueVars, beatVars, jobVars
<1>1. TypeOK'
  BY DEF TypeOK, Of
<1>2. QueuesAgree'
  BY DEF QueuesAgree, TypeOK, Of
<1>3. ContactsAreReads'
  BY DEF ContactsAreReads, After, Known, Unknowable, TypeOK, Of
<1>4. EmptyIsDelivered'
  BY DEF ContactsAreReads, EmptyIsDelivered, After, Known, Delivered, Unknowable, TypeOK, Of
<1>5. (job = "waiting" => absent = {})' /\ AbsentOnlyWhenSynced'
  BY DEF AbsentOnlyWhenSynced
<1> QED BY <1>1, <1>2, <1>3, <1>4, <1>5

(* A read ends: all its punches are known, or missed. *)
LEMMA EndReadStep ==
    ASSUME IInv, job = "waiting", NEW d \in Devices, EndRead(d)
    PROVE  IInv'
<1> USE DEF IInv, EndRead, queueVars, beatVars, jobVars
<1>1. TypeOK'
  BY DEF TypeOK, Clock, Deadline, Of, Past, Contacts, Beats
<1>2. QueuesAgree'
  BY DEF QueuesAgree, TypeOK, Of
<1>3. ContactsAreReads'
  BY DEF ContactsAreReads, After, Known, Unknowable, TypeOK, Of, QueuesAgree, Cutoff,
       Deadline, Clock
<1>4. EmptyIsDelivered'
  BY DEF ContactsAreReads, EmptyIsDelivered, After, Known, Delivered, Unknowable, TypeOK,
       Of, QueuesAgree, Cutoff, Deadline, Clock
<1>5. (job = "waiting" => absent = {})' /\ AbsentOnlyWhenSynced'
  BY DEF AbsentOnlyWhenSynced
<1> QED BY <1>1, <1>2, <1>3, <1>4, <1>5

(* A running connector with an empty queue has nothing in its log either. *)
LEMMA SendBeatStep ==
    ASSUME IInv, job = "waiting", NEW d \in Devices, SendBeat(d)
    PROVE  IInv'
<1> USE DEF IInv, SendBeat, queueVars, beatVars, jobVars
<1>1. TypeOK'
  BY DEF TypeOK, Of, Contacts, Beats, Empty
<1>2. QueuesAgree'
  BY DEF QueuesAgree, TypeOK, Of
<1>3. ContactsAreReads'
  BY DEF ContactsAreReads, After, Known, Unknowable, TypeOK, Of, QueuesAgree
<1>4. EmptyIsDelivered'
  BY DEF ContactsAreReads, EmptyIsDelivered, After, Known, Delivered, Unknowable, TypeOK,
       Of, QueuesAgree, Empty
<1>5. (job = "waiting" => absent = {})' /\ AbsentOnlyWhenSynced'
  BY DEF AbsentOnlyWhenSynced
<1> QED BY <1>1, <1>2, <1>3, <1>4, <1>5

(* The cloud stores a punch. *)
LEMMA StoreStep ==
    ASSUME IInv, job = "waiting", NEW p \in Punches, Store(p)
    PROVE  IInv'
<1> USE DEF IInv, Store, queueVars, beatVars, jobVars
<1>1. TypeOK'
  <2>1. cloud' \in [Devices -> [seen : BOOLEAN, contact : Contacts, empty : BOOLEAN]]
    BY DEF TypeOK
  <2> QED BY <2>1 DEF TypeOK
<1>2. QueuesAgree'
  BY DEF QueuesAgree, TypeOK, Of
<1>3. ContactsAreReads'
  BY DEF ContactsAreReads, After, Known, Unknowable, TypeOK, Of, QueuesAgree
<1>4. EmptyIsDelivered'
  BY DEF ContactsAreReads, EmptyIsDelivered, After, Known, Delivered, Unknowable, TypeOK,
       Of, QueuesAgree
<1>5. (job = "waiting" => absent = {})' /\ AbsentOnlyWhenSynced'
  BY DEF AbsentOnlyWhenSynced
<1> QED BY <1>1, <1>2, <1>3, <1>4, <1>5

(* A stored punch leaves the queue. *)
LEMMA ConfirmStep ==
    ASSUME IInv, job = "waiting", NEW p \in Punches, Confirm(p)
    PROVE  IInv'
<1> USE DEF IInv, Confirm, queueVars, beatVars, jobVars
<1>1. TypeOK'
  BY DEF TypeOK, Of
<1>2. QueuesAgree'
  BY DEF QueuesAgree, TypeOK, Of
<1>3. ContactsAreReads'
  BY DEF ContactsAreReads, After, Known, Unknowable, TypeOK, Of, QueuesAgree
<1>4. EmptyIsDelivered'
  BY DEF ContactsAreReads, EmptyIsDelivered, After, Known, Delivered, Unknowable, TypeOK,
       Of, QueuesAgree
<1>5. (job = "waiting" => absent = {})' /\ AbsentOnlyWhenSynced'
  BY DEF AbsentOnlyWhenSynced
<1> QED BY <1>1, <1>2, <1>3, <1>4, <1>5

(* A refused punch leaves the queue. *)
LEMMA RefuseStep ==
    ASSUME IInv, job = "waiting", NEW p \in Punches, Refuse(p)
    PROVE  IInv'
<1> USE DEF IInv, Refuse, queueVars, beatVars, jobVars
<1>1. TypeOK'
  BY DEF TypeOK, Of
<1>2. QueuesAgree'
  BY DEF QueuesAgree, TypeOK, Of
<1>3. ContactsAreReads'
  BY DEF ContactsAreReads, After, Known, Unknowable, TypeOK, Of, QueuesAgree
<1>4. EmptyIsDelivered'
  BY DEF ContactsAreReads, EmptyIsDelivered, After, Known, Delivered, Unknowable, TypeOK,
       Of, QueuesAgree
<1>5. (job = "waiting" => absent = {})' /\ AbsentOnlyWhenSynced'
  BY DEF AbsentOnlyWhenSynced
<1> QED BY <1>1, <1>2, <1>3, <1>4, <1>5

(* The cloud takes over what a heartbeat says. *)
LEMMA HeartbeatStep ==
    ASSUME IInv, job = "waiting", NEW d \in Devices, Heartbeat(d)
    PROVE  IInv'
<1> USE DEF IInv, Heartbeat, queueVars, beatVars, jobVars
<1>1. TypeOK'
  BY DEF TypeOK, Contacts, Beats, Report
<1>2. QueuesAgree'
  BY DEF QueuesAgree, TypeOK
<1>3. ContactsAreReads'
  BY DEF ContactsAreReads, After, Known, Unknowable, TypeOK, Report
<1>4. EmptyIsDelivered'
  BY DEF ContactsAreReads, EmptyIsDelivered, After, Known, Delivered, Unknowable, TypeOK, Report
<1>5. (job = "waiting" => absent = {})' /\ AbsentOnlyWhenSynced'
  BY DEF AbsentOnlyWhenSynced
<1> QED BY <1>1, <1>2, <1>3, <1>4, <1>5

(* An overtaken heartbeat. *)
LEMMA LateHeartbeatStep ==
    ASSUME IInv, job = "waiting", NEW d \in Devices, LateHeartbeat(d)
    PROVE  IInv'
<1> USE DEF IInv, LateHeartbeat, queueVars, beatVars, jobVars
<1>1. TypeOK'
  BY DEF TypeOK, Past, Contacts, Beats, Report
<1>2. QueuesAgree'
  BY DEF QueuesAgree, TypeOK
<1>3. ContactsAreReads'
  BY DEF ContactsAreReads, After, Known, Unknowable, TypeOK, Report
<1>4. EmptyIsDelivered'
  BY DEF ContactsAreReads, EmptyIsDelivered, After, Known, Delivered, Unknowable, TypeOK, Report
<1>5. (job = "waiting" => absent = {})' /\ AbsentOnlyWhenSynced'
  BY DEF AbsentOnlyWhenSynced
<1> QED BY <1>1, <1>2, <1>3, <1>4, <1>5

(* The mark: the gate is open because every device seen lately is settled, *)
(* or because the deadline has come.                                       *)
LEMMA GateOpensStep ==
    ASSUME IInv, GateOpens
    PROVE  IInv'
<1> USE DEF IInv, GateOpens, queueVars, beatVars
<1>1. TypeOK'
  <2>1. (now >= Deadline) \in BOOLEAN /\ {d \in Devices : ~cloud[d].seen} \in SUBSET Devices
    OBVIOUS
  <2>2. past' \in Past
    BY <2>1 DEF TypeOK, Past
  <2> QED BY <2>2 DEF TypeOK
<1>a. /\ past'.missed = past.missed /\ past'.torn = past.torn
      /\ past'.overtaken = past.overtaken
      /\ past'.unseen = {d \in Devices : ~cloud[d].seen}
  BY DEF TypeOK, Past
<1>b. ~past'.forced => now < Deadline
  <2>1. now < Deadline \/ now >= Deadline
    BY DEF TypeOK, Deadline, Clock
  <2>2. now >= Deadline => past'.forced
    <3> DEFINE f == now >= Deadline
    <3>1. past'.forced = f
      <4> HIDE DEF f
      <4>1. past' = [past EXCEPT !.forced = f, !.unseen = {d \in Devices : ~cloud[d].seen}]
        BY DEF f
      <4> QED BY <4>1 DEF TypeOK, Past
    <3> QED BY <3>1
  <2> QED BY <2>1, <2>2
<1>2. QueuesAgree' /\ ContactsAreReads'
  BY DEF QueuesAgree, ContactsAreReads, After, Known, Unknowable, TypeOK, Past, Of
<1>3. EmptyIsDelivered'
  BY DEF EmptyIsDelivered, Delivered, Unknowable, TypeOK, Past, Of
<1>4. AbsentOnlyWhenSynced'
  <2> SUFFICES ASSUME now < Deadline, NEW p \in made \ stored, Device[p] \notin past.overtaken,
                      cloud[Device[p]].seen
               PROVE  p \in refused \cup past.missed \cup past.torn
    BY <1>a, <1>b, GateAssumption DEF AbsentOnlyWhenSynced, TypeOK
  <2>1. Device[p] \in Devices /\ p \in Of(Device[p])
    BY GateAssumption DEF TypeOK, Of
  <2>2. Settled(Device[p])
    BY <2>1 DEF TimeIsUp, TypeOK, Clock, Deadline
  <2>3. Delivered(Device[p])
    BY <2>1, <2>2 DEF EmptyIsDelivered, Settled
  <2> QED BY <2>1, <2>3 DEF Delivered, Unknowable
<1> QED BY <1>1, <1>2, <1>3, <1>4

LEMMA StutterStep ==
    ASSUME IInv, UNCHANGED vars
    PROVE  IInv'
BY DEF IInv, vars, queueVars, beatVars, jobVars, TypeOK, QueuesAgree, ContactsAreReads,
       EmptyIsDelivered, AbsentOnlyWhenSynced, After, Known, Delivered, Unknowable

---------------------------------------------------------------------------
(* The invariant holds for every set of devices and punches                *)
(* (attendance-device-jobs.service.ts, connector.ts).                      *)
THEOREM Invariance == Spec => []IInv
<1>1. Init => IInv
  BY InitIInv
<1>2. IInv /\ [Next]_vars => IInv'
  BY TickStep, PunchStep, StoreStep, ConfirmStep, RefuseStep, StartStep, CrashStep,
     StartReadStep, ReadFailsStep, EndReadStep, SendBeatStep, HeartbeatStep,
     LateHeartbeatStep, GateOpensStep, StutterStep DEF Next
<1> QED BY <1>1, <1>2, PTL DEF Spec

(* Type correctness of connectors, heartbeats, gate and job.               *)
THEOREM TypesHold == Spec => []TypeOK
BY Invariance, PTL DEF IInv

(* Before the deadline nobody who punched before the cutoff is marked,     *)
(* except for what the gate cannot know (autoAbsentForMadrasa).            *)
THEOREM NobodyMarkedWrongly == Spec => []AbsentOnlyWhenSynced
BY Invariance, PTL DEF IInv
=============================================================================
