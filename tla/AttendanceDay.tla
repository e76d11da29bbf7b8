---------------------------- MODULE AttendanceDay ----------------------------
(***************************************************************************)
(* The attendance row of one person on one day, and everybody who writes   *)
(* it: the ingest of punches, the back-fill after a new mapping, marks by  *)
(* hand, a leave request and the auto-absent job                           *)
(* (backend attendance-device-ingest.service.ts, attendance-device.        *)
(* service.ts, attendance.service.ts, attendance-leave.service.ts,         *)
(* attendance-device-jobs.service.ts).                                     *)
(*                                                                         *)
(* Each writer runs one PostgreSQL transaction at read committed: it reads *)
(* the row, decides, and writes some columns of the row it read.  Between  *)
(* the read and the write the others may commit.  A second row for the day *)
(* is refused by the unique key, an update of a deleted row throws.        *)
(***************************************************************************)
EXTENDS Naturals

CONSTANTS
    Punches,       \* the person's punches of the day
    Time,          \* when each was made (distinct instants after 0)
    Requests,      \* ingest requests that can run at the same time
    Admin,         \* the request that maps the person and back-fills
    None,          \* no row, no punch
    LateAfter,     \* start + grace: arrivals after it are LATE
    OutFrom,       \* checkoutAfterTime
    Gap,           \* CHECKOUT_MIN_GAP_MS
    LastInstant,   \* bound: the end of the day
    MaxHand        \* bound: changes by hand

ASSUME DayAssumption ==
    /\ Time \in [Punches -> 1..LastInstant]
    /\ \A p, q \in Punches : Time[p] = Time[q] => p = q
    /\ Admin \notin Requests
    /\ None \notin Punches
    /\ LateAfter \in Nat /\ OutFrom \in Nat /\ Gap \in Nat \ {0}
    /\ LastInstant \in Nat /\ MaxHand \in Nat

VARIABLES
    now,        \* the clock
    row,        \* the attendance row, or None
    log,        \* the attendance_device_log row of each punch
    mapped,     \* the device user is mapped to the person
    at,         \* where each ingest request and the back-fill stand
    knows,      \* the request resolved the device user to the person
    punch,      \* the punch it is handling
    snap,       \* the attendance row as it read it
    tell,       \* messages it will queue after the commit
    todo,       \* punches the back-fill still has to apply
    filled,     \* the back-fill has come to its end
    hand,       \* the request of an office user
    leave,      \* the leave request that covers the day
    job,        \* the auto-absent job
    sms,        \* kinds of message queued for the day (dedupe key)
    past        \* history: see PastInit

workVars == <<at, knows, punch, snap, tell>>
fillVars == <<mapped, todo, filled>>
officeVars == <<hand, leave, job>>
vars == <<now, row, log, fillVars, workVars, officeVars, sms, past>>

Workers == Requests \cup {Admin}
Statuses == {"PRESENT", "LATE", "ABSENT", "LEAVE"}
Sources == {"manual", "k40", "auto_absent", "leave"}
Instants == 0..LastInstant   \* 0 stands for null

Row == [id : {1, 2}, status : Statuses, source : Sources,
        in : Instants, out : Instants, updated : Instants]
Hand == [at : {"idle", "read"}, snap : Row \cup {None}, left : 0..MaxHand]
Leave == [status : {"PENDING", "APPROVED", "CLOSED"}, at : {"idle", "approving", "closing"},
          snap : Row \cup {None}]

ASSUME NoneAssumption == None \notin Row

(* What the properties ask about the past: a writer committed on a row     *)
(* that had changed since it read it; office or leave wrote the row; leave *)
(* removed it; credited punches came in the order they were made; when the *)
(* standing decision ABSENT was made by hand and what was credited then; a *)
(* request ended between its commit and its message; punches stored        *)
(* without a person by a request that resolved before the mapping.         *)
Past == [raced : BOOLEAN, touched : BOOLEAN, removed : BOOLEAN, ordered : BOOLEAN,
         decided : Instants, since : SUBSET Punches, lost : SUBSET {"present", "checkout"},
         early : SUBSET Punches]
PastInit == [raced |-> FALSE, touched |-> FALSE, removed |-> FALSE, ordered |-> TRUE,
             decided |-> 0, since |-> {}, lost |-> {}, early |-> {}]

TypeOK ==
    /\ now \in Instants
    /\ row \in Row \cup {None}
    /\ log \in [Punches -> {"none", "unlinked", "linked"}]
    /\ mapped \in BOOLEAN
    /\ at \in [Workers -> {"idle", "list", "open", "read", "commit"}]
    /\ knows \in [Workers -> BOOLEAN]
    /\ punch \in [Workers -> Punches \cup {None}]
    /\ snap \in [Workers -> Row \cup {None}]
    /\ tell \in [Workers -> SUBSET {"present", "checkout"}]
    /\ todo \in SUBSET Punches
    /\ filled \in BOOLEAN
    /\ hand \in Hand
    /\ leave \in Leave
    /\ job \in {"before", "listed", "done"}
    /\ sms \in SUBSET {"present", "checkout"}
    /\ past \in Past

Init ==
    /\ now = 0
    /\ row = None
    /\ log = [p \in Punches |-> "none"]
    /\ mapped \in BOOLEAN
    /\ at = [w \in Workers |-> "idle"]
    /\ knows = [w \in Workers |-> FALSE]
    /\ punch = [w \in Workers |-> None]
    /\ snap = [w \in Workers |-> None]
    /\ tell = [w \in Workers |-> {}]
    /\ todo = {}
    /\ filled = mapped
    /\ hand = [at |-> "idle", snap |-> None, left |-> MaxHand]
    /\ leave = [status |-> "PENDING", at |-> "idle", snap |-> None]
    /\ job = "before"
    /\ sms = {}
    /\ past = PastInit

Credited == {p \in Punches : log[p] = "linked"}
Arrival(t) == IF t > LateAfter THEN "LATE" ELSE "PRESENT"

(* The row a writer read is still there: an update by its id finds it. *)
Finds(s) == row # None /\ row.id = s.id

(* @updatedAt; only the time of an ABSENT by hand is ever compared. *)
Touched(r) ==
    [r EXCEPT !.updated = IF r.status = "ABSENT" /\ r.source = "manual" THEN now ELSE 0]
NewRow(status, source, in) ==
    Touched([id |-> IF past.removed THEN 2 ELSE 1, status |-> status, source |-> source,
             in |-> in, out |-> 0, updated |-> 0])

Tick ==
    /\ now < LastInstant
    /\ now' = now + 1
    /\ UNCHANGED <<row, log, fillVars, workVars, officeVars, sms, past>>

---------------------------------------------------------------------------
(* Ingest requests and the back-fill. *)

(* ingest(): people are resolved once, before the events are stored. *)
OpenRequest(r) ==
    /\ at[r] = "idle"
    /\ at' = [at EXCEPT ![r] = "open"]
    /\ knows' = [knows EXCEPT ![r] = mapped]
    /\ UNCHANGED <<now, row, log, fillVars, punch, snap, tell, officeVars, sms, past>>

(* setMapping(): the mapping is committed, then the back-fill starts. *)
SetMapping ==
    /\ at[Admin] = "idle"
    /\ ~filled
    /\ mapped' = TRUE
    /\ at' = [at EXCEPT ![Admin] = "list"]
    /\ UNCHANGED <<now, row, log, todo, filled, knows, punch, snap, tell, officeVars, sms, past>>

(* Mutant: nothing is left to do when the person is mapped. *)
ListNothing ==
    /\ at[Admin] = "list"
    /\ todo' = {}
    /\ at' = [at EXCEPT ![Admin] = "open"]
    /\ knows' = [knows EXCEPT ![Admin] = TRUE]
    /\ UNCHANGED <<now, row, log, mapped, filled, punch, snap, tell, officeVars, sms, past>>

(* reprocessUnmapped(): the person is one who attends, with fewer punches  *)
(* than one list takes (MAX_REPROCESS_LOGS, oldest first).                 *)
ListUnprocessed ==
    /\ at[Admin] = "list"
    /\ todo' = {p \in Punches : log[p] = "unlinked"}
    /\ at' = [at EXCEPT ![Admin] = "open"]
    /\ knows' = [knows EXCEPT ![Admin] = TRUE]
    /\ UNCHANGED <<now, row, log, mapped, filled, punch, snap, tell, officeVars, sms, past>>

FillDone ==
    /\ at[Admin] = "open"
    /\ todo = {}
    /\ filled' = TRUE
    /\ at' = [at EXCEPT ![Admin] = "idle"]
    /\ UNCHANGED <<now, row, log, mapped, todo, knows, punch, snap, tell, officeVars, sms, past>>

(* The punch a worker may take next: one made and not stored yet, which no *)
(* other open transaction has inserted; the back-fill goes by time.        *)
Takes(w, p) ==
    IF w = Admin
    THEN p \in todo /\ \A q \in todo : Time[p] <= Time[q]
    ELSE /\ Time[p] <= now
         /\ log[p] = "none"
         /\ \A v \in Workers : punch[v] # p

(* persistEvent() of a punch without a person: the log row alone. *)
StoreUnlinked(r, p) ==
    /\ at[r] = "open"
    /\ ~knows[r]
    /\ Takes(r, p)
    /\ log' = [log EXCEPT ![p] = "unlinked"]
    /\ past' = [past EXCEPT !.early = IF mapped THEN @ \cup {p} ELSE @]
    /\ UNCHANGED <<now, row, fillVars, workVars, officeVars, sms>>

(* The transaction of one punch begins: insert of the log row and read of  *)
(* the attendance row.                                                     *)
ReadRow(w, p) ==
    /\ at[w] = "open"
    /\ knows[w]
    /\ Takes(w, p)
    /\ at' = [at EXCEPT ![w] = "read"]
    /\ punch' = [punch EXCEPT ![w] = p]
    /\ snap' = [snap EXCEPT ![w] = row]
    /\ UNCHANGED <<now, row, log, fillVars, knows, tell, officeVars, sms, past>>

(* The request ends, dies, or throws: an open transaction is rolled back,  *)
(* messages not queued yet are never queued by it.                         *)
EndRequest(w) ==
    /\ at[w] # "idle"
    /\ at' = [at EXCEPT ![w] = "idle"]
    /\ punch' = [punch EXCEPT ![w] = None]
    /\ snap' = [snap EXCEPT ![w] = None]
    /\ tell' = [tell EXCEPT ![w] = {}]
    /\ past' = [past EXCEPT !.lost = @ \cup tell[w]]
    /\ todo' = IF w = Admin THEN {} ELSE todo
    /\ knows' = [knows EXCEPT ![w] = FALSE]
    /\ UNCHANGED <<now, row, log, mapped, filled, officeVars, sms>>

(* The commit of one punch: log row and attendance row together. *)
Credit(w, new, messages) ==
    /\ row' = new
    /\ log' = [log EXCEPT ![punch[w]] = "linked"]
    /\ todo' = todo \ {punch[w]}
    /\ tell' = [tell EXCEPT ![w] = messages]
    /\ at' = [at EXCEPT ![w] = IF messages = {} THEN "open" ELSE "commit"]
    /\ punch' = [punch EXCEPT ![w] = None]
    /\ snap' = [snap EXCEPT ![w] = None]
    /\ past' = [past EXCEPT
                  !.raced = @ \/ row # snap[w],
                  !.ordered = @ /\ \A q \in Credited : Time[q] < Time[punch[w]]]
    /\ UNCHANGED <<now, mapped, filled, knows, officeVars, sms>>

(* No row was there: create it.                                            *)
CreateRow(w) ==
    /\ snap[w] = None
    /\ row = None
    /\ Credit(w, NewRow(Arrival(Time[punch[w]]), "k40", Time[punch[w]]), {"present"})

(* Somebody else has created the row: the transaction is rolled back and   *)
(* an ingest request begins it again.  The code does so once and then      *)
(* fails; a request that fails is sent again by its connector.             *)
Collide(w) ==
    /\ snap[w] = None
    /\ row # None
    /\ w # Admin
    /\ at' = [at EXCEPT ![w] = "open"]
    /\ punch' = [punch EXCEPT ![w] = None]
    /\ UNCHANGED <<now, row, log, fillVars, knows, snap, tell, officeVars, sms, past>>

(* Mutant: a punch always beats a mark by hand. *)
NeverDecided(s, t) == FALSE
(* ABSENT by hand after the punch was made. *)
LeftAlone(s, t) == s.status = "ABSENT" /\ s.source = "manual" /\ s.updated > t

(* The later decision by hand wins. *)
KeepAbsent(w) ==
    /\ snap[w] # None
    /\ LeftAlone(snap[w], Time[punch[w]])
    /\ Credit(w, row, {})

(* Any other ABSENT becomes an arrival. *)
Upgrade(w) ==
    /\ snap[w] # None
    /\ Finds(snap[w])
    /\ snap[w].status = "ABSENT"
    /\ ~LeftAlone(snap[w], Time[punch[w]])
    /\ Credit(w, Touched([row EXCEPT !.status = Arrival(Time[punch[w]]), !.source = "k40",
                                     !.in = Time[punch[w]]]), {"present"})

IsCheckOut(s, t) == s.in # 0 /\ t >= OutFrom /\ t >= s.in + Gap

(* A later punch in the check-out window moves the check-out. *)
CheckOut(w) ==
    LET s == snap[w]
        t == Time[punch[w]]
        later == t > s.out
    IN /\ s # None
       /\ s.status # "ABSENT"
       /\ IsCheckOut(s, t)
       /\ later => Finds(s)
       /\ Credit(w, IF later THEN Touched([row EXCEPT !.out = t]) ELSE row,
                 IF s.out = 0 THEN {"checkout"} ELSE {})

(* Mutant: the first punch to arrive stays the check-in. *)
OnlyIfMissing(s, t) == s.in = 0
EarlierCheckIn(s, t) == s.in = 0 \/ t < s.in

(* Any other punch can only move the check-in to an earlier time; the      *)
(* status of a device row follows it.                                      *)
CheckIn(w) ==
    LET s == snap[w]
        t == Time[punch[w]]
        arrived == s.source = "k40" /\ s.status \in {"PRESENT", "LATE"}
        earlier == EarlierCheckIn(s, t)
    IN /\ s # None
       /\ s.status # "ABSENT"
       /\ ~IsCheckOut(s, t)
       /\ earlier => Finds(s)
       /\ Credit(w, IF ~earlier THEN row
                    ELSE Touched([row EXCEPT !.in = t, !.status = IF arrived THEN Arrival(t) ELSE @]),
                 IF arrived THEN {"present"} ELSE {})

(* A write that finds its row gone, or a second collision, throws: that is *)
(* an EndRequest.                                                          *)
SavePunch(w) ==
    /\ at[w] = "read"
    /\ CreateRow(w) \/ Collide(w) \/ KeepAbsent(w) \/ Upgrade(w) \/ CheckOut(w) \/ CheckIn(w)

(* Mutant: the message of an arrival is not queued. *)
QueuesNothing(w) == sms
Queues(w) == sms \cup tell[w]

(* enqueueOutcomeSms() after the commit; a failure is only logged. *)
Tell(w) ==
    /\ at[w] = "commit"
    /\ at' = [at EXCEPT ![w] = "open"]
    /\ tell' = [tell EXCEPT ![w] = {}]
    /\ \/ sms' = Queues(w) /\ past' = past
       \/ sms' = sms /\ past' = [past EXCEPT !.lost = @ \cup tell[w]]
    /\ UNCHANGED <<now, row, log, fillVars, knows, punch, snap, officeVars>>

---------------------------------------------------------------------------
(* The office: bulkMark() and correct(). *)

Protected(s) == s.source \in {"k40", "leave"}

HandRead ==
    /\ hand.at = "idle"
    /\ hand.left > 0
    /\ hand' = [hand EXCEPT !.at = "read", !.snap = row]
    /\ UNCHANGED <<now, row, log, fillVars, workVars, leave, job, sms, past>>

HandDone(n) == hand' = [at |-> "idle", snap |-> None, left |-> hand.left - n]

(* The row is written by hand. *)
HandWrites(new) ==
    LET absent == new.status = "ABSENT" /\ new.source = "manual"
    IN /\ row' = new
       /\ past' = [past EXCEPT !.raced = @ \/ row # hand.snap,
                               !.touched = TRUE,
                               !.decided = IF absent THEN now ELSE 0,
                               !.since = IF absent THEN Credited ELSE {}]
       /\ HandDone(1)

(* What bulkMark() and correct() do with the row they read.  Device and    *)
(* leave rows are changed only with the right to override them; a remark   *)
(* on any other row counts as a write; correct() writes the status it read *)
(* again and makes the row manual.                                         *)
HandCreates(st) ==
    /\ hand.snap = None
    /\ row = None
    /\ HandWrites(NewRow(st, "manual", 0))
HandChanges(st, override) ==
    /\ hand.snap # None
    /\ hand.snap.status # st
    /\ Protected(hand.snap) => override
    /\ Finds(hand.snap)
    /\ HandWrites(Touched([row EXCEPT !.status = st, !.source = "manual"]))
HandRemarks(st, correct) ==
    /\ hand.snap # None
    /\ hand.snap.status = st
    /\ Protected(hand.snap) => correct
    /\ Finds(hand.snap)
    /\ HandWrites(Touched(IF correct THEN [row EXCEPT !.status = st, !.source = "manual"] ELSE row))

(* Nothing to change, not allowed to, or the row is gone. *)
HandLeaves == hand.snap # None /\ HandDone(1) /\ UNCHANGED <<row, past>>

(* The unique key refuses the new row: bulkMark() plans again. *)
HandCollides == hand.snap = None /\ row # None /\ HandDone(0) /\ UNCHANGED <<row, past>>

HandSave ==
    /\ hand.at = "read"
    /\ \/ HandLeaves
       \/ HandCollides
       \/ \E st \in Statuses :
            \/ HandCreates(st)
            \/ \E right \in BOOLEAN : HandChanges(st, right) \/ HandRemarks(st, right)
    /\ UNCHANGED <<now, log, fillVars, workVars, leave, job, sms>>

---------------------------------------------------------------------------
(* A leave request that covers the day. *)

(* approve(), reject(), cancel(): the status moves, then the row is read. *)
LeaveReads ==
    /\ leave.at = "idle"
    /\ \/ leave.status = "PENDING" /\ leave' = [leave EXCEPT !.at = "approving", !.snap = row]
       \/ leave.status = "APPROVED" /\ leave' = [leave EXCEPT !.at = "closing", !.snap = row]
       \/ leave.status = "PENDING" /\ leave' = [leave EXCEPT !.status = "CLOSED"]
    /\ UNCHANGED <<now, row, log, fillVars, workVars, hand, job, sms, past>>

LeaveDone(st) == leave' = [status |-> st, at |-> "idle", snap |-> None]

(* applyLeave(): a missing row is created, an ABSENT one converted. *)
LeaveApplies ==
    /\ leave.at = "approving"
    /\ LeaveDone("APPROVED")
    /\ LET s == leave.snap
           converts == s # None /\ s.status = "ABSENT" /\ Finds(s)
       IN /\ row' = IF s = None /\ row = None THEN NewRow("LEAVE", "leave", 0)
                    ELSE IF converts THEN Touched([row EXCEPT !.status = "LEAVE", !.source = "leave"])
                    ELSE row
          /\ past' = [past EXCEPT
                        !.raced = @ \/ (row' # row /\ row # s),
                        !.touched = @ \/ row' # row,
                        !.decided = IF row' # row THEN 0 ELSE @,
                        !.since = IF row' # row THEN {} ELSE @]
    /\ UNCHANGED <<now, log, fillVars, workVars, hand, job, sms>>

(* Mutant: whatever row covers the day goes with the leave. *)
RemovesAny(s) == s # None
(* planLeaveRemoval() *)
Removes(s) == s # None /\ s.status = "LEAVE" /\ s.source = "leave"

(* removeLeave(): the LEAVE row it read is deleted. *)
LeaveRemoves ==
    /\ leave.at = "closing"
    /\ LeaveDone("CLOSED")
    /\ LET gone == Removes(leave.snap) /\ Finds(leave.snap)
       IN /\ row' = IF gone THEN None ELSE row
          /\ past' = [past EXCEPT
                        !.raced = @ \/ (gone /\ row # leave.snap),
                        !.touched = @ \/ gone,
                        !.removed = @ \/ gone,
                        !.decided = IF gone THEN 0 ELSE @,
                        !.since = IF gone THEN {} ELSE @]
    /\ UNCHANGED <<now, log, fillVars, workVars, hand, job, sms>>

---------------------------------------------------------------------------
(* autoAbsentForMadrasa(), once the gate is open. *)

JobStep(from, to) ==
    /\ job = from
    /\ job' = to
    /\ UNCHANGED <<now, log, fillVars, workVars, hand, leave, sms, past>>

(* Mapped people without a row are listed ... *)
JobLists == mapped /\ row = None /\ JobStep("before", "listed") /\ UNCHANGED row
JobSkips == ~(mapped /\ row = None) /\ JobStep("before", "done") /\ UNCHANGED row

(* Mutant: a row that was made in between is overwritten. *)
OrOverwrites(r) == NewRow("ABSENT", "auto_absent", 0)
UnlessThere(r) == IF r = None THEN NewRow("ABSENT", "auto_absent", 0) ELSE r

(* ... and marked unless a row was made in between (skipDuplicates). *)
JobMarks == JobStep("listed", "done") /\ row' = UnlessThere(row)

(* The pass fails before the day is noted as done. *)
JobFails == JobStep("listed", "before") /\ UNCHANGED row

AutoAbsent == row # None /\ row.status = "ABSENT" /\ row.source = "auto_absent"

Ingest(w) ==
    \/ \E p \in Punches : ReadRow(w, p)
    \/ SavePunch(w)
    \/ Tell(w)
    \/ EndRequest(w)
Next ==
    \/ Tick
    \/ \E r \in Requests : OpenRequest(r) \/ \E p \in Punches : StoreUnlinked(r, p)
    \/ \E w \in Workers : Ingest(w)
    \/ SetMapping \/ ListUnprocessed \/ FillDone
    \/ HandRead \/ HandSave
    \/ LeaveReads \/ LeaveApplies \/ LeaveRemoves
    \/ JobLists \/ JobSkips \/ JobMarks \/ JobFails

Spec == Init /\ [][Next]_vars

---------------------------------------------------------------------------
MinOf(S) == CHOOSE t \in S : \A u \in S : t <= u
MaxOf(S) == CHOOSE t \in S : \A u \in S : u <= t
Times(S) == {Time[p] : p \in S}

(* The check-out the punches of the day amount to. *)
ReferenceOut ==
    LET first == MinOf(Times(Credited))
        outs == {t \in Times(Credited) : t >= OutFrom /\ t >= first + Gap}
    IN IF outs = {} THEN 0 ELSE MaxOf(outs)

(* applyPunch() header: whatever the order in which devices, queues and    *)
(* the back-fill bring the punches, the day shows the earliest as check-in *)
(* and the status that follows from it; the check-out is right when they   *)
(* came in the order they were made.  Not so when office or leave changed  *)
(* the row, or when two transactions overlapped on it.                     *)
DayIsItsPunches ==
    ~past.raced /\ ~past.touched =>
        IF Credited = {} THEN row = None \/ AutoAbsent
        ELSE LET first == MinOf(Times(Credited))
             IN /\ row.source = "k40"
                /\ row.in = first
                /\ row.status = Arrival(first)
                /\ row.out \in {0} \cup Times(Credited)
                /\ past.ordered => row.out = ReferenceOut

(* applyPunch() "The later human decision wins": a standing ABSENT by hand *)
(* outlasts every punch made before it, and gives way to the first punch   *)
(* that was not, unless transactions overlapped on the row.                *)
LaterDecisionWins ==
    past.decided # 0 /\ ~past.raced =>
        (row.status = "ABSENT" <=> \A p \in Credited \ past.since : Time[p] < past.decided)

(* ingest.service.ts:602 "Retry-safety": an arrival by device and a        *)
(* check-out are told to the guardian, now or by a request under way,      *)
(* unless a request ended between recording one and queueing its message.  *)
IsTold(kind) == kind \in sms \cup past.lost \/ \E w \in Workers : kind \in tell[w]
ToldOfArrival ==
    row # None =>
        /\ row.source = "k40" /\ row.status \in {"PRESENT", "LATE"} => IsTold("present")
        /\ row.out # 0 => IsTold("checkout")

(* reprocessUnmapped(): once the back-fill has come to its end, no punch   *)
(* of the mapped person is left without attendance, except those stored by *)
(* requests that looked for the mapping before it was made.                *)
MappedPunchesCredited ==
    filled => \A p \in Punches : log[p] = "unlinked" => p \in past.early

(* The day of somebody whose punch was credited is never an automatic      *)
(* ABSENT, although ingest, back-fill and job overlap; only cancelling a   *)
(* leave removes the row that shows the punch.                             *)
AutoAbsentNeverPunched == AutoAbsent /\ ~past.removed => Credited = {}

(* planLeaveApproval() "PRESENT / LATE / LEAVE rows: the person came (or is *)
(* already on leave) - untouched": that somebody came, or is on leave, is  *)
(* changed only by hand, by closing the leave whose row it is, or by a     *)
(* transaction that read the row before it said so.                        *)
Standing(r) == IF r = None THEN "open" ELSE IF r.status = "LATE" THEN "PRESENT" ELSE r.status
ReadBefore ==
    \/ \E w \in Workers : at[w] = "read" /\ at'[w] # "read" /\ snap[w] # row
    \/ leave.at # "idle" /\ leave'.at = "idle" /\ leave.snap # row
PresenceAndLeaveStand ==
    [][Standing(row) \in {"PRESENT", "LEAVE"} /\ Standing(row') # Standing(row) =>
          \/ hand'.left < hand.left
          \/ leave.status = "APPROVED" /\ leave'.status = "CLOSED" /\ row.source = "leave"
          \/ ReadBefore]_vars

---------------------------------------------------------------------------
(* The inductive invariant behind the safety properties.                   *)

(* A transaction holds a punch nobody else holds and that is not credited  *)
(* yet; messages wait only after a commit.                                 *)
WorkInOrder ==
    /\ \A w \in Workers :
         /\ punch[w] # None <=> at[w] = "read"
         /\ at[w] = "read" => log[punch[w]] = IF w = Admin THEN "unlinked" ELSE "none"
         /\ at[w] # "read" => snap[w] = None
         /\ at[w] # "commit" => tell[w] = {}
         /\ \A v \in Workers : punch[v] = punch[w] /\ punch[w] # None => v = w
    /\ \A p \in todo : log[p] = "unlinked"
    /\ hand.at = "read" => hand.left > 0

(* From its list on the back-fill knows of every punch without a person,   *)
(* except those stored by requests that looked too early.                  *)
Unlinked == {p \in Punches : log[p] = "unlinked"}
FillInOrder ==
    /\ filled => mapped
    /\ at[Admin] # "idle" => mapped /\ ~filled
    /\ at[Admin] \in {"open", "read", "commit"} => Unlinked \subseteq todo \cup past.early

(* Rows last until a leave is cancelled: what a writer read is still there *)
(* in some form, and an automatic row is one that nobody has changed.      *)
Snaps == ({snap[w] : w \in Workers} \cup {hand.snap, leave.snap}) \ {None}
Automatic(r) == r.source = "auto_absent"
RowsLast ==
    ~past.removed =>
        /\ row = None => Credited = {} /\ Snaps = {}
        /\ row # None /\ Automatic(row) =>
              row.status = "ABSENT" /\ Credited = {} /\ \A s \in Snaps : Automatic(s)
        /\ \A s \in Snaps : Automatic(s) => s.status = "ABSENT"

(* Whoever read a device row or a check-out read one that is told.         *)
Announced(r) ==
    /\ r.source = "k40" => IsTold("present")
    /\ r.out # 0 => IsTold("checkout")
RowsAnnounced ==
    /\ row # None => Announced(row)
    /\ \A s \in Snaps : Announced(s)

(* A standing decision is in the row, with its time.                       *)
DecisionStands ==
    /\ past.since \subseteq Credited
    /\ past.decided # 0 => row # None
    /\ past.decided # 0 /\ ~past.raced /\ row.status = "ABSENT" =>
          row.source = "manual" /\ row.updated = past.decided

(* DayIsItsPunches without its CHOOSEs: the check-in is the least of the   *)
(* credited times, the check-out the greatest of those that can be one.    *)
Outs == {t \in Times(Credited) : t >= OutFrom /\ t >= row.in + Gap}
DayInOrder ==
    /\ past.removed => past.touched
    /\ ~past.raced /\ ~past.touched =>
          IF Credited = {} THEN row = None \/ (AutoAbsent /\ row.in = 0 /\ row.out = 0)
          ELSE /\ row # None /\ row.source = "k40"
               /\ row.in \in Times(Credited) /\ \A t \in Times(Credited) : row.in <= t
               /\ row.status = Arrival(row.in)
               /\ row.out \in {0} \cup Times(Credited)
               /\ past.ordered =>
                     IF Outs = {} THEN row.out = 0
                     ELSE row.out \in Outs /\ \A t \in Outs : t <= row.out

IInv ==
    /\ TypeOK
    /\ WorkInOrder
    /\ FillInOrder
    /\ MappedPunchesCredited
    /\ RowsLast
    /\ RowsAnnounced
    /\ DecisionStands
    /\ LaterDecisionWins
    /\ DayInOrder
=============================================================================
