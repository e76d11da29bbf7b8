------------------------- MODULE AttendanceDayProofs -------------------------
(***************************************************************************)
(* Proofs about AttendanceDay, for every number of punches and of ingest   *)
(* requests and every rule of the day: the inductive invariant IInv, and   *)
(* from it the properties.  One lemma per action; a step that leaves the   *)
(* row and the credited punches alone keeps the half of the invariant that *)
(* speaks of them (RowStays).                                              *)
(***************************************************************************)
EXTENDS AttendanceDay, TLAPS

(* The two halves of the invariant. *)
WorkPart == WorkInOrder /\ FillInOrder /\ MappedPunchesCredited
RowPart == RowsLast /\ RowsAnnounced /\ DecisionStands /\ LaterDecisionWins /\ DayInOrder

LEMMA Halves == IInv <=> TypeOK /\ WorkPart /\ RowPart
BY DEF IInv, WorkPart, RowPart

(* What saving a row does to it. *)
LEMMA TouchedFacts ==
    ASSUME now \in Instants, NEW r \in Row
    PROVE  /\ Touched(r) \in Row
           /\ Touched(r).status = r.status /\ Touched(r).source = r.source
           /\ Touched(r).in = r.in /\ Touched(r).out = r.out
           /\ r.status = "ABSENT" /\ r.source = "manual" => Touched(r).updated = now
BY DayAssumption DEF Touched, Row, Instants

LEMMA NewRowFacts ==
    ASSUME now \in Instants, NEW st \in Statuses, NEW so \in Sources, NEW t \in Instants
    PROVE  /\ NewRow(st, so, t) \in Row
           /\ NewRow(st, so, t).status = st /\ NewRow(st, so, t).source = so
           /\ NewRow(st, so, t).in = t /\ NewRow(st, so, t).out = 0
           /\ st = "ABSENT" /\ so = "manual" => NewRow(st, so, t).updated = now
<1> DEFINE r == [id |-> IF past.removed THEN 2 ELSE 1, status |-> st, source |-> so,
                 in |-> t, out |-> 0, updated |-> 0]
<1>1. r \in Row /\ r.status = st /\ r.source = so /\ r.in = t /\ r.out = 0
  BY DayAssumption DEF Row, Instants
<1> HIDE DEF r
<1>2. NewRow(st, so, t) = Touched(r)
  BY DEF NewRow, r
<1> QED BY <1>1, <1>2, TouchedFacts

LEMMA ArrivalType == \A t : Arrival(t) \in Statuses \ {"ABSENT", "LEAVE"}
BY DEF Arrival, Statuses

LEMMA PunchTimes == \A p \in Punches : Time[p] \in Instants /\ Time[p] # 0 /\ Time[p] \in Nat
<1> SUFFICES ASSUME NEW p \in Punches
             PROVE  Time[p] \in Instants /\ Time[p] # 0 /\ Time[p] \in Nat
  OBVIOUS
<1>1. Time[p] \in 1..LastInstant
  BY DayAssumption
<1> QED BY <1>1, DayAssumption DEF Instants

LEMMA InitIInv == Init => IInv
<1> SUFFICES ASSUME Init PROVE IInv
  OBVIOUS
<1> USE DEF Init
<1>1. past = PastInit /\ past \in Past
  BY DayAssumption DEF PastInit, Past, Instants
<1>2. hand \in Hand /\ leave \in Leave /\ hand.snap = None /\ leave.snap = None /\ hand.at = "idle"
  BY DayAssumption DEF Hand, Leave
<1>3. TypeOK
  BY <1>1, <1>2, DayAssumption DEF TypeOK, Instants
<1>4. Credited = {} /\ Snaps = {}
  BY <1>2 DEF Credited, Snaps
<1>5. WorkPart
  BY <1>2 DEF WorkPart, WorkInOrder, FillInOrder, MappedPunchesCredited, Workers
<1>6. RowPart
  BY <1>1, <1>4 DEF RowPart, PastInit, RowsLast, RowsAnnounced, DecisionStands, LaterDecisionWins, DayInOrder
<1> QED BY <1>3, <1>5, <1>6, Halves

(* Neither the row nor the credited punches change; somebody may have read *)
(* the row, messages may be queued.                                        *)
Tells == \A k \in {"present", "checkout"} : IsTold(k) => IsTold(k)'
PastStays ==
    /\ past'.removed = past.removed /\ past'.touched = past.touched /\ past'.raced = past.raced
    /\ past'.ordered = past.ordered /\ past'.decided = past.decided /\ past'.since = past.since
LEMMA RowStays ==
    ASSUME RowPart, row' = row, Credited' = Credited, Tells, PastStays,
           Snaps' \subseteq Snaps \cup ({row} \ {None})
    PROVE  RowPart'
<1> USE DEF PastStays
<1>1. RowsLast'
  BY DEF RowPart, RowsLast
<1>2. RowsAnnounced'
  <2>1. \A r : Announced(r) => Announced(r)'
    BY DEF Announced, Tells
  <2> QED BY <2>1 DEF RowPart, RowsAnnounced
<1>3. DecisionStands' /\ LaterDecisionWins'
  BY DEF RowPart, DecisionStands, LaterDecisionWins
<1>4. DayInOrder'
  <2>1. Outs' = Outs /\ AutoAbsent' = AutoAbsent
    BY DEF Outs, AutoAbsent
  <2> QED BY <2>1 DEF RowPart, DayInOrder
<1> QED BY <1>1, <1>2, <1>3, <1>4 DEF RowPart

LEMMA TellsStay == UNCHANGED <<sms, tell>> /\ past'.lost = past.lost => Tells
BY DEF Tells, IsTold

(* Nothing RowPart speaks of changes. *)
LEMMA RowUntouched ==
    ASSUME RowPart, UNCHANGED <<row, log, snap, tell, hand, leave, sms, past>>
    PROVE  RowPart'
<1>1. Credited' = Credited /\ Snaps' = Snaps /\ PastStays /\ Tells
  BY TellsStay DEF Credited, Snaps, PastStays
<1> QED BY <1>1, RowStays

---------------------------------------------------------------------------
(* Requests and the back-fill outside the transaction of a punch. *)

LEMMA TickStep == IInv /\ Tick => IInv'
<1> SUFFICES ASSUME IInv, Tick PROVE IInv'
  OBVIOUS
<1> USE DEF Tick, fillVars, workVars, officeVars
<1>1. TypeOK'
  BY DayAssumption DEF IInv, TypeOK, Instants
<1>2. WorkPart'
  BY DEF IInv, WorkPart, WorkInOrder, FillInOrder, MappedPunchesCredited, Unlinked
<1>3. RowPart'
  BY RowUntouched, Halves
<1> QED BY <1>1, <1>2, <1>3 DEF IInv, WorkPart, RowPart

LEMMA OpenRequestStep == ASSUME IInv, NEW r \in Requests, OpenRequest(r) PROVE IInv'
<1> USE DEF OpenRequest, fillVars, officeVars
<1>0. r \in Workers /\ r # Admin
  BY DayAssumption DEF Workers
<1>1. TypeOK'
  BY <1>0 DEF IInv, TypeOK
<1>2. WorkPart'
  BY <1>0 DEF IInv, TypeOK, WorkPart, WorkInOrder, FillInOrder, MappedPunchesCredited, Unlinked
<1>3. RowPart'
  BY RowUntouched, Halves
<1> QED BY <1>1, <1>2, <1>3 DEF IInv, WorkPart, RowPart

LEMMA SetMappingStep == IInv /\ SetMapping => IInv'
<1> SUFFICES ASSUME IInv, SetMapping PROVE IInv'
  OBVIOUS
<1> USE DEF SetMapping, officeVars
<1>0. Admin \in Workers
  BY DEF Workers
<1>1. TypeOK'
  BY <1>0 DEF IInv, TypeOK
<1>2. WorkPart'
  BY <1>0 DEF IInv, TypeOK, WorkPart, WorkInOrder, FillInOrder, MappedPunchesCredited, Unlinked
<1>3. RowPart'
  BY RowUntouched, Halves
<1> QED BY <1>1, <1>2, <1>3 DEF IInv, WorkPart, RowPart

LEMMA ListUnprocessedStep == IInv /\ ListUnprocessed => IInv'
<1> SUFFICES ASSUME IInv, ListUnprocessed PROVE IInv'
  OBVIOUS
<1> USE DEF ListUnprocessed, officeVars
<1>0. Admin \in Workers
  BY DEF Workers
<1>1. TypeOK'
  BY <1>0 DEF IInv, TypeOK
<1>2. WorkPart'
  BY <1>0 DEF IInv, TypeOK, WorkPart, WorkInOrder, FillInOrder, MappedPunchesCredited, Unlinked
<1>3. RowPart'
  BY RowUntouched, Halves
<1> QED BY <1>1, <1>2, <1>3 DEF IInv, WorkPart, RowPart

LEMMA FillDoneStep == IInv /\ FillDone => IInv'
<1> SUFFICES ASSUME IInv, FillDone PROVE IInv'
  OBVIOUS
<1> USE DEF FillDone, officeVars
<1>0. Admin \in Workers
  BY DEF Workers
<1>1. TypeOK'
  BY <1>0 DEF IInv, TypeOK
<1>2. WorkPart'
  BY <1>0 DEF IInv, TypeOK, WorkPart, WorkInOrder, FillInOrder, MappedPunchesCredited, Unlinked
<1>3. RowPart'
  BY RowUntouched, Halves
<1> QED BY <1>1, <1>2, <1>3 DEF IInv, WorkPart, RowPart

(* A punch is stored without a person; if the person is mapped by now, the *)
(* request looked too early.                                               *)
LEMMA StoreUnlinkedStep ==
    ASSUME IInv, NEW r \in Requests, NEW p \in Punches, StoreUnlinked(r, p)
    PROVE  IInv'
<1> USE DEF StoreUnlinked, fillVars, workVars, officeVars
<1>0. /\ r \in Workers /\ r # Admin /\ Admin \in Workers
      /\ log[p] = "none" /\ \A v \in Workers : punch[v] # p
  BY DayAssumption DEF Workers, Takes
<1> DEFINE seen == IF mapped THEN past.early \cup {p} ELSE past.early
<1>1. /\ past' \in Past /\ past'.early = seen /\ PastStays /\ past'.lost = past.lost
      /\ log' \in [Punches -> {"none", "unlinked", "linked"}]
  <2>1. seen \in SUBSET Punches /\ past' = [past EXCEPT !.early = seen]
    BY DEF IInv, TypeOK, Past
  <2> QED BY <2>1 DEF IInv, TypeOK, Past, PastStays
<1>2. \A q \in Punches : q # p => log'[q] = log[q]
  BY DEF IInv, TypeOK
<1>2a. log'[p] = "unlinked"
  BY DEF IInv, TypeOK
<1>3. TypeOK'
  BY <1>1 DEF IInv, TypeOK
<1>4. WorkInOrder'
  BY <1>0, <1>2, <1>2a DEF IInv, TypeOK, WorkInOrder
<1>5. FillInOrder' /\ MappedPunchesCredited'
  BY <1>0, <1>1, <1>2, <1>2a DEF IInv, TypeOK, FillInOrder, MappedPunchesCredited, Unlinked
<1>6. RowPart'
  <2>1. Credited' = Credited
    BY <1>0, <1>2, <1>2a DEF Credited
  <2>2. Snaps' = Snaps /\ Tells
    BY <1>1, TellsStay DEF Snaps
  <2> QED BY <1>1, <2>1, <2>2, RowStays, Halves
<1> QED BY <1>3, <1>4, <1>5, <1>6 DEF IInv, RowPart

---------------------------------------------------------------------------
(* The transaction of a punch. *)

(* It begins: the row is read, the punch taken by nobody else. *)
LEMMA ReadRowStep ==
    ASSUME IInv, NEW w \in Workers, NEW p \in Punches, ReadRow(w, p)
    PROVE  IInv'
<1> USE DEF ReadRow, fillVars, officeVars
<1>0. p # None /\ Admin \in Workers
  BY DayAssumption DEF Workers
<1>1. log[p] = IF w = Admin THEN "unlinked" ELSE "none"
  BY DEF Takes, IInv, WorkInOrder
<1>2. \A v \in Workers : punch[v] # p
  <2> SUFFICES ASSUME NEW v \in Workers, punch[v] = p PROVE FALSE
    OBVIOUS
  <2>1. CASE w # Admin
    BY <2>1 DEF Takes
  <2>2. CASE w = Admin
    <3>1. at[v] = "read" /\ v # Admin
      BY <1>0, <2>2 DEF IInv, WorkInOrder
    <3> QED BY <1>1, <2>2, <3>1 DEF IInv, WorkInOrder
  <2> QED BY <2>1, <2>2
<1>3. TypeOK'
  BY DEF IInv, TypeOK
<1>4. WorkInOrder'
  BY <1>0, <1>1, <1>2 DEF IInv, TypeOK, WorkInOrder
<1>5. FillInOrder' /\ MappedPunchesCredited'
  BY <1>0 DEF IInv, TypeOK, FillInOrder, MappedPunchesCredited, Unlinked
<1>6. RowPart'
  <2>1. Snaps' \subseteq Snaps \cup ({row} \ {None})
    BY DEF Snaps, IInv, TypeOK
  <2>2. Credited' = Credited /\ PastStays /\ Tells
    BY TellsStay DEF Credited, PastStays
  <2> QED BY <2>1, <2>2, RowStays, Halves
<1> QED BY <1>3, <1>4, <1>5, <1>6 DEF IInv, RowPart

(* It is begun again. *)
LEMMA CollideStep ==
    ASSUME IInv, NEW w \in Workers, at[w] = "read", Collide(w)
    PROVE  IInv'
<1> USE DEF Collide, fillVars, officeVars
<1>1. TypeOK'
  BY DEF IInv, TypeOK
<1>2. WorkInOrder'
  BY DEF IInv, TypeOK, WorkInOrder
<1>3. FillInOrder' /\ MappedPunchesCredited'
  BY DEF IInv, TypeOK, FillInOrder, MappedPunchesCredited, Unlinked
<1>4. RowPart'
  BY RowUntouched, Halves
<1> QED BY <1>1, <1>2, <1>3, <1>4 DEF IInv, RowPart

(* It ends for whatever reason: its messages count as lost. *)
LEMMA EndRequestStep == ASSUME IInv, NEW w \in Workers, EndRequest(w) PROVE IInv'
<1> USE DEF EndRequest, officeVars
<1>0. Admin \in Workers
  BY DEF Workers
<1> DEFINE gone == past.lost \cup tell[w]
<1>1. /\ past' \in Past /\ past'.lost = gone /\ past'.early = past.early /\ PastStays
  <2>1. gone \in SUBSET {"present", "checkout"} /\ past' = [past EXCEPT !.lost = gone]
    BY DEF IInv, TypeOK, Past
  <2> QED BY <2>1 DEF IInv, TypeOK, Past, PastStays
<1>2. TypeOK'
  BY <1>1 DEF IInv, TypeOK
<1>3. WorkInOrder'
  BY DEF IInv, TypeOK, WorkInOrder
<1>4. FillInOrder' /\ MappedPunchesCredited'
  BY <1>0, <1>1 DEF IInv, TypeOK, FillInOrder, MappedPunchesCredited, Unlinked
<1>5. RowPart'
  <2>1. Snaps' \subseteq Snaps
    BY DEF Snaps, IInv, TypeOK
  <2>2. Credited' = Credited
    BY DEF Credited
  <2>3. Tells
    BY <1>1 DEF Tells, IsTold, IInv, TypeOK
  <2> QED BY <1>1, <2>1, <2>2, <2>3, RowStays, Halves
<1> QED BY <1>2, <1>3, <1>4, <1>5 DEF IInv, RowPart

(* Messages are queued after the commit, or lost. *)
LEMMA TellStep == ASSUME IInv, NEW w \in Workers, Tell(w) PROVE IInv'
<1> USE DEF Tell, Queues, fillVars, officeVars
<1>0. Admin \in Workers
  BY DEF Workers
<1>1. /\ past' \in Past /\ past'.early = past.early /\ PastStays
      /\ past.lost \subseteq past'.lost /\ sms \subseteq sms'
      /\ tell[w] \subseteq past'.lost \cup sms'
      /\ sms' \in SUBSET {"present", "checkout"}
  <2>1. CASE sms' = sms \cup tell[w] /\ past' = past
    BY <2>1 DEF IInv, TypeOK, PastStays
  <2>2. CASE sms' = sms /\ past' = [past EXCEPT !.lost = @ \cup tell[w]]
    <3> DEFINE gone == past.lost \cup tell[w]
    <3>1. gone \in SUBSET {"present", "checkout"} /\ past' = [past EXCEPT !.lost = gone]
      BY <2>2 DEF IInv, TypeOK, Past
    <3> QED BY <2>2, <3>1 DEF IInv, TypeOK, Past, PastStays
  <2> QED BY <2>1, <2>2
<1>2. TypeOK'
  BY <1>1 DEF IInv, TypeOK
<1>3. WorkInOrder'
  BY DEF IInv, TypeOK, WorkInOrder
<1>4. FillInOrder' /\ MappedPunchesCredited'
  BY <1>0, <1>1 DEF IInv, TypeOK, FillInOrder, MappedPunchesCredited, Unlinked
<1>5. RowPart'
  <2>1. Snaps' = Snaps /\ Credited' = Credited
    BY DEF Snaps, Credited
  <2>2. Tells
    BY <1>1 DEF Tells, IsTold, IInv, TypeOK
  <2> QED BY <1>1, <2>1, <2>2, RowStays, Halves
<1> QED BY <1>2, <1>3, <1>4, <1>5 DEF IInv, RowPart

(* The commit of a punch: what happens to everything but the row. *)
LEMMA CreditFacts ==
    ASSUME IInv, NEW w \in Workers, at[w] = "read", NEW new \in Row \cup {None},
           NEW messages \in SUBSET {"present", "checkout"}, Credit(w, new, messages)
    PROVE  /\ TypeOK' /\ WorkPart'
           /\ row' = new /\ Snaps' \subseteq Snaps /\ Tells
           /\ \A k \in messages : IsTold(k)'
           /\ Credited' = Credited \cup {punch[w]} /\ punch[w] \in Punches \ Credited
           /\ past'.removed = past.removed /\ past'.touched = past.touched
           /\ past'.decided = past.decided /\ past'.since = past.since
           /\ past'.raced = (past.raced \/ row # snap[w])
           /\ past'.ordered = (past.ordered /\ \A q \in Credited : Time[q] < Time[punch[w]])
<1> USE DEF Credit, officeVars
<1> DEFINE raced == past.raced \/ row # snap[w]
           ordered == past.ordered /\ \A q \in Credited : Time[q] < Time[punch[w]]
           place == IF messages = {} THEN "open" ELSE "commit"
           p == punch[w]
<1>1. /\ p \in Punches /\ p # None /\ log[p] = IF w = Admin THEN "unlinked" ELSE "none"
      /\ \A v \in Workers : v # w => punch[v] # p
      /\ Admin \in Workers
  BY DEF IInv, WorkInOrder, TypeOK, Workers
<1>2. /\ past' \in Past /\ past'.raced = raced /\ past'.ordered = ordered
      /\ past'.removed = past.removed /\ past'.touched = past.touched
      /\ past'.decided = past.decided /\ past'.since = past.since
      /\ past'.lost = past.lost /\ past'.early = past.early
  <2>1. past \in Past /\ past' = [past EXCEPT !.raced = raced, !.ordered = ordered]
    BY DEF IInv, TypeOK
  <2>2. raced \in BOOLEAN /\ ordered \in BOOLEAN
    BY <2>1 DEF Past
  <2> HIDE DEF raced, ordered
  <2> QED BY <2>1, <2>2 DEF Past
<1>3. /\ log' = [log EXCEPT ![p] = "linked"] /\ todo' = todo \ {p}
      /\ tell' = [tell EXCEPT ![w] = messages] /\ at' = [at EXCEPT ![w] = place]
      /\ punch' = [punch EXCEPT ![w] = None] /\ snap' = [snap EXCEPT ![w] = None]
      /\ place \in {"open", "commit"} /\ (place = "open" => messages = {})
      /\ row' = new
      /\ UNCHANGED <<now, mapped, filled, knows, hand, leave, job, sms>>
  OBVIOUS
<1> HIDE DEF raced, ordered, place, p, Credit
<1>4. TypeOK'
  BY <1>1, <1>2, <1>3 DEF IInv, TypeOK
<1>5. WorkInOrder'
  <2>1. ASSUME NEW v \in Workers, v # w
        PROVE  /\ punch'[v] = punch[v] /\ at'[v] = at[v] /\ snap'[v] = snap[v] /\ tell'[v] = tell[v]
               /\ punch[v] \in Punches => log'[punch[v]] = log[punch[v]]
    BY <1>1, <1>3, <2>1 DEF IInv, TypeOK
  <2>2. /\ punch'[w] = None /\ snap'[w] = None /\ at'[w] = place /\ tell'[w] = messages
    BY <1>3 DEF IInv, TypeOK
  <2>3. \A q \in todo' : log'[q] = "unlinked"
    BY <1>3 DEF IInv, TypeOK, WorkInOrder
  <2>4. \A v \in Workers : punch[v] \in Punches \cup {None}
    BY DEF IInv, TypeOK
  <2>5. ASSUME NEW v \in Workers
        PROVE  /\ punch'[v] # None <=> at'[v] = "read"
               /\ at'[v] = "read" => log'[punch'[v]] = IF v = Admin THEN "unlinked" ELSE "none"
               /\ at'[v] # "read" => snap'[v] = None
               /\ at'[v] # "commit" => tell'[v] = {}
    <3>1. CASE v = w
      BY <1>3, <2>2, <3>1
    <3>2. CASE v # w
      BY <2>1, <2>4, <3>2 DEF IInv, WorkInOrder
    <3> QED BY <3>1, <3>2
  <2>6. ASSUME NEW v \in Workers, NEW u \in Workers, punch'[u] = punch'[v], punch'[v] # None
        PROVE  u = v
    BY <2>1, <2>2, <2>6 DEF IInv, WorkInOrder
  <2> QED BY <1>3, <2>3, <2>5, <2>6 DEF IInv, WorkInOrder
<1>6. FillInOrder' /\ MappedPunchesCredited'
  BY <1>1, <1>2, <1>3 DEF IInv, TypeOK, FillInOrder, MappedPunchesCredited, Unlinked
<1>7. Credited' = Credited \cup {p} /\ p \in Punches \ Credited
  BY <1>1, <1>3 DEF IInv, TypeOK, Credited
<1>8. Snaps' \subseteq Snaps
  BY <1>3 DEF IInv, TypeOK, Snaps
<1>9. tell[w] = {}
  BY DEF IInv, WorkInOrder
<1>10. \A k : IsTold(k)' <=> k \in messages \/ IsTold(k)
  BY <1>2, <1>3, <1>9 DEF IInv, TypeOK, IsTold
<1> QED BY <1>2, <1>3, <1>4, <1>5, <1>6, <1>7, <1>8, <1>10 DEF WorkPart, Tells, raced, ordered, p

LEMMA SnapFacts ==
    ASSUME IInv, NEW w \in Workers, snap[w] # None
    PROVE  snap[w] \in Snaps /\ snap[w] \in Row /\ Announced(snap[w])
<1>1. snap[w] \in Snaps
  BY DEF Snaps
<1> QED BY <1>1 DEF IInv, TypeOK, RowsAnnounced

(* A row that was read is still there, unless a leave was cancelled.       *)
LEMMA SnapLasts ==
    ASSUME IInv, NEW w \in Workers, snap[w] # None, ~past.removed
    PROVE  /\ row # None
           /\ Automatic(row) => Automatic(snap[w]) /\ snap[w].status = "ABSENT" /\ Credited = {}
<1>1. snap[w] \in Snaps
  BY SnapFacts
<1> QED BY <1>1 DEF IInv, RowsLast

(* The first credited punch of the day. *)
LEMMA DayBegins ==
    ASSUME NEW p \in Punches, Credited' = {p}, row' \in Row, row'.source = "k40",
           row'.in = Time[p], row'.out = 0, row'.status = Arrival(Time[p]),
           past'.removed => past'.touched
    PROVE  DayInOrder'
<1>1. Times(Credited') = {Time[p]}
  BY DEF Times
<1>2. Outs' = {}
  <2>1. Outs' = {t \in Times(Credited') : t >= OutFrom /\ t >= row'.in + Gap}
    BY DEF Outs
  <2> QED BY <1>1, <2>1, PunchTimes, DayAssumption
<1>3. row' # None
  BY NoneAssumption
<1> QED BY <1>1, <1>2, <1>3, PunchTimes DEF DayInOrder

LEMMA CreateRowStep ==
    ASSUME IInv, NEW w \in Workers, at[w] = "read", CreateRow(w)
    PROVE  IInv'
<1> DEFINE t == Time[punch[w]]
           new == NewRow(Arrival(t), "k40", t)
<1>1. t \in Instants /\ Arrival(t) \in Statuses \ {"ABSENT", "LEAVE"} /\ punch[w] \in Punches
  BY PunchTimes, ArrivalType DEF IInv, TypeOK, WorkInOrder
<1>2. /\ new \in Row /\ new.source = "k40" /\ new.in = t /\ new.out = 0 /\ new.status = Arrival(t)
      /\ new # None
  BY <1>1, NewRowFacts, NoneAssumption DEF IInv, TypeOK, Sources
<1>3. row = None /\ Credit(w, new, {"present"})
  BY DEF CreateRow
<1> HIDE DEF t, new
<1>4. /\ TypeOK' /\ WorkPart'
      /\ row' = new /\ Snaps' \subseteq Snaps /\ Tells /\ IsTold("present")'
      /\ Credited' = Credited \cup {punch[w]}
      /\ past'.removed = past.removed /\ past'.touched = past.touched
      /\ past'.decided = past.decided /\ past'.since = past.since
      /\ past'.raced = (past.raced \/ row # snap[w])
  BY <1>2, <1>3, CreditFacts
<1>5. RowsLast'
  BY <1>2, <1>4 DEF IInv, RowsLast, Automatic
<1>6. RowsAnnounced'
  <2>1. \A r : Announced(r) => Announced(r)'
    BY <1>4 DEF Announced, Tells
  <2> QED BY <1>2, <1>4, <2>1 DEF IInv, RowsAnnounced, Announced
<1>7. DecisionStands' /\ LaterDecisionWins'
  BY <1>2, <1>3, <1>4 DEF IInv, DecisionStands, LaterDecisionWins
<1>8. DayInOrder'
  <2>1. CASE past.raced \/ past.touched
    BY <1>4, <2>1 DEF IInv, DayInOrder
  <2>2. CASE Credited = {}
    BY <1>1, <1>2, <1>4, <2>2, DayBegins DEF IInv, DayInOrder, t
  <2> QED BY <1>3, <2>1, <2>2 DEF IInv, DayInOrder
<1> QED BY <1>4, <1>5, <1>6, <1>7, <1>8 DEF IInv, WorkPart

LEMMA KeepAbsentStep ==
    ASSUME IInv, NEW w \in Workers, at[w] = "read", KeepAbsent(w)
    PROVE  IInv'
<1> DEFINE t == Time[punch[w]]
<1>1. /\ row \in Row \cup {None} /\ snap[w] # None
      /\ snap[w].status = "ABSENT" /\ snap[w].source = "manual" /\ snap[w].updated > t
      /\ Credit(w, row, {})
  BY DEF KeepAbsent, LeftAlone, IInv, TypeOK
<1>2. /\ TypeOK' /\ WorkPart'
      /\ row' = row /\ Snaps' \subseteq Snaps /\ Tells
      /\ Credited' = Credited \cup {punch[w]} /\ punch[w] \in Punches
      /\ past'.removed = past.removed /\ past'.touched = past.touched
      /\ past'.decided = past.decided /\ past'.since = past.since
      /\ past'.raced = (past.raced \/ row # snap[w])
  BY <1>1, CreditFacts
<1>3. RowsLast'
  BY <1>1, <1>2, SnapLasts DEF IInv, RowsLast, Automatic
<1>4. RowsAnnounced'
  <2>1. \A r : Announced(r) => Announced(r)'
    BY <1>2 DEF Announced, Tells
  <2> QED BY <1>2, <2>1 DEF IInv, RowsAnnounced
<1>5. DecisionStands'
  BY <1>2 DEF IInv, DecisionStands
<1>6. LaterDecisionWins'
  <2> SUFFICES ASSUME past.decided # 0, ~past.raced, row = snap[w]
               PROVE  row.status = "ABSENT" /\ \A p \in Credited' \ past.since : Time[p] < past.decided
    BY <1>1, <1>2 DEF LaterDecisionWins
  <2>1. row.updated = past.decided
    BY <1>1 DEF IInv, DecisionStands
  <2>2. t < past.decided
    BY <1>1, <1>2, <2>1, PunchTimes, SnapFacts DEF Row, Instants
  <2> QED BY <1>1, <1>2, <2>2 DEF IInv, LaterDecisionWins
<1>7. DayInOrder'
  <2>1. CASE past'.raced \/ past'.touched
    BY <1>2, <2>1 DEF IInv, DayInOrder
  <2>2. CASE ~past'.raced /\ ~past'.touched
    <3>1. row = snap[w] /\ ~past.raced /\ ~past.touched
      BY <1>2, <2>2
    <3> QED BY <1>1, <3>1 DEF IInv, DayInOrder, AutoAbsent
  <2> QED BY <2>1, <2>2
<1> QED BY <1>2, <1>3, <1>4, <1>5, <1>6, <1>7 DEF IInv, WorkPart

LEMMA UpgradeStep ==
    ASSUME IInv, NEW w \in Workers, at[w] = "read", Upgrade(w)
    PROVE  IInv'
<1> DEFINE t == Time[punch[w]]
           r == [row EXCEPT !.status = Arrival(t), !.source = "k40", !.in = t]
           new == Touched(r)
<1>1. t \in Instants /\ Arrival(t) \in Statuses \ {"ABSENT", "LEAVE"} /\ punch[w] \in Punches /\ t \in Nat
  BY PunchTimes, ArrivalType DEF IInv, TypeOK, WorkInOrder
<1>2. /\ snap[w] # None /\ snap[w].status = "ABSENT" /\ ~LeftAlone(snap[w], t) /\ row \in Row
      /\ Credit(w, new, {"present"})
  BY DEF Upgrade, Finds, IInv, TypeOK
<1>3. r \in Row /\ r.source = "k40" /\ r.in = t /\ r.out = row.out /\ r.status = Arrival(t)
  BY <1>1, <1>2 DEF Row, Sources
<1> HIDE DEF r
<1>4. /\ new \in Row /\ new.source = "k40" /\ new.in = t /\ new.out = row.out /\ new.status = Arrival(t)
      /\ new # None
  BY <1>3, TouchedFacts, NoneAssumption DEF IInv, TypeOK
<1> HIDE DEF t, new
<1>5. /\ TypeOK' /\ WorkPart'
      /\ row' = new /\ Snaps' \subseteq Snaps /\ Tells /\ IsTold("present")'
      /\ Credited' = Credited \cup {punch[w]} /\ punch[w] \notin Credited
      /\ past'.removed = past.removed /\ past'.touched = past.touched
      /\ past'.decided = past.decided /\ past'.since = past.since
      /\ past'.raced = (past.raced \/ row # snap[w])
  BY <1>2, <1>4, CreditFacts
<1>6. RowsLast'
  BY <1>4, <1>5 DEF IInv, RowsLast, Automatic
<1>7. RowsAnnounced'
  <2>1. \A x : Announced(x) => Announced(x)'
    BY <1>5 DEF Announced, Tells
  <2>2. Announced(row)
    BY <1>2, NoneAssumption DEF IInv, RowsAnnounced
  <2> QED BY <1>4, <1>5, <2>1, <2>2 DEF IInv, RowsAnnounced, Announced, Tells
<1>8. DecisionStands'
  BY <1>1, <1>4, <1>5 DEF IInv, DecisionStands
<1>9. LaterDecisionWins'
  <2> SUFFICES ASSUME past.decided # 0, ~past.raced, row = snap[w]
               PROVE  ~(Time[punch[w]] < past.decided) /\ punch[w] \notin past.since
    BY <1>1, <1>4, <1>5 DEF LaterDecisionWins
  <2>1. row.source = "manual" /\ row.updated = past.decided
    BY <1>2 DEF IInv, DecisionStands
  <2>2. ~(t < past.decided)
    BY <1>1, <1>2, <2>1 DEF LeftAlone, Row, Instants
  <2> QED BY <1>5, <2>2 DEF IInv, DecisionStands, t
<1>10. DayInOrder'
  <2>1. CASE past'.raced \/ past'.touched
    BY <1>5, <2>1 DEF IInv, DayInOrder
  <2>2. CASE ~past'.raced /\ ~past'.touched
    <3>1. row = snap[w] /\ ~past.raced /\ ~past.touched
      BY <1>5, <2>2
    <3>2. Credited = {} /\ row.out = 0
      BY <1>2, <3>1, ArrivalType, NoneAssumption DEF IInv, DayInOrder
    <3> QED BY <1>1, <1>4, <1>5, <3>2, DayBegins DEF IInv, DayInOrder, t
  <2> QED BY <2>1, <2>2
<1> QED BY <1>5, <1>6, <1>7, <1>8, <1>9, <1>10 DEF IInv, WorkPart

(* A later punch of a day in order. *)
LEMMA DayGoesOn ==
    ASSUME IInv, NEW p \in Punches \ Credited, Credited' = Credited \cup {p},
           row \in Row, row.status # "ABSENT", row' \in Row, row'.source = row.source,
           past'.removed = past.removed, past'.touched = past.touched,
           past'.raced => past.raced, ~past.raced, ~past.touched,
           past'.ordered = (past.ordered /\ \A q \in Credited : Time[q] < Time[p]),
           \/ /\ IsCheckOut(row, Time[p])
              /\ row'.in = row.in /\ row'.status = row.status
              /\ row'.out = IF Time[p] > row.out THEN Time[p] ELSE row.out
           \/ /\ ~IsCheckOut(row, Time[p])
              /\ row'.out = row.out
              /\ IF row.in = 0 \/ Time[p] < row.in
                 THEN /\ row'.in = Time[p]
                      /\ row.source = "k40" /\ row.status \in {"PRESENT", "LATE"} =>
                            row'.status = Arrival(Time[p])
                 ELSE row'.in = row.in /\ row'.status = row.status
    PROVE  DayInOrder'
<1> DEFINE t == Time[p]
           T == Times(Credited)
<1>1. t \in Nat /\ t # 0 /\ \A u \in T : u \in Nat /\ u # 0
  BY PunchTimes DEF Times, Credited
<1>2. /\ row # None /\ Credited # {}
      /\ row.source = "k40" /\ row.in \in T /\ \A u \in T : row.in <= u
      /\ row.status = Arrival(row.in)
      /\ row.out \in {0} \cup T
      /\ past.ordered => IF Outs = {} THEN row.out = 0
                         ELSE row.out \in Outs /\ \A u \in Outs : u <= row.out
  BY NoneAssumption DEF IInv, DayInOrder, AutoAbsent
<1>3. Times(Credited') = T \cup {t}
  BY DEF Times
<1>4. past'.ordered => past.ordered /\ \A u \in T : u < t
  BY DEF Times
<1>5. row' # None /\ Credited' # {} /\ (past'.removed => past'.touched)
  BY NoneAssumption DEF IInv, DayInOrder
<1>6. /\ Outs = {u \in T : u >= OutFrom /\ u >= row.in + Gap}
      /\ Outs' = {u \in T \cup {t} : u >= OutFrom /\ u >= row'.in + Gap}
  BY <1>3 DEF Outs
<1>7. row.status \in {"PRESENT", "LATE"} /\ row.in # 0 /\ row.in \in Nat
  BY <1>1, <1>2, ArrivalType DEF Statuses
<1> HIDE DEF t, T
<1>8. CASE IsCheckOut(row, t)
  <2>1. t >= OutFrom /\ t >= row.in + Gap
    BY <1>8 DEF IsCheckOut
  <2>2. /\ row'.in = row.in /\ row'.status = row.status
        /\ row'.out = IF t > row.out THEN t ELSE row.out
    BY <1>8 DEF t
  <2>3. row.in <= t
    BY <1>1, <1>7, <2>1, DayAssumption
  <2>4. row'.in \in T \cup {t} /\ \A u \in T \cup {t} : row'.in <= u
    BY <1>2, <2>2, <2>3
  <2>5. row'.out \in {0} \cup T \cup {t}
    BY <1>2, <2>2
  <2>6. past'.ordered => row'.out = t /\ t \in Outs' /\ \A u \in Outs' : u <= t
    BY <1>1, <1>2, <1>4, <1>6, <2>1, <2>2
  <2> QED BY <1>2, <1>3, <1>5, <2>2, <2>4, <2>5, <2>6 DEF DayInOrder
<1>9. CASE ~IsCheckOut(row, t)
  <2>1. ~(t >= OutFrom /\ t >= row.in + Gap)
    BY <1>7, <1>9 DEF IsCheckOut
  <2>2. CASE t < row.in
    <3>1. row'.in = t /\ row'.status = Arrival(t) /\ row'.out = row.out
      BY <1>2, <1>7, <1>9, <2>2 DEF t
    <3>2. ~past'.ordered
      BY <1>1, <1>2, <1>4, <2>2
    <3>3. \A u \in T \cup {t} : t <= u
      BY <1>1, <1>2, <1>7, <2>2
    <3> QED BY <1>2, <1>3, <1>5, <3>1, <3>2, <3>3 DEF DayInOrder
  <2>3. CASE ~(t < row.in)
    <3>1. row'.in = row.in /\ row'.status = row.status /\ row'.out = row.out
      BY <1>7, <1>9, <2>3 DEF t
    <3>2. \A u \in T \cup {t} : row.in <= u
      BY <1>1, <1>2, <1>7, <2>3
    <3>3. Outs' = Outs
      BY <1>6, <2>1, <3>1
    <3> QED BY <1>2, <1>3, <1>4, <1>5, <3>1, <3>2, <3>3 DEF DayInOrder
  <2> QED BY <2>2, <2>3
<1> QED BY <1>8, <1>9

(* A punch that finds a row that is not ABSENT: the row keeps its source   *)
(* and stays in the day, and a check-out it gets is told.                  *)
MovesTimes(s, t, new) ==
    \/ /\ IsCheckOut(s, t)
       /\ new.in = s.in /\ new.status = s.status
       /\ new.out = IF t > s.out THEN t ELSE s.out
    \/ /\ ~IsCheckOut(s, t)
       /\ new.out = s.out
       /\ IF s.in = 0 \/ t < s.in
          THEN /\ new.in = t
               /\ s.source = "k40" /\ s.status \in {"PRESENT", "LATE"} => new.status = Arrival(t)
          ELSE new.in = s.in /\ new.status = s.status
LEMMA LaterPunchStep ==
    ASSUME IInv, NEW w \in Workers, at[w] = "read", snap[w] # None, snap[w].status # "ABSENT",
           NEW new \in Row \cup {None}, NEW messages \in SUBSET {"present", "checkout"},
           Credit(w, new, messages),
           row = None => new = None,
           row # None => /\ new # None /\ new.source = row.source
                         /\ row.status # "ABSENT" => new.status # "ABSENT"
                         /\ new.out # row.out => "checkout" \in messages \/ IsTold("checkout"),
           row = snap[w] => MovesTimes(row, Time[punch[w]], new)
    PROVE  IInv'
<1>1. /\ TypeOK' /\ WorkPart'
      /\ row' = new /\ Snaps' \subseteq Snaps /\ Tells
      /\ \A k \in messages : IsTold(k)'
      /\ Credited' = Credited \cup {punch[w]} /\ punch[w] \in Punches \ Credited
      /\ past'.removed = past.removed /\ past'.touched = past.touched
      /\ past'.decided = past.decided /\ past'.since = past.since
      /\ past'.raced = (past.raced \/ row # snap[w])
      /\ past'.ordered = (past.ordered /\ \A q \in Credited : Time[q] < Time[punch[w]])
  BY CreditFacts
<1>2. RowsLast'
  BY <1>1, SnapLasts DEF IInv, RowsLast, Automatic
<1>3. RowsAnnounced'
  <2>1. \A x : Announced(x) => Announced(x)'
    BY <1>1 DEF Announced, Tells
  <2>2. row # None => Announced(row)
    BY DEF IInv, RowsAnnounced
  <2>3. ASSUME row # None PROVE Announced(new)'
    <3>1. row.source = "k40" => IsTold("present")'
      BY <1>1, <2>2, <2>3 DEF Announced, Tells
    <3>2. row.out # 0 => IsTold("checkout")'
      BY <1>1, <2>2, <2>3 DEF Announced, Tells
    <3>3. IsTold("checkout") => IsTold("checkout")'
      BY <1>1 DEF Tells
    <3>4. new.source = row.source /\ (new.out # row.out => IsTold("checkout")')
      BY <1>1, <2>3, <3>3
    <3> QED BY <3>1, <3>2, <3>4 DEF Announced
  <2> QED BY <1>1, <2>1, <2>3 DEF IInv, RowsAnnounced
<1>4. DecisionStands'
  BY <1>1 DEF IInv, DecisionStands
<1>5. LaterDecisionWins'
  BY <1>1 DEF IInv, DecisionStands, LaterDecisionWins
<1>6. DayInOrder'
  <2>1. CASE past'.raced \/ past'.touched
    BY <1>1, <2>1 DEF IInv, DayInOrder
  <2>2. CASE ~past'.raced /\ ~past'.touched
    <3>1. row = snap[w] /\ ~past.raced /\ ~past.touched /\ row \in Row /\ row' \in Row
      BY <1>1, <2>2 DEF IInv, TypeOK
    <3>2. MovesTimes(row, Time[punch[w]], row')
      BY <1>1, <3>1
    <3> QED BY <1>1, <2>2, <3>1, <3>2, DayGoesOn DEF MovesTimes
  <2> QED BY <2>1, <2>2
<1> QED BY <1>1, <1>2, <1>3, <1>4, <1>5, <1>6 DEF IInv, WorkPart

LEMMA CheckOutStep ==
    ASSUME IInv, NEW w \in Workers, at[w] = "read", CheckOut(w)
    PROVE  IInv'
<1> DEFINE s == snap[w]
           t == Time[punch[w]]
           later == t > s.out
           r == [row EXCEPT !.out = t]
           new == IF later THEN Touched(r) ELSE row
           messages == IF s.out = 0 THEN {"checkout"} ELSE {}
<1>1. /\ s # None /\ s.status # "ABSENT" /\ IsCheckOut(s, t) /\ (later => row \in Row)
      /\ Credit(w, new, messages) /\ messages \in SUBSET {"present", "checkout"}
      /\ row \in Row \cup {None} /\ t \in Instants
  BY PunchTimes DEF CheckOut, Finds, IInv, TypeOK, WorkInOrder
<1>2. later => /\ Touched(r) \in Row /\ Touched(r).source = row.source
               /\ Touched(r).in = row.in /\ Touched(r).out = t /\ Touched(r).status = row.status
  <2> SUFFICES ASSUME later
               PROVE  /\ Touched(r) \in Row /\ Touched(r).source = row.source
                      /\ Touched(r).in = row.in /\ Touched(r).out = t /\ Touched(r).status = row.status
    OBVIOUS
  <2>1. r \in Row /\ r.source = row.source /\ r.in = row.in /\ r.out = t /\ r.status = row.status
    BY <1>1 DEF Row
  <2> HIDE DEF r
  <2> QED BY <2>1, TouchedFacts DEF IInv, TypeOK
<1>3. s.out # 0 => IsTold("checkout")
  BY <1>1, SnapFacts DEF Announced
<1>4. /\ new \in Row \cup {None} /\ (row = None => new = None)
      /\ row # None => /\ new # None /\ new.source = row.source /\ new.in = row.in
                       /\ new.status = row.status /\ (new.out # row.out => later)
                       /\ new.out = IF later THEN t ELSE row.out
  BY <1>1, <1>2, NoneAssumption
<1>5. row = s => MovesTimes(row, t, new)
  BY <1>1, <1>4 DEF MovesTimes
<1>6. s.out = 0 => "checkout" \in messages
  OBVIOUS
<1> HIDE DEF new, messages, r, later, t
<1> QED BY <1>1, <1>3, <1>4, <1>5, <1>6, LaterPunchStep DEF t

LEMMA CheckInStep ==
    ASSUME IInv, NEW w \in Workers, at[w] = "read", CheckIn(w)
    PROVE  IInv'
<1> DEFINE s == snap[w]
           t == Time[punch[w]]
           arrived == s.source = "k40" /\ s.status \in {"PRESENT", "LATE"}
           st == IF arrived THEN Arrival(t) ELSE row.status
           earlier == EarlierCheckIn(s, t)
           r == [row EXCEPT !.in = t, !.status = st]
           new == IF ~earlier THEN row ELSE Touched(r)
           messages == IF arrived THEN {"present"} ELSE {}
<1>1. /\ s # None /\ s.status # "ABSENT" /\ ~IsCheckOut(s, t) /\ (earlier => row \in Row)
      /\ messages \in SUBSET {"present", "checkout"}
      /\ row \in Row \cup {None} /\ t \in Instants
  BY PunchTimes DEF CheckIn, Finds, IInv, TypeOK, WorkInOrder
<1>2. Credit(w, new, messages)
  BY DEF CheckIn
<1>3. earlier => /\ Touched(r) \in Row /\ Touched(r).source = row.source
                 /\ Touched(r).in = t /\ Touched(r).out = row.out /\ Touched(r).status = st
  <2> SUFFICES ASSUME earlier
               PROVE  /\ Touched(r) \in Row /\ Touched(r).source = row.source
                      /\ Touched(r).in = t /\ Touched(r).out = row.out /\ Touched(r).status = st
    OBVIOUS
  <2>1. r \in Row /\ r.source = row.source /\ r.in = t /\ r.out = row.out /\ r.status = st
    BY <1>1, ArrivalType DEF Row
  <2> HIDE DEF r, st
  <2> QED BY <2>1, TouchedFacts DEF IInv, TypeOK
<1>4. /\ new \in Row \cup {None} /\ (row = None => new = None)
      /\ row # None => /\ new # None /\ new.source = row.source /\ new.out = row.out
                       /\ new.in = IF earlier THEN t ELSE row.in
                       /\ new.status = IF earlier THEN st ELSE row.status
  BY <1>1, <1>3, NoneAssumption
<1>5. row.status # "ABSENT" => st # "ABSENT"
  BY ArrivalType
<1>6. row = s => MovesTimes(row, t, new)
  BY <1>1, <1>4 DEF MovesTimes, EarlierCheckIn
<1> HIDE DEF new, messages, r, st, earlier, arrived, t
<1> QED BY <1>1, <1>2, <1>4, <1>5, <1>6, LaterPunchStep DEF t

LEMMA SavePunchStep ==
    ASSUME IInv, NEW w \in Workers, SavePunch(w)
    PROVE  IInv'
BY CreateRowStep, CollideStep, KeepAbsentStep, UpgradeStep, CheckOutStep, CheckInStep DEF SavePunch

---------------------------------------------------------------------------
(* The office and the job. *)

(* They leave the requests and the back-fill alone. *)
LEMMA WorkStays ==
    ASSUME IInv, UNCHANGED <<log, mapped, todo, filled, at, punch, snap, tell>>,
           past'.early = past.early, hand'.at = "read" => hand'.left > 0
    PROVE  WorkPart'
BY DEF IInv, WorkPart, WorkInOrder, FillInOrder, MappedPunchesCredited, Unlinked

(* The row is written by hand or for a leave. *)
LEMMA RowWritten ==
    ASSUME IInv, NEW new \in Row, row' = new, Credited' = Credited, Tells, Snaps' \subseteq Snaps,
           past'.touched, past'.removed = past.removed,
           \/ past'.decided = 0 /\ past'.since = {}
           \/ /\ past'.decided = now /\ past'.since = Credited
              /\ new.status = "ABSENT" /\ new.source = "manual" /\ new.updated = now,
           Automatic(new) => row # None /\ Automatic(row) /\ new.status = row.status,
           new.source = "k40" => IsTold("present"),
           new.out # 0 => IsTold("checkout")
    PROVE  RowPart'
<1>1. new # None
  BY NoneAssumption
<1>2. RowsLast'
  BY <1>1 DEF IInv, RowsLast
<1>3. RowsAnnounced'
  <2>1. \A r : Announced(r) => Announced(r)'
    BY DEF Announced, Tells
  <2> QED BY <2>1 DEF IInv, RowsAnnounced, Announced
<1>4. DecisionStands'
  BY <1>1 DEF DecisionStands
<1>5. LaterDecisionWins'
  BY DEF LaterDecisionWins
<1>6. DayInOrder'
  BY DEF DayInOrder
<1> QED BY <1>2, <1>3, <1>4, <1>5, <1>6 DEF RowPart

LEMMA HandReadStep == IInv /\ HandRead => IInv'
<1> SUFFICES ASSUME IInv, HandRead PROVE IInv'
  OBVIOUS
<1> USE DEF HandRead, fillVars, workVars
<1>1. hand' \in Hand /\ hand'.snap = row /\ hand'.left > 0
  BY DEF IInv, TypeOK, Hand
<1>2. TypeOK'
  BY <1>1 DEF IInv, TypeOK
<1>3. WorkPart'
  BY <1>1, WorkStays
<1>4. RowPart'
  <2>1. Snaps' \subseteq Snaps \cup ({row} \ {None})
    BY <1>1 DEF Snaps
  <2>2. Credited' = Credited /\ PastStays /\ Tells
    BY TellsStay DEF Credited, PastStays
  <2> QED BY <2>1, <2>2, RowStays, Halves
<1> QED BY <1>2, <1>3, <1>4 DEF IInv, WorkPart, RowPart

(* A write by hand, of a new row or of the one that was read. *)
LEMMA HandWritesStep ==
    ASSUME IInv, hand.at = "read", NEW new \in Row, HandWrites(new),
           UNCHANGED <<now, log, fillVars, workVars, leave, job, sms>>,
           new.status = "ABSENT" /\ new.source = "manual" => new.updated = now,
           Automatic(new) => row # None /\ Automatic(row) /\ new.status = row.status,
           new.source = "k40" => row # None /\ row.source = "k40",
           new.out # 0 => row # None /\ row.out # 0
    PROVE  IInv'
<1> USE DEF fillVars, workVars
<1> DEFINE absent == new.status = "ABSENT" /\ new.source = "manual"
           raced == past.raced \/ row # hand.snap
           decided == IF absent THEN now ELSE 0
           since == IF absent THEN Credited ELSE {}
<1>1. /\ row' = new
      /\ past' = [past EXCEPT !.raced = raced, !.touched = TRUE, !.decided = decided, !.since = since]
      /\ hand' = [at |-> "idle", snap |-> None, left |-> hand.left - 1]
  BY DEF HandWrites, HandDone
<1>2. raced \in BOOLEAN /\ decided \in Instants /\ since \in SUBSET Punches
  <2>1. past \in Past /\ now \in Instants /\ 0 \in Instants
    BY DayAssumption DEF IInv, TypeOK, Instants
  <2> QED BY <2>1 DEF Past, Credited
<1>3. /\ past' \in Past /\ past'.touched /\ past'.removed = past.removed
      /\ past'.decided = decided /\ past'.since = since
      /\ past'.lost = past.lost /\ past'.early = past.early
  <2>1. past \in Past
    BY DEF IInv, TypeOK
  <2> HIDE DEF raced, decided, since
  <2> QED BY <1>1, <1>2, <2>1 DEF Past
<1>4. hand' \in Hand /\ hand'.snap = None /\ hand'.at = "idle"
  BY <1>1, DayAssumption DEF IInv, TypeOK, WorkInOrder, Hand
<1>5. TypeOK'
  BY <1>1, <1>3, <1>4 DEF IInv, TypeOK
<1>6. WorkPart'
  BY <1>3, <1>4, WorkStays
<1>7. RowPart'
  <2>1. Credited' = Credited /\ Tells /\ Snaps' \subseteq Snaps
    BY <1>3, <1>4, TellsStay DEF Credited, Snaps
  <2>2. row # None => Announced(row)
    BY DEF IInv, RowsAnnounced
  <2> QED BY <1>1, <1>3, <2>1, <2>2, RowWritten DEF Announced
<1> QED BY <1>5, <1>6, <1>7 DEF IInv, WorkPart, RowPart

(* The office leaves the row as it is. *)
LEMMA HandDoneStep ==
    ASSUME IInv, hand.at = "read", NEW n \in {0, 1}, HandDone(n),
           UNCHANGED <<now, row, log, fillVars, workVars, leave, job, sms, past>>
    PROVE  IInv'
<1> USE DEF HandDone, fillVars, workVars
<1>1. hand' \in Hand /\ hand'.snap = None /\ hand'.at = "idle"
  BY DayAssumption DEF IInv, TypeOK, WorkInOrder, Hand
<1>2. TypeOK'
  BY <1>1 DEF IInv, TypeOK
<1>3. WorkPart'
  BY <1>1, WorkStays
<1>4. RowPart'
  <2>1. Snaps' \subseteq Snaps
    BY <1>1 DEF Snaps
  <2>2. Credited' = Credited /\ PastStays /\ Tells
    BY TellsStay DEF Credited, PastStays
  <2> QED BY <2>1, <2>2, RowStays, Halves
<1> QED BY <1>2, <1>3, <1>4 DEF IInv, WorkPart, RowPart

LEMMA HandSaveStep == IInv /\ HandSave => IInv'
<1> SUFFICES ASSUME IInv, HandSave PROVE IInv'
  OBVIOUS
<1>0. /\ hand.at = "read" /\ now \in Instants /\ row \in Row \cup {None}
      /\ UNCHANGED <<now, log, fillVars, workVars, leave, job, sms>>
  BY DEF HandSave, IInv, TypeOK
<1>1. CASE HandLeaves \/ HandCollides
  BY <1>0, <1>1, HandDoneStep DEF HandLeaves, HandCollides
<1>2. ASSUME NEW st \in Statuses, HandCreates(st) PROVE IInv'
  <2> DEFINE new == NewRow(st, "manual", 0)
  <2>1. /\ new \in Row /\ new.status = st /\ new.source = "manual" /\ new.out = 0
        /\ st = "ABSENT" => new.updated = now
    BY <1>0, NewRowFacts, DayAssumption DEF Statuses, Sources, Instants
  <2>2. HandWrites(new)
    BY <1>2 DEF HandCreates
  <2> HIDE DEF new
  <2> QED BY <1>0, <2>1, <2>2, HandWritesStep DEF Automatic
<1>3. ASSUME NEW st \in Statuses, NEW right \in BOOLEAN, HandChanges(st, right)
      PROVE  IInv'
  <2> DEFINE r == [row EXCEPT !.status = st, !.source = "manual"]
             new == Touched(r)
  <2>1. row \in Row /\ row # None /\ HandWrites(new)
    BY <1>0, <1>3 DEF HandChanges, Finds
  <2>2. r \in Row /\ r.status = st /\ r.source = "manual" /\ r.out = row.out
    BY <2>1 DEF Row, Statuses, Sources
  <2> HIDE DEF r
  <2>3. /\ new \in Row /\ new.status = st /\ new.source = "manual" /\ new.out = row.out
        /\ st = "ABSENT" => new.updated = now
    BY <1>0, <2>2, TouchedFacts
  <2> HIDE DEF new
  <2> QED BY <1>0, <2>1, <2>3, HandWritesStep DEF Automatic
<1>4. ASSUME NEW st \in Statuses, NEW right \in BOOLEAN, HandRemarks(st, right)
      PROVE  IInv'
  <2> DEFINE r == IF right THEN [row EXCEPT !.status = st, !.source = "manual"] ELSE row
             new == Touched(r)
  <2>1. row \in Row /\ row # None /\ HandWrites(new)
    BY <1>0, <1>4 DEF HandRemarks, Finds
  <2>2. /\ r \in Row /\ r.out = row.out
        /\ r.source = "manual" \/ r = row
    BY <2>1 DEF Row, Statuses, Sources
  <2> HIDE DEF r
  <2>3. /\ new \in Row /\ new.status = r.status /\ new.source = r.source /\ new.out = row.out
        /\ new.status = "ABSENT" /\ new.source = "manual" => new.updated = now
    BY <1>0, <2>2, TouchedFacts
  <2> HIDE DEF new
  <2> QED BY <1>0, <2>1, <2>2, <2>3, HandWritesStep DEF Automatic
<1> QED BY <1>1, <1>2, <1>3, <1>4 DEF HandSave

LEMMA LeaveReadsStep == IInv /\ LeaveReads => IInv'
<1> SUFFICES ASSUME IInv, LeaveReads PROVE IInv'
  OBVIOUS
<1> USE DEF LeaveReads, fillVars, workVars
<1>1. leave' \in Leave /\ leave'.snap \in {row, leave.snap}
  BY DEF IInv, TypeOK, Leave
<1>2. TypeOK'
  BY <1>1 DEF IInv, TypeOK
<1>3. WorkPart'
  BY WorkStays DEF IInv, WorkInOrder
<1>4. RowPart'
  <2>1. Snaps' \subseteq Snaps \cup ({row} \ {None})
    BY <1>1 DEF Snaps
  <2>2. Credited' = Credited /\ PastStays /\ Tells
    BY TellsStay DEF Credited, PastStays
  <2> QED BY <2>1, <2>2, RowStays, Halves
<1> QED BY <1>2, <1>3, <1>4 DEF IInv, WorkPart, RowPart

(* A leave fills an empty day or takes the place of an ABSENT. *)
LEMMA LeaveAppliesStep == IInv /\ LeaveApplies => IInv'
<1> SUFFICES ASSUME IInv, LeaveApplies PROVE IInv'
  OBVIOUS
<1> USE DEF fillVars, workVars
<1> DEFINE s == leave.snap
           changed == row' # row
           raced == past.raced \/ (changed /\ row # s)
           touched == past.touched \/ changed
           decided == IF changed THEN 0 ELSE past.decided
           since == IF changed THEN {} ELSE past.since
           r == [row EXCEPT !.status = "LEAVE", !.source = "leave"]
<1>0. /\ past \in Past /\ now \in Instants /\ row \in Row \cup {None} /\ 0 \in Instants
      /\ past.raced \in BOOLEAN /\ past.touched \in BOOLEAN /\ past.decided \in Instants
      /\ past.since \in SUBSET Punches
  BY DayAssumption DEF IInv, TypeOK, Instants, Past
<1>1. /\ past' = [past EXCEPT !.raced = raced, !.touched = touched,
                              !.decided = decided, !.since = since]
      /\ leave' = [status |-> "APPROVED", at |-> "idle", snap |-> None]
      /\ UNCHANGED <<now, log, mapped, todo, filled, at, knows, punch, snap, tell, hand, job, sms>>
      /\ \/ row' = row
         \/ row = None /\ row' = NewRow("LEAVE", "leave", 0)
         \/ row # None /\ row' = Touched(r)
  BY DEF LeaveApplies, LeaveDone, Finds
<1>2. changed => /\ row' \in Row /\ row'.status = "LEAVE" /\ row'.source = "leave"
                 /\ row'.out = IF row = None THEN 0 ELSE row.out
  <2>1. CASE row' = row
    BY <2>1
  <2>2. CASE row = None /\ row' = NewRow("LEAVE", "leave", 0)
    BY <1>0, <2>2, NewRowFacts DEF Statuses, Sources
  <2>3. CASE row # None /\ row' = Touched(r)
    <3>1. r \in Row /\ r.status = "LEAVE" /\ r.source = "leave" /\ r.out = row.out
      BY <1>0, <2>3 DEF Row, Statuses, Sources
    <3> HIDE DEF r
    <3> QED BY <1>0, <2>3, <3>1, TouchedFacts
  <2> QED BY <1>1, <2>1, <2>2, <2>3
<1>3. /\ past' \in Past /\ past'.touched = touched /\ past'.raced = raced
      /\ past'.removed = past.removed /\ past'.ordered = past.ordered
      /\ past'.decided = decided /\ past'.since = since
      /\ past'.lost = past.lost /\ past'.early = past.early
  <2>1. raced \in BOOLEAN /\ touched \in BOOLEAN /\ decided \in Instants /\ since \in SUBSET Punches
    BY <1>0
  <2> HIDE DEF raced, touched, decided, since
  <2> QED BY <1>0, <1>1, <2>1 DEF Past
<1>4. leave' \in Leave /\ leave'.snap = None
  BY <1>1 DEF Leave
<1>5. TypeOK'
  <2>1. row' \in Row \cup {None}
    BY <1>0, <1>2
  <2> QED BY <1>1, <1>3, <1>4, <2>1 DEF IInv, TypeOK
<1>6. WorkPart'
  BY <1>1, <1>3, WorkStays DEF IInv, WorkInOrder
<1>7. Credited' = Credited /\ Tells /\ Snaps' \subseteq Snaps
  BY <1>1, <1>3, <1>4, TellsStay DEF Credited, Snaps
<1>8. RowPart'
  <2>1. CASE ~changed
    BY <1>0, <1>3, <1>7, <2>1, RowStays, Halves DEF PastStays
  <2>2. CASE changed
    <3>1. row # None => Announced(row)
      BY DEF IInv, RowsAnnounced
    <3>2. row'.out # 0 => IsTold("checkout")
      BY <1>2, <2>2, <3>1 DEF Announced
    <3>3. past'.decided = 0 /\ past'.since = {} /\ past'.touched
      BY <1>0, <1>3, <2>2
    <3>4. \A new : row' = new => new.source = "leave"
      BY <1>2, <2>2
    <3> HIDE DEF changed
    <3> QED BY <1>2, <1>3, <1>7, <2>2, <3>2, <3>3, RowWritten DEF Automatic
  <2> QED BY <2>1, <2>2
<1> QED BY <1>5, <1>6, <1>8 DEF IInv, WorkPart, RowPart

(* Closing a leave takes its row away: the day has no row then, whatever   *)
(* was credited.                                                           *)
LEMMA LeaveRemovesStep == IInv /\ LeaveRemoves => IInv'
<1> SUFFICES ASSUME IInv, LeaveRemoves PROVE IInv'
  OBVIOUS
<1> USE DEF fillVars, workVars
<1> DEFINE gone == Removes(leave.snap) /\ Finds(leave.snap)
           raced == past.raced \/ (gone /\ row # leave.snap)
           touched == past.touched \/ gone
           removed == past.removed \/ gone
           decided == IF gone THEN 0 ELSE past.decided
           since == IF gone THEN {} ELSE past.since
<1>0. /\ past \in Past /\ row \in Row \cup {None} /\ 0 \in Instants
      /\ past.raced \in BOOLEAN /\ past.touched \in BOOLEAN /\ past.removed \in BOOLEAN
      /\ past.decided \in Instants /\ past.since \in SUBSET Punches
  BY DayAssumption DEF IInv, TypeOK, Instants, Past
<1>1. /\ past' = [past EXCEPT !.raced = raced, !.touched = touched, !.removed = removed,
                              !.decided = decided, !.since = since]
      /\ leave' = [status |-> "CLOSED", at |-> "idle", snap |-> None]
      /\ UNCHANGED <<now, log, mapped, todo, filled, at, knows, punch, snap, tell, hand, job, sms>>
      /\ row' = IF gone THEN None ELSE row
  BY DEF LeaveRemoves, LeaveDone
<1>2. gone \in BOOLEAN
  BY DEF Removes, Finds
<1> HIDE DEF gone
<1>3. /\ past' \in Past /\ past'.touched = touched /\ past'.raced = raced
      /\ past'.removed = removed /\ past'.ordered = past.ordered
      /\ past'.decided = decided /\ past'.since = since
      /\ past'.lost = past.lost /\ past'.early = past.early
  <2>1. /\ raced \in BOOLEAN /\ touched \in BOOLEAN /\ removed \in BOOLEAN
        /\ decided \in Instants /\ since \in SUBSET Punches
    BY <1>0, <1>2
  <2> HIDE DEF raced, touched, removed, decided, since
  <2> QED BY <1>0, <1>1, <2>1 DEF Past
<1>4. leave' \in Leave /\ leave'.snap = None
  BY <1>1 DEF Leave
<1>5. TypeOK'
  BY <1>0, <1>1, <1>3, <1>4 DEF IInv, TypeOK
<1>6. WorkPart'
  BY <1>1, <1>3, WorkStays DEF IInv, WorkInOrder
<1>7. Credited' = Credited /\ Tells /\ Snaps' \subseteq Snaps
  BY <1>1, <1>3, <1>4, TellsStay DEF Credited, Snaps
<1>8. RowPart'
  <2>1. CASE ~gone
    BY <1>0, <1>1, <1>3, <1>7, <2>1, RowStays, Halves DEF PastStays
  <2>2. CASE gone
    <3>1. /\ past'.removed /\ past'.touched /\ past'.decided = 0 /\ past'.since = {}
          /\ row' = None
      BY <1>0, <1>1, <1>3, <2>2
    <3>2. RowsAnnounced'
      <4>1. \A r : Announced(r) => Announced(r)'
        BY <1>7 DEF Announced, Tells
      <4> QED BY <1>7, <3>1, <4>1 DEF IInv, RowsAnnounced
    <3> QED BY <3>1, <3>2 DEF RowPart, RowsLast, DecisionStands, LaterDecisionWins, DayInOrder
  <2> QED BY <2>1, <2>2
<1> QED BY <1>5, <1>6, <1>8 DEF IInv, WorkPart, RowPart

(* The job's steps that write no row. *)
LEMMA JobIdleStep ==
    ASSUME IInv, NEW from, NEW to \in {"before", "listed", "done"}, JobStep(from, to),
           UNCHANGED row
    PROVE  IInv'
<1> USE DEF JobStep, fillVars, workVars
<1>1. TypeOK'
  BY DEF IInv, TypeOK
<1>2. WorkPart'
  BY WorkStays DEF IInv, WorkInOrder
<1>3. RowPart'
  BY RowUntouched, Halves
<1> QED BY <1>1, <1>2, <1>3 DEF IInv, WorkPart, RowPart

(* An empty day becomes ABSENT; nothing was credited on it. *)
LEMMA JobMarksStep == IInv /\ JobMarks => IInv'
<1> SUFFICES ASSUME IInv, JobMarks PROVE IInv'
  OBVIOUS
<1>1. CASE row # None
  BY <1>1, JobIdleStep DEF JobMarks, UnlessThere
<1>2. CASE row = None
  <2> USE DEF JobStep, fillVars, workVars
  <2> DEFINE new == NewRow("ABSENT", "auto_absent", 0)
  <2>1. /\ new \in Row /\ new.status = "ABSENT" /\ new.source = "auto_absent"
        /\ new.in = 0 /\ new.out = 0 /\ new # None
    BY NewRowFacts, DayAssumption, NoneAssumption DEF IInv, TypeOK, Statuses, Sources, Instants
  <2>2. row' = new
    BY <1>2 DEF JobMarks, UnlessThere
  <2> HIDE DEF new
  <2>3. TypeOK'
    BY <2>1, <2>2 DEF JobMarks, IInv, TypeOK
  <2>4. WorkPart'
    BY WorkStays DEF JobMarks, IInv, WorkInOrder
  <2>5. Credited' = Credited /\ Snaps' = Snaps /\ Tells /\ past' = past
    BY TellsStay DEF JobMarks, Credited, Snaps
  <2>6. RowsLast'
    BY <1>2, <2>1, <2>2, <2>5 DEF IInv, RowsLast
  <2>7. RowsAnnounced'
    <3>1. \A r : Announced(r) => Announced(r)'
      BY <2>5 DEF Announced, Tells
    <3> QED BY <2>1, <2>2, <2>5, <3>1 DEF IInv, RowsAnnounced, Announced
  <2>8. DecisionStands' /\ LaterDecisionWins'
    BY <1>2, <2>5 DEF IInv, DecisionStands, LaterDecisionWins
  <2>9. DayInOrder'
    BY <1>2, <2>1, <2>2, <2>5 DEF IInv, DayInOrder, AutoAbsent
  <2> QED BY <2>3, <2>4, <2>6, <2>7, <2>8, <2>9 DEF IInv, WorkPart
<1> QED BY <1>1, <1>2

LEMMA NextStep == IInv /\ [Next]_vars => IInv'
<1> SUFFICES ASSUME IInv, [Next]_vars PROVE IInv'
  OBVIOUS
<1>1. CASE \E r \in Requests : OpenRequest(r) \/ \E p \in Punches : StoreUnlinked(r, p)
  BY <1>1, OpenRequestStep, StoreUnlinkedStep
<1>2. CASE \E w \in Workers : Ingest(w)
  BY <1>2, ReadRowStep, SavePunchStep, TellStep, EndRequestStep DEF Ingest
<1>3. CASE Tick \/ SetMapping \/ ListUnprocessed \/ FillDone
  BY <1>3, TickStep, SetMappingStep, ListUnprocessedStep, FillDoneStep
<1>4. CASE HandRead \/ HandSave \/ LeaveReads \/ LeaveApplies \/ LeaveRemoves
  BY <1>4, HandReadStep, HandSaveStep, LeaveReadsStep, LeaveAppliesStep, LeaveRemovesStep
<1>5. CASE JobLists \/ JobSkips \/ JobFails \/ JobMarks
  BY <1>5, JobIdleStep, JobMarksStep DEF JobLists, JobSkips, JobFails
<1>6. CASE UNCHANGED vars
  <2> USE <1>6 DEF vars, fillVars, workVars, officeVars
  <2>1. TypeOK'
    BY DEF IInv, TypeOK
  <2>2. WorkPart'
    BY WorkStays DEF IInv, WorkInOrder
  <2>3. RowPart'
    BY RowUntouched, Halves
  <2> QED BY <2>1, <2>2, <2>3 DEF IInv, WorkPart, RowPart
<1> QED BY <1>1, <1>2, <1>3, <1>4, <1>5, <1>6 DEF Next

(* The inductive invariant holds in every reachable state. *)
THEOREM Invariance == Spec => []IInv
BY InitIInv, NextStep, PTL DEF Spec

---------------------------------------------------------------------------
(* The properties. *)

(* Every variable keeps its type. *)
THEOREM TypesHold == Spec => []TypeOK
<1>1. IInv => TypeOK
  BY DEF IInv
<1> QED BY <1>1, Invariance, PTL

(* reprocessUnmapped(): the back-fill leaves no punch of the mapped person *)
(* without attendance, but those stored by requests that looked for the    *)
(* mapping too early.                                                      *)
THEOREM MappedCredited == Spec => []MappedPunchesCredited
<1>1. IInv => MappedPunchesCredited
  BY DEF IInv
<1> QED BY <1>1, Invariance, PTL

(* applyPunch(): a standing ABSENT by hand outlasts the punches made       *)
(* before it and gives way to the first later one, when transactions do    *)
(* not overlap.                                                            *)
THEOREM LaterDecision == Spec => []LaterDecisionWins
<1>1. IInv => LaterDecisionWins
  BY DEF IInv
<1> QED BY <1>1, Invariance, PTL

(* autoAbsentForMadrasa() never hides a credited punch, whatever overlaps, *)
(* while no leave was cancelled.                                           *)
THEOREM NeverAutoAbsent == Spec => []AutoAbsentNeverPunched
<1>1. IInv => AutoAbsentNeverPunched
  BY DEF IInv, RowsLast, AutoAbsentNeverPunched, AutoAbsent, Automatic
<1> QED BY <1>1, Invariance, PTL

(* enqueueOutcomeSms(): an arrival or a check-out in the row has its       *)
(* message, or a request ended between the commit and the message.         *)
THEOREM Told == Spec => []ToldOfArrival
<1>1. IInv => ToldOfArrival
  BY DEF IInv, RowsAnnounced, ToldOfArrival, Announced
<1> QED BY <1>1, Invariance, PTL

LEMMA Least ==
    ASSUME NEW S \in SUBSET Nat, NEW m \in S, \A u \in S : m <= u
    PROVE  MinOf(S) = m
<1>1. \E t \in S : \A u \in S : t <= u
  OBVIOUS
<1>2. MinOf(S) \in S /\ \A u \in S : MinOf(S) <= u
  BY <1>1 DEF MinOf
<1>3. m \in Nat /\ MinOf(S) \in Nat /\ m <= MinOf(S) /\ MinOf(S) <= m
  BY <1>2
<1> QED BY <1>3

LEMMA Greatest ==
    ASSUME NEW S \in SUBSET Nat, NEW m \in S, \A u \in S : u <= m
    PROVE  MaxOf(S) = m
<1>1. \E t \in S : \A u \in S : u <= t
  OBVIOUS
<1>2. MaxOf(S) \in S /\ \A u \in S : u <= MaxOf(S)
  BY <1>1 DEF MaxOf
<1>3. m \in Nat /\ MaxOf(S) \in Nat /\ m <= MaxOf(S) /\ MaxOf(S) <= m
  BY <1>2
<1> QED BY <1>3

(* applyPunch(): the day shows the earliest punch, its status, and the     *)
(* check-out the punches amount to when they came in the order made,       *)
(* unless the office wrote the row or transactions overlapped on it.       *)
THEOREM DayAgrees == Spec => []DayIsItsPunches
<1>1. ASSUME IInv PROVE DayIsItsPunches
  <2> SUFFICES ASSUME ~past.raced, ~past.touched
               PROVE  IF Credited = {} THEN row = None \/ AutoAbsent
                      ELSE LET first == MinOf(Times(Credited))
                           IN /\ row.source = "k40"
                              /\ row.in = first
                              /\ row.status = Arrival(first)
                              /\ row.out \in {0} \cup Times(Credited)
                              /\ past.ordered => row.out = ReferenceOut
    BY DEF DayIsItsPunches
  <2>1. CASE Credited = {}
    BY <1>1, <2>1 DEF IInv, DayInOrder
  <2>2. CASE Credited # {}
    <3>1. /\ row.source = "k40"
          /\ row.in \in Times(Credited) /\ \A t \in Times(Credited) : row.in <= t
          /\ row.status = Arrival(row.in)
          /\ row.out \in {0} \cup Times(Credited)
          /\ past.ordered =>
                IF Outs = {} THEN row.out = 0
                ELSE row.out \in Outs /\ \A t \in Outs : t <= row.out
      BY <1>1, <2>2 DEF IInv, DayInOrder
    <3>2. Times(Credited) \in SUBSET Nat
      BY PunchTimes DEF Times, Credited
    <3>3. MinOf(Times(Credited)) = row.in
      BY <3>1, <3>2, Least
    <3>4. ReferenceOut = IF Outs = {} THEN 0 ELSE MaxOf(Outs)
      BY <3>3 DEF ReferenceOut, Outs
    <3>5. Outs \in SUBSET Nat
      BY <3>2 DEF Outs
    <3>6. past.ordered => row.out = ReferenceOut
      BY <3>1, <3>4, <3>5, Greatest
    <3> QED BY <2>2, <3>1, <3>3, <3>6
  <2> QED BY <2>1, <2>2
<1>2. IInv => DayIsItsPunches
  BY <1>1
<1> QED BY <1>2, Invariance, PTL

---------------------------------------------------------------------------
(* What the row says of the day changes only in the ways it may. *)
StandStep ==
    Standing(row) \in {"PRESENT", "LEAVE"} /\ Standing(row') # Standing(row) =>
        \/ hand'.left < hand.left
        \/ leave.status = "APPROVED" /\ leave'.status = "CLOSED" /\ row.source = "leave"
        \/ ReadBefore

LEMMA StandingFacts ==
    ASSUME NEW r \in Row
    PROVE  /\ Standing(r) = "PRESENT" <=> r.status \in {"PRESENT", "LATE"}
           /\ Standing(r) = "LEAVE" <=> r.status = "LEAVE"
BY NoneAssumption DEF Standing, Row, Statuses

(* A punch credited on the row it read never takes a presence or a leave   *)
(* away: it upgrades an ABSENT, or leaves the status of the day.           *)
LEMMA SavePunchStands ==
    ASSUME IInv, NEW w \in Workers, SavePunch(w)
    PROVE  StandStep
<1> SUFFICES ASSUME snap[w] = row, row # None, Standing(row) \in {"PRESENT", "LEAVE"}, ~Collide(w)
             PROVE  Standing(row') = Standing(row)
  <2>1. at[w] = "read"
    BY DEF SavePunch
  <2>2. CASE Collide(w)
    BY <2>2 DEF StandStep, Collide
  <2>3. ~Collide(w) => at'[w] # "read"
    BY <2>1 DEF SavePunch, CreateRow, KeepAbsent, Upgrade, CheckOut, CheckIn, Credit, IInv, TypeOK
  <2>4. row = None => Standing(row) = "open"
    BY DEF Standing
  <2> QED BY <2>1, <2>2, <2>3, <2>4 DEF StandStep, ReadBefore
<1>1. row \in Row /\ now \in Instants /\ row.status # "ABSENT" /\ row.status \in Statuses
  BY NoneAssumption DEF IInv, TypeOK, Standing, Row
<1>2. CASE KeepAbsent(w) \/ CreateRow(w) \/ Upgrade(w)
  BY <1>1, <1>2 DEF KeepAbsent, LeftAlone, CreateRow, Upgrade
<1>3. punch[w] \in Punches /\ Time[punch[w]] \in Instants
  <2>1. punch[w] \in Punches
    BY DEF SavePunch, IInv, WorkInOrder, TypeOK
  <2> QED BY <2>1, PunchTimes
<1>4. CASE CheckOut(w)
  <2> DEFINE out == [row EXCEPT !.out = Time[punch[w]]]
  <2>1. out \in Row /\ out.status = row.status
    BY <1>1, <1>3 DEF Row
  <2>2. row' = row \/ row' = Touched(out)
    BY <1>4 DEF CheckOut, Credit
  <2> HIDE DEF out
  <2>3. row' \in Row /\ row'.status = row.status
    BY <1>1, <2>1, <2>2, TouchedFacts
  <2> QED BY <1>1, <2>3, StandingFacts
<1>5. CASE CheckIn(w)
  <2> DEFINE t == Time[punch[w]]
             arrived == row.source = "k40" /\ row.status \in {"PRESENT", "LATE"}
             st == IF arrived THEN Arrival(t) ELSE row.status
             in == [row EXCEPT !.in = t, !.status = st]
  <2>1. st \in Statuses /\ (st = row.status \/ {st, row.status} \subseteq {"PRESENT", "LATE"})
    BY <1>1 DEF Arrival, Statuses
  <2>2. in \in Row /\ in.status = st
    BY <1>1, <1>3, <2>1 DEF Row
  <2>3. row' = row \/ row' = Touched(in)
    BY <1>5 DEF CheckIn, Credit
  <2> HIDE DEF in, st
  <2>4. row' \in Row /\ row'.status \in {row.status, st}
    BY <1>1, <2>2, <2>3, TouchedFacts
  <2> QED BY <1>1, <2>1, <2>4, StandingFacts
<1> QED BY <1>2, <1>4, <1>5 DEF SavePunch

(* A change by hand uses up one of the changes. *)
LEMMA HandSaveStands == ASSUME IInv, HandSave PROVE StandStep
<1>1. hand.left \in Nat
  BY DayAssumption DEF IInv, TypeOK, Hand
<1>2. CASE row' = row
  BY <1>2 DEF StandStep
<1>3. CASE hand'.left = hand.left - 1
  BY <1>1, <1>3 DEF StandStep
<1>4. row' = row \/ hand'.left = hand.left - 1
  <2>1. \A new : HandWrites(new) => hand'.left = hand.left - 1
    BY DEF HandWrites, HandDone
  <2> QED BY <2>1 DEF HandSave, HandLeaves, HandCollides, HandCreates, HandChanges, HandRemarks
<1> QED BY <1>2, <1>3, <1>4

(* A leave is approved on the row it read: an ABSENT, or none. *)
LEMMA LeaveAppliesStands == ASSUME IInv, LeaveApplies PROVE StandStep
<1>1. leave.at = "approving" /\ leave'.at = "idle"
  BY DEF LeaveApplies, LeaveDone
<1>2. CASE leave.snap # row
  BY <1>1, <1>2 DEF StandStep, ReadBefore
<1>3. CASE leave.snap = row
  <2>1. row' = row \/ row = None \/ row.status = "ABSENT"
    BY <1>3 DEF LeaveApplies
  <2> QED BY <2>1 DEF StandStep, Standing
<1> QED BY <1>2, <1>3

(* Only an approved leave is closed in two steps. *)
LeaveInOrder == leave.at = "closing" => leave.status = "APPROVED"
LEMMA LeaveOrder == Spec => []LeaveInOrder
<1>1. Init => LeaveInOrder
  BY DEF Init, LeaveInOrder
<1>2. IInv /\ LeaveInOrder /\ [Next]_vars => LeaveInOrder'
  <2> SUFFICES ASSUME IInv, LeaveInOrder, [Next]_vars, leave' # leave PROVE LeaveInOrder'
    BY DEF LeaveInOrder
  <2>1. LeaveReads \/ LeaveApplies \/ LeaveRemoves
    BY DEF Next, Ingest, Tick, OpenRequest, StoreUnlinked, ReadRow, Tell, EndRequest, SavePunch,
       CreateRow, Collide, KeepAbsent, Upgrade, CheckOut, CheckIn, Credit, SetMapping,
       ListUnprocessed, FillDone, HandRead, HandSave, JobLists, JobSkips, JobMarks, JobFails,
       JobStep, officeVars, vars
  <2>2. leave \in [status : {"PENDING", "APPROVED", "CLOSED"},
                   at : {"idle", "approving", "closing"}, snap : Row \cup {None}]
    BY DEF IInv, TypeOK, Leave
  <2>3. CASE LeaveApplies \/ LeaveRemoves
    BY <2>3 DEF LeaveInOrder, LeaveApplies, LeaveRemoves, LeaveDone
  <2>4. CASE LeaveReads
    <3>1. CASE leave.status = "PENDING" /\ leave' = [leave EXCEPT !.at = "approving", !.snap = row]
      BY <2>2, <3>1 DEF LeaveInOrder
    <3>2. CASE leave.status = "APPROVED" /\ leave' = [leave EXCEPT !.at = "closing", !.snap = row]
      BY <2>2, <3>2 DEF LeaveInOrder
    <3>3. CASE leave.at = "idle" /\ leave' = [leave EXCEPT !.status = "CLOSED"]
      BY <2>2, <3>3 DEF LeaveInOrder
    <3> QED BY <2>4, <3>1, <3>2, <3>3 DEF LeaveReads
  <2> QED BY <2>1, <2>3, <2>4
<1> QED BY <1>1, <1>2, Invariance, PTL DEF Spec

(* A leave that is closed takes the row it wrote. *)
LEMMA LeaveRemovesStands == ASSUME IInv, LeaveInOrder, LeaveRemoves PROVE StandStep
<1>1. leave.at = "closing" /\ leave'.at = "idle" /\ leave'.status = "CLOSED"
  BY DEF LeaveRemoves, LeaveDone
<1>2. leave.status = "APPROVED"
  BY <1>1 DEF LeaveInOrder
<1>3. row' = row \/ Removes(leave.snap)
  BY DEF LeaveRemoves
<1> QED BY <1>1, <1>2, <1>3 DEF StandStep, ReadBefore, Removes

(* planLeaveApproval, applyPunch, autoAbsentForMadrasa: a presence or a    *)
(* leave stands against punches, leave requests and the auto-absent job,   *)
(* unless one of them read the row before.                                 *)
THEOREM PresenceStands == Spec => PresenceAndLeaveStand
<1>1. ASSUME IInv, LeaveInOrder, [Next]_vars PROVE StandStep \/ UNCHANGED vars
  <2>1. CASE row' = row
    BY <2>1 DEF StandStep
  <2>2. CASE \E w \in Workers : SavePunch(w)
    BY <1>1, <2>2, SavePunchStands
  <2>3. CASE HandSave \/ LeaveApplies \/ LeaveRemoves
    BY <1>1, <2>3, HandSaveStands, LeaveAppliesStands, LeaveRemovesStands
  <2>4. CASE JobMarks
    BY <2>1, <2>4 DEF JobMarks, UnlessThere, StandStep, Standing
  <2>5. ASSUME Next
        PROVE  \/ row' = row \/ JobMarks
               \/ \E w \in Workers : SavePunch(w)
               \/ HandSave \/ LeaveApplies \/ LeaveRemoves
    BY <2>5 DEF Next, Ingest, Tick, OpenRequest, StoreUnlinked, ReadRow, Tell, EndRequest,
       SetMapping, ListUnprocessed, FillDone, HandRead, LeaveReads, JobLists, JobSkips, JobFails
  <2> QED BY <1>1, <2>1, <2>2, <2>3, <2>4, <2>5
<1>2. IInv /\ LeaveInOrder /\ [Next]_vars => [StandStep]_vars
  BY <1>1
<1> QED BY <1>2, Invariance, LeaveOrder, PTL DEF Spec, PresenceAndLeaveStand, StandStep
=============================================================================
