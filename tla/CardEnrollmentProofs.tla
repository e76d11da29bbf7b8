------------------------- MODULE CardEnrollmentProofs -------------------------
(***************************************************************************)
(* Proofs about CardEnrollment, for every number of people, cards, admins, *)
(* sessions, edits and faults: the inductive invariant IInv, and from it   *)
(* the safety properties.  The invariant has a part about the sessions of  *)
(* the cloud and a part about the connector; most actions disturb one.     *)
(***************************************************************************)
EXTENDS CardEnrollment, TLAPS

SessionPart == OneSessionPerDevice /\ OpensAlone

LoopPart ==
    /\ ReportsOfSessions
    /\ ReplyOfSession
    /\ RunOfSession
    /\ ListAlone
    /\ CardsWereGiven
    /\ DeviceCardWasGiven

LEMMA InitIInv == Init => IInv
<1> SUFFICES ASSUME Init PROVE IInv
  OBVIOUS
<1>1. TypeOK
  <2>1. past \in Past
    BY DEF Init, Past, PastInit
  <2>2. rows \in Seq(Row) /\ Len(rows) <= MaxSessions
    BY EnrollmentAssumption DEF Init
  <2>3. card \in Lists /\ device \in Lists
    BY DEF Init, Lists
  <2>4. edits \in 0..MaxEdits /\ faults \in 0..MaxFaults
    BY EnrollmentAssumption DEF Init
  <2> QED BY <2>1, <2>2, <2>3, <2>4 DEF Init, TypeOK
<1>2. OneSessionPerDevice /\ OpensAlone
  BY DEF Init, OneSessionPerDevice, OpensAlone
<1>3. ReportsOfSessions /\ ReplyOfSession /\ RunOfSession /\ ListAlone
  BY DEF Init, ReportsOfSessions, Reports, ReplyOfSession, RunOfSession, ListAlone
<1>4. CardsWereGiven /\ DeviceCardWasGiven
  BY DEF Init, CardsWereGiven, DeviceCardWasGiven, Given
<1> QED BY <1>1, <1>2, <1>3, <1>4 DEF IInv

---------------------------------------------------------------------------
(* What the sessions of the cloud go through. *)

(* Nobody forgets a session, whose it is, or that it is closed. *)
Kept ==
    /\ rows' \in Seq(Row)
    /\ Len(rows) \in Nat /\ Len(rows') \in Nat
    /\ Len(rows) <= Len(rows')
    /\ \A i \in 1..Len(rows) : rows'[i].person = rows[i].person /\ (~IsOpen(i) => rows'[i] = rows[i])

(* Nor is one added or opened. *)
Shrinks ==
    /\ Kept
    /\ Len(rows') = Len(rows)
    /\ \A i \in 1..Len(rows) : rows'[i].status \in Open => IsOpen(i)

LEMMA SameShrinks == TypeOK /\ UNCHANGED rows => Shrinks
BY DEF TypeOK, Shrinks, Kept, IsOpen

LEMMA ClosesShrinks ==
    ASSUME TypeOK, NEW i \in 1..Len(rows), NEW st \in Closed \cup {"WAITING"}, Closes(i, st)
    PROVE  Shrinks
<1>1. st \in Open \cup Closed
  BY DEF Open
<1>2. rows[i] \in Row
  BY DEF TypeOK
<1>3. [rows[i] EXCEPT !.status = st] \in Row
  BY <1>1, <1>2 DEF Row
<1>4. CASE ~IsOpen(i)
  BY <1>4, SameShrinks DEF Closes
<1>5. CASE IsOpen(i)
  <2>1. rows' = [rows EXCEPT ![i] = [rows[i] EXCEPT !.status = st]]
    BY <1>5 DEF Closes, TypeOK
  <2>2. [rows[i] EXCEPT !.status = st].person = rows[i].person
    BY <1>2 DEF Row
  <2> QED BY <1>3, <1>5, <2>1, <2>2 DEF TypeOK, Shrinks, Kept, IsOpen
<1> QED BY <1>4, <1>5

LEMMA AllClosedShrinks ==
    ASSUME TypeOK, NEW set, NEW st \in Closed, rows' = AllClosed(set, st)
    PROVE  /\ Shrinks
           /\ \A i \in 1..Len(rows) : i \in set => rows'[i].status \notin Open
<1> DEFINE n == Len(rows)
           row(i) == IF i \in set /\ IsOpen(i) THEN [rows[i] EXCEPT !.status = st] ELSE rows[i]
<1>1. \A i \in 1..n : rows[i] \in Row
  BY DEF TypeOK
<1>2. \A i \in 1..n : /\ row(i) \in Row /\ row(i).person = rows[i].person
                      /\ ~IsOpen(i) => row(i) = rows[i]
                      /\ i \in set => row(i).status \notin Open
  BY <1>1 DEF Row, IsOpen, Open, Closed
<1>3. rows' = [i \in 1..n |-> row(i)] /\ n \in Nat
  BY DEF AllClosed, TypeOK
<1> HIDE DEF row
<1>4. /\ rows' \in Seq(Row) /\ Len(rows') = n
      /\ \A i \in 1..n : rows'[i] = row(i)
  BY <1>2, <1>3
<1> QED BY <1>2, <1>3, <1>4 DEF Shrinks, Kept, IsOpen

LEMMA SessionsStay ==
    ASSUME SessionPart, Shrinks, opening' = opening, past'.overlap = past.overlap
    PROVE  SessionPart'
BY DEF SessionPart, OneSessionPerDevice, OpensAlone, Shrinks, IsOpen

(* The connector's part does not notice. *)
LEMMA LoopStays ==
    ASSUME TypeOK, LoopPart, Kept, past.known \subseteq past'.known,
           UNCHANGED <<card, inbox, checking, device, reply, run, list>>
    PROVE  LoopPart'
<1>1. ReportsOfSessions'
  <2>1. \A r \in Reports : r.id \in Nat
    BY EnrollmentAssumption DEF Reports, TypeOK, Report, Ids
  <2> QED BY <2>1 DEF LoopPart, ReportsOfSessions, Reports, Kept
<1>2. ReplyOfSession'
  <2>1. reply # None /\ reply.id # 0 => reply.id \in 1..Len(rows)
    BY EnrollmentAssumption DEF TypeOK, Reply, Ids, LoopPart, ReplyOfSession, Kept
  <2> QED BY <2>1 DEF LoopPart, ReplyOfSession, Kept, Given
<1>3. RunOfSession'
  <2>1. run # None => run.id \in 1..Len(rows)
    BY EnrollmentAssumption DEF TypeOK, Run, Ids, LoopPart, RunOfSession, Kept
  <2> QED BY <2>1 DEF LoopPart, RunOfSession, Kept, Given, Watching
<1>4. ListAlone' /\ CardsWereGiven' /\ DeviceCardWasGiven'
  BY DEF LoopPart, ListAlone, CardsWereGiven, DeviceCardWasGiven, Given
<1> QED BY <1>1, <1>2, <1>3, <1>4 DEF LoopPart

---------------------------------------------------------------------------
(* The office. *)

(* Cancelling leaves no session open; two creates overlap, or one is alone. *)
LEMMA CancelOpenForDeviceStep ==
    ASSUME IInv, NEW a \in Admins, NEW p \in People, CancelOpenForDevice(a, p)
    PROVE  IInv'
<1> DEFINE over == past.overlap \/ \E b \in Admins : opening[b] # None
<1>1. /\ rows' = AllClosed(1..Len(rows), "CANCELLED")
      /\ opening' = [opening EXCEPT ![a] = p] /\ past' = [past EXCEPT !.overlap = over]
      /\ UNCHANGED <<late, card, inbox, checking, device, synced, reply, run, list, handled, edits, faults>>
  BY DEF CancelOpenForDevice, mailVars, loopVars
<1>2. over \in BOOLEAN
  BY DEF IInv, TypeOK, Past
<1>3. over <=> past.overlap \/ \E b \in Admins : opening[b] # None
  OBVIOUS
<1> HIDE DEF over
<1>4. past' \in Past /\ past'.overlap = over /\ past'.known = past.known
  BY <1>1, <1>2 DEF IInv, TypeOK, Past
<1>5. Shrinks /\ \A i \in 1..Len(rows) : rows'[i].status \notin Open
  BY <1>1, AllClosedShrinks DEF IInv, Closed
<1>6. TypeOK'
  BY <1>1, <1>4, <1>5 DEF IInv, TypeOK, Shrinks, Kept
<1>7. SessionPart'
  BY <1>1, <1>3, <1>4, <1>5 DEF IInv, TypeOK, SessionPart, OneSessionPerDevice, OpensAlone, IsOpen, Shrinks
<1>8. LoopPart'
  BY <1>1, <1>4, <1>5, LoopStays DEF IInv, LoopPart, Shrinks
<1> QED BY <1>6, <1>7, <1>8 DEF IInv, SessionPart, LoopPart

(* The new session is the only open one, unless creates overlapped. *)
LEMMA CreateRowStep ==
    ASSUME IInv, NEW a \in Admins, CreateRow(a)
    PROVE  IInv'
<1> DEFINE new == [person |-> opening[a], status |-> "PENDING"]
           n == Len(rows) + 1
<1>1. /\ rows' = Append(rows, new) /\ opening[a] # None /\ Len(rows) < MaxSessions
      /\ opening' = [opening EXCEPT ![a] = None]
      /\ UNCHANGED <<late, card, inbox, checking, device, synced, reply, run, list, handled, edits, faults, past>>
  BY DEF CreateRow, mailVars, loopVars
<1>2. new \in Row
  BY <1>1 DEF IInv, TypeOK, Row, Open
<1>3. /\ rows' \in Seq(Row) /\ Len(rows') = n /\ n \in Nat /\ Len(rows) \in Nat
      /\ \A i \in 1..Len(rows) : rows'[i] = rows[i]
  BY <1>1, <1>2 DEF IInv, TypeOK
<1> HIDE DEF new
<1>4. Kept
  BY <1>3 DEF Kept
<1>5. TypeOK'
  <2>1. Len(rows') <= MaxSessions
    BY <1>1, <1>3, EnrollmentAssumption
  <2>2. opening' \in [Admins -> People \cup {None}]
    BY <1>1 DEF IInv, TypeOK
  <2> QED BY <1>1, <1>3, <2>1, <2>2 DEF IInv, TypeOK
<1>6. SessionPart'
  <2> SUFFICES ASSUME ~past.overlap PROVE SessionPart'
    BY <1>1 DEF SessionPart, OneSessionPerDevice, OpensAlone
  <2>1. /\ \A i \in 1..Len(rows) : rows[i].status \notin Open
        /\ \A b \in Admins : opening[b] # None => a = b
    BY <1>1 DEF IInv, OpensAlone, IsOpen
  <2>2. \A b \in Admins : opening'[b] = None
    BY <1>1, <2>1 DEF IInv, TypeOK
  <2>3. \A i \in 1..n : rows'[i].status \in Open => i = n
    BY <1>3, <2>1
  <2> QED BY <1>3, <2>2, <2>3 DEF SessionPart, OneSessionPerDevice, OpensAlone, IsOpen
<1>7. LoopPart'
  BY <1>1, <1>4, LoopStays DEF IInv, LoopPart
<1> QED BY <1>5, <1>6, <1>7 DEF IInv, SessionPart, LoopPart

(* A session is cancelled or expires, or its time runs out. *)
LEMMA CloseStep ==
    ASSUME IInv, NEW i \in 1..Len(rows), Cancel(i) \/ TimeUp(i) \/ LazyExpire(i)
    PROVE  IInv'
<1>1. /\ Shrinks
      /\ UNCHANGED <<opening, card, inbox, checking, device, synced, reply, run, list, handled, edits, faults, past>>
  BY SameShrinks, ClosesShrinks DEF IInv, Cancel, TimeUp, LazyExpire, Closed, mailVars, loopVars
<1>2. late' \in SUBSET Ids
  <2>1. i \in Ids
    BY EnrollmentAssumption DEF IInv, TypeOK, Ids
  <2>2. late' \in {late, late \cup {i}}
    BY DEF Cancel, TimeUp, LazyExpire
  <2> QED BY <2>1, <2>2 DEF IInv, TypeOK
<1>3. TypeOK'
  BY <1>1, <1>2 DEF IInv, TypeOK, Shrinks, Kept
<1>4. SessionPart' /\ LoopPart'
  BY <1>1, SessionsStay, LoopStays DEF IInv, SessionPart, LoopPart, Shrinks
<1> QED BY <1>3, <1>4 DEF IInv, SessionPart, LoopPart

(* A card is changed by hand: the person had it in the cloud. *)
LEMMA EditStep ==
    ASSUME IInv, NEW p \in People, NEW c \in Cards \cup {None}, Edit(p, c)
    PROVE  IInv'
<1> DEFINE known == IF c = None THEN past.known ELSE past.known \cup {<<p, c>>}
           cleared == IF c = None THEN past.cleared \cup {p} ELSE past.cleared
           back == Back(p, c)
<1>1. /\ c = None \/ Free(c, p)
      /\ edits < MaxEdits /\ edits' = edits + 1 /\ card' = [card EXCEPT ![p] = c]
      /\ past' = [past EXCEPT !.known = known, !.cleared = cleared, !.back = back]
      /\ UNCHANGED <<rows, late, opening, inbox, checking, device, synced, reply, run, list, handled, faults>>
  BY DEF Edit, officeVars, mailVars, loopVars
<1>2. /\ known \in SUBSET (People \X Cards) /\ cleared \in SUBSET People /\ back \in SUBSET People
      /\ past.known \subseteq known /\ (c # None => <<p, c>> \in known)
  BY DEF IInv, TypeOK, Past, Back
<1> HIDE DEF known, cleared, back
<1>3. past' \in Past /\ past'.known = known /\ past'.overlap = past.overlap
  BY <1>1, <1>2 DEF IInv, TypeOK, Past
<1>4. /\ card' \in Lists /\ card'[p] = c
      /\ \A q \in People : q # p => card'[q] = card[q]
  BY <1>1 DEF IInv, TypeOK, Lists
<1>5. \A q, r \in People : card'[q] = card'[r] /\ card'[q] # None => q = r
  BY <1>1, <1>4 DEF IInv, TypeOK, Free
<1>6. TypeOK'
  <2>1. edits' \in 0..MaxEdits
    BY <1>1, EnrollmentAssumption DEF IInv, TypeOK
  <2> QED BY <1>1, <1>3, <1>4, <1>5, <2>1 DEF IInv, TypeOK
<1>7. SessionPart'
  BY <1>1, <1>3, SameShrinks, SessionsStay DEF IInv, SessionPart
<1>8. ReportsOfSessions' /\ ReplyOfSession' /\ RunOfSession' /\ ListAlone' /\ DeviceCardWasGiven'
  BY <1>1, <1>2, <1>3 DEF IInv, ReportsOfSessions, Reports, ReplyOfSession, RunOfSession, Watching,
       ListAlone, DeviceCardWasGiven, Given
<1>9. CardsWereGiven'
  BY <1>1, <1>2, <1>3, <1>4 DEF IInv, CardsWereGiven, Given
<1> QED BY <1>6, <1>7, <1>8, <1>9 DEF IInv, SessionPart

---------------------------------------------------------------------------
(* Reports in the cloud. *)

LEMMA ReportTypes ==
    ASSUME IInv, NEW r \in Reports
    PROVE  r \in Report /\ r.id \in 1..Len(rows)
<1>1. r \in Report
  BY DEF IInv, TypeOK, Reports
<1>2. r.id \in Nat \ {0}
  BY <1>1, EnrollmentAssumption DEF Report, Ids
<1> QED BY <1>1, <1>2 DEF IInv, TypeOK, ReportsOfSessions

(* A run that is answered stays what it was; it is accepted only for the   *)
(* card it reported.                                                       *)
LEMMA AnswersKeep ==
    ASSUME IInv, NEW r \in Reports, NEW ok \in BOOLEAN, Answers(r, ok),
           Shrinks, UNCHANGED <<device, list, reply>>, past.known \subseteq past'.known,
           ok /\ r.kind = "captured" => <<rows[r.id].person, r.card>> \in past'.known
    PROVE  run' \in Run \cup {None} /\ faults' \in 0..MaxFaults /\ RunOfSession' /\ ListAlone'
<1>1. r \in Report /\ r.id \in 1..Len(rows) /\ (r.kind = "captured" => r.card # None)
  BY ReportTypes DEF IInv, ReportsOfSessions
<1>2. /\ run \in Run \cup {None} /\ faults \in 0..MaxFaults
      /\ \A i \in 1..Len(rows) : rows'[i].person = rows[i].person
      /\ Len(rows') = Len(rows)
  BY DEF IInv, TypeOK, Shrinks, Kept
<1>3. run # None => run \in Run /\ run.id \in 1..Len(rows)
  BY <1>2, EnrollmentAssumption DEF IInv, TypeOK, RunOfSession, Run, Ids
<1>4. faults' \in 0..MaxFaults
  BY <1>2, EnrollmentAssumption DEF Answers, Fault
<1>5. CASE UNCHANGED run
  BY <1>2, <1>3, <1>4, <1>5 DEF IInv, RunOfSession, ListAlone, Given, Watching
<1>6. CASE run' = None
  BY <1>4, <1>6 DEF IInv, RunOfSession, ListAlone
<1>7. CASE run # None /\ run.sent = r /\ run' # run /\ run' # None
  <2>1. /\ run.sent.id = run.id /\ run.person = rows[run.id].person /\ Given(run.person, run.base)
        /\ r.kind = "captured" => run.card = r.card
    BY <1>1, <1>7, NoneAssumption DEF IInv, RunOfSession
  <2>2. PICK at \in {"tapping", "accepted", "refused"} :
            /\ run' = [run EXCEPT !.sent = None, !.at = at]
            /\ at = "tapping" => r.kind = "waiting"
            /\ at = "accepted" => ok /\ r.kind = "captured"
    BY <1>7 DEF Answers
  <2>3. /\ run' \in Run /\ run'.id = run.id /\ run'.person = run.person /\ run'.base = run.base
        /\ run'.card = run.card /\ run'.at = at /\ run'.sent = None
    BY <1>3, <1>7, <2>2 DEF Run
  <2>4. at = "accepted" => run'.card # None /\ <<run'.person, run'.card>> \in past'.known
    BY <1>1, <1>7, <2>1, <2>2, <2>3
  <2>5. at = "tapping" => run.base = None \/ device[run.person] # None
    <3>1. at = "tapping" => Watching
      BY <1>1, <1>7, <2>2, NoneAssumption DEF IInv, RunOfSession, Watching
    <3> QED BY <3>1, <1>7 DEF IInv, RunOfSession
  <2>6. RunOfSession'
    BY <1>2, <1>3, <1>7, <2>1, <2>3, <2>4, <2>5 DEF RunOfSession, Given, Watching
  <2>7. ListAlone'
    BY <1>7 DEF IInv, ListAlone
  <2> QED BY <1>4, <2>3, <2>6, <2>7
<1>8. UNCHANGED run \/ run' = None \/ (run # None /\ run.sent = r)
  BY DEF Answers
<1> QED BY <1>5, <1>6, <1>7, <1>8

(* An answer that accepts no card changes no card. *)
LEMMA AnswerStep ==
    ASSUME IInv, NEW r \in Reports, NEW ok \in BOOLEAN, Answers(r, ok), Shrinks,
           inbox' \subseteq inbox, checking' \subseteq checking, ~(ok /\ r.kind = "captured"),
           UNCHANGED <<late, opening, card, device, synced, reply, list, handled, edits, past>>
    PROVE  IInv'
<1>1. run' \in Run \cup {None} /\ faults' \in 0..MaxFaults /\ RunOfSession' /\ ListAlone'
  BY AnswersKeep
<1>2. TypeOK'
  BY <1>1 DEF IInv, TypeOK, Shrinks, Kept
<1>3. SessionPart'
  BY SessionsStay DEF IInv, SessionPart
<1>4. ReportsOfSessions'
  BY DEF IInv, ReportsOfSessions, Reports, Shrinks
<1>5. ReplyOfSession'
  <2>1. reply # None /\ reply.id # 0 => reply.id \in 1..Len(rows)
    BY EnrollmentAssumption DEF IInv, TypeOK, Reply, Ids, ReplyOfSession
  <2> QED BY <2>1 DEF IInv, ReplyOfSession, Shrinks, Kept, Given
<1>6. CardsWereGiven' /\ DeviceCardWasGiven'
  BY DEF IInv, CardsWereGiven, DeviceCardWasGiven, Given
<1> QED BY <1>1, <1>2, <1>3, <1>4, <1>5, <1>6 DEF IInv, SessionPart

LEMMA ReportWaitingStep ==
    ASSUME IInv, NEW r \in Reports, ReportWaiting(r)
    PROVE  IInv'
<1> DEFINE ok == IsOpen(r.id) /\ r.id \notin late
<1>1. ok \in BOOLEAN /\ Answers(r, ok)
  BY DEF ReportWaiting
<1> HIDE DEF ok
<1>2. Shrinks
  BY ReportTypes, ClosesShrinks DEF ReportWaiting, IInv, Closed
<1> QED BY <1>1, <1>2, AnswerStep DEF ReportWaiting

LEMMA ReportEndStep ==
    ASSUME IInv, NEW r \in Reports, ReportEnd(r)
    PROVE  IInv'
<1> DEFINE ok == IsOpen(r.id)
<1>1. ok \in BOOLEAN /\ Answers(r, ok)
  BY DEF ReportEnd, IsOpen
<1> HIDE DEF ok
<1>2. Shrinks
  BY ReportTypes, ClosesShrinks DEF ReportEnd, IInv, Closed
<1> QED BY <1>1, <1>2, AnswerStep DEF ReportEnd

LEMMA CapturedTooLateStep ==
    ASSUME IInv, NEW r \in Reports, CapturedTooLate(r)
    PROVE  IInv'
<1>1. Shrinks
  BY SameShrinks DEF CapturedTooLate, officeVars, IInv
<1> QED BY <1>1, AnswerStep DEF CapturedTooLate, officeVars

LEMMA FailCardInUseStep ==
    ASSUME IInv, NEW r \in Reports, FailCardInUse(r)
    PROVE  IInv'
<1>1. Shrinks
  BY ReportTypes, ClosesShrinks DEF FailCardInUse, IInv, Closed
<1> QED BY <1>1, AnswerStep DEF FailCardInUse

LEMMA LookUpHolderStep ==
    ASSUME IInv, NEW r \in Reports, LookUpHolder(r)
    PROVE  IInv'
<1> DEFINE free == Free(r.card, rows[r.id].person)
<1>1. free \in BOOLEAN
  BY DEF Free
<1>2. checking' = checking \cup {<<r, free>>} /\ inbox' = inbox \ {r} /\ r \in inbox
  BY DEF LookUpHolder
<1> HIDE DEF free
<1>3. UNCHANGED <<rows, late, opening, card, device, synced, reply, run, list, handled, edits, faults, past>>
  BY DEF LookUpHolder, officeVars, loopVars
<1>4. inbox' \in SUBSET Report /\ checking' \in SUBSET (Report \X BOOLEAN)
  <2>1. <<r, free>> \in Report \X BOOLEAN
    BY <1>1, ReportTypes
  <2> QED BY <1>2, <2>1 DEF IInv, TypeOK
<1>8. Reports' \subseteq Reports
  <2>1. \A x \in checking' : x \in checking \/ x[1] = r
    BY <1>2
  <2> QED BY <1>2, <2>1 DEF Reports
<1>9. ReportsOfSessions'
  <2>1. \A x \in checking' : x \in checking \/ (x[1] = r /\ r.kind = "captured")
    BY <1>2 DEF LookUpHolder
  <2> QED BY <1>3, <1>8, <2>1 DEF IInv, ReportsOfSessions
<1>5. TypeOK'
  BY <1>3, <1>4 DEF IInv, TypeOK
<1>6. SessionPart'
  BY <1>3, SameShrinks, SessionsStay DEF IInv, SessionPart
<1>7. LoopPart'
  BY <1>3, <1>9 DEF IInv, LoopPart, ReplyOfSession, RunOfSession, Watching, ListAlone, CardsWereGiven, DeviceCardWasGiven, Given
<1> QED BY <1>5, <1>6, <1>7 DEF IInv, SessionPart, LoopPart

(* The transaction gives the card to the person of the session. *)
LEMMA LinkCardStep ==
    ASSUME IInv, NEW r \in Reports, LinkCard(r)
    PROVE  IInv'
<1> DEFINE p == rows[r.id].person
<1>1. CASE ~IsOpen(r.id) /\ Answers(r, FALSE) /\ UNCHANGED <<rows, card, past>>
  <2>1. Shrinks
    BY <1>1, SameShrinks DEF IInv
  <2>2. checking' \subseteq checking
    BY DEF LinkCard
  <2> QED BY <1>1, <2>1, <2>2, AnswerStep DEF LinkCard
<1>2. CASE /\ IsOpen(r.id) /\ Free(r.card, p) /\ Closes(r.id, "COMPLETED")
           /\ card' = [card EXCEPT ![p] = r.card]
           /\ past' = [past EXCEPT !.known = @ \cup {<<p, r.card>>}, !.back = Back(p, r.card)]
           /\ Answers(r, TRUE)
  <2> DEFINE back == Back(p, r.card)
             known == past.known \cup {<<p, r.card>>}
  <2>1. r \in Report /\ r.id \in 1..Len(rows)
    BY ReportTypes
  <2>2. <<r, TRUE>> \in checking /\ checking' \subseteq checking
    BY DEF LinkCard
  <2>3. r.kind = "captured"
    BY <2>2 DEF IInv, ReportsOfSessions
  <2>4. r.card \in Cards /\ p \in People
    <3>1. r.card # None
      BY <2>3 DEF IInv, ReportsOfSessions
    <3>2. rows[r.id] \in Row
      BY <2>1 DEF IInv, TypeOK
    <3> QED BY <2>1, <3>1, <3>2 DEF Report, Row
  <2>5. back \in SUBSET People /\ known \in SUBSET (People \X Cards)
    BY <2>4 DEF IInv, TypeOK, Past, Back
  <2>6. past' = [past EXCEPT !.known = known, !.back = back]
    BY <1>2
  <2> HIDE DEF back
  <2>7. past' \in Past /\ past'.known = known /\ past'.overlap = past.overlap
    BY <2>5, <2>6 DEF IInv, TypeOK, Past
  <2>8. Shrinks
    BY <1>2, <2>1, ClosesShrinks DEF IInv, Closed
  <2>9. UNCHANGED <<late, opening, inbox, device, synced, reply, list, handled, edits>>
    BY DEF LinkCard
  <2>10. run' \in Run \cup {None} /\ faults' \in 0..MaxFaults /\ RunOfSession' /\ ListAlone'
    BY <1>2, <2>7, <2>8, <2>9, AnswersKeep
  <2>11. /\ card' \in Lists /\ card'[p] = r.card
         /\ \A q \in People : q # p => card'[q] = card[q]
    BY <1>2, <2>4 DEF IInv, TypeOK, Lists
  <2>12. \A q, s \in People : card'[q] = card'[s] /\ card'[q] # None => q = s
    BY <1>2, <2>4, <2>11 DEF IInv, TypeOK, Free
  <2>13. TypeOK'
    BY <2>2, <2>7, <2>8, <2>9, <2>10, <2>11, <2>12 DEF IInv, TypeOK, Shrinks, Kept
  <2>14. SessionPart'
    BY <2>7, <2>8, <2>9, SessionsStay DEF IInv, SessionPart
  <2>15. ReportsOfSessions'
    BY <2>2, <2>8, <2>9 DEF IInv, ReportsOfSessions, Reports, Shrinks
  <2>16. ReplyOfSession'
    <3>1. reply # None /\ reply.id # 0 => reply.id \in 1..Len(rows)
      BY EnrollmentAssumption DEF IInv, TypeOK, Reply, Ids, ReplyOfSession
    <3> QED BY <2>7, <2>8, <2>9, <3>1 DEF IInv, ReplyOfSession, Shrinks, Kept, Given
  <2>17. CardsWereGiven' /\ DeviceCardWasGiven'
    BY <2>7, <2>9, <2>11 DEF IInv, CardsWereGiven, DeviceCardWasGiven, Given
  <2> QED BY <2>2, <2>10, <2>13, <2>14, <2>15, <2>16, <2>17 DEF IInv, SessionPart
<1> QED BY <1>1, <1>2 DEF LinkCard

---------------------------------------------------------------------------
(* The connector. *)

LEMMA RunTypes ==
    ASSUME IInv, run # None
    PROVE  /\ run \in Run /\ run.id \in Ids /\ run.id \in 1..Len(rows)
           /\ run.person \in People /\ run.person = rows[run.id].person
           /\ run.base \in Cards \cup {None} /\ run.card \in Cards \cup {None}
           /\ Given(run.person, run.base) /\ list = None
BY EnrollmentAssumption DEF IInv, TypeOK, Run, Ids, RunOfSession, ListAlone

(* What an idle office and cloud keep while the connector works. *)
LEMMA CloudWaits ==
    ASSUME IInv, UNCHANGED <<rows, late, opening, card, checking, edits>>, past' \in Past,
           past'.overlap = past.overlap, past.known \subseteq past'.known
    PROVE  /\ SessionPart'
           /\ rows' \in Seq(Row) /\ Len(rows') <= MaxSessions /\ late' \in SUBSET Ids
           /\ opening' \in [Admins -> People \cup {None}] /\ card' \in Lists
           /\ (\A p, q \in People : card[p] = card[q] /\ card[p] # None => p = q)'
           /\ checking' \in SUBSET (Report \X BOOLEAN) /\ edits' \in 0..MaxEdits
           /\ \A p \in People : Given(p, card[p])'
<1>1. SessionPart'
  BY SameShrinks, SessionsStay DEF IInv, SessionPart
<1> QED BY <1>1 DEF IInv, TypeOK, CardsWereGiven, Given

(* A report is sent: it is the run's own. *)
LEMMA Sends ==
    ASSUME IInv, run # None, NEW r \in Report, r.id = run.id, r.kind # "waiting",
           r.kind = "captured" => r.card # None /\ r.card = run'.card,
           run' \in Run, run'.id = run.id, run'.person = run.person, run'.base = run.base,
           run'.at = "asking", run'.sent = r, inbox' = inbox \cup {r},
           UNCHANGED <<rows, late, opening, card, checking, synced, reply, list, handled, edits>>,
           device' \in Lists, \A p \in People : device'[p] = device[p] \/ Given(p, device'[p]),
           faults' \in 0..MaxFaults,
           past' \in Past, past'.overlap = past.overlap, past'.known = past.known
    PROVE  IInv'
<1>1. /\ run.id \in 1..Len(rows) /\ run.person = rows[run.id].person
      /\ Given(run.person, run.base) /\ list = None
  BY RunTypes
<1>2. run' # None /\ r # None
  BY NoneAssumption
<1>3. TypeOK'
  BY CloudWaits DEF IInv, TypeOK
<1>4. ReportsOfSessions'
  BY <1>1 DEF IInv, ReportsOfSessions, Reports
<1>5. RunOfSession' /\ ListAlone'
  BY <1>1, <1>2 DEF RunOfSession, ListAlone, Watching, Given
<1>6. ReplyOfSession' /\ CardsWereGiven' /\ DeviceCardWasGiven'
  BY DEF IInv, ReplyOfSession, CardsWereGiven, DeviceCardWasGiven, Given
<1> QED BY <1>3, <1>4, <1>5, <1>6, CloudWaits DEF IInv, SessionPart

LEMMA DeviceStays == IInv /\ UNCHANGED device =>
    device' \in Lists /\ \A p \in People : device'[p] = device[p] \/ Given(p, device'[p])
BY DEF IInv, TypeOK

(* A run ends; the device keeps or gets cards that were given. *)
LEMMA Ends ==
    ASSUME IInv, run # None, run' = None,
           UNCHANGED <<rows, late, opening, card, inbox, checking, synced, reply, list, handled, edits>>,
           faults' \in 0..MaxFaults, device' \in Lists,
           \A p \in People : device'[p] = device[p] \/ Given(p, device'[p]),
           past' \in Past, past'.overlap = past.overlap, past'.known = past.known
    PROVE  IInv'
<1>1. list = None
  BY RunTypes
<1>2. TypeOK'
  BY CloudWaits DEF IInv, TypeOK
<1>3. ReportsOfSessions' /\ ReplyOfSession' /\ RunOfSession' /\ ListAlone' /\ CardsWereGiven'
  BY <1>1 DEF IInv, ReportsOfSessions, Reports, ReplyOfSession, RunOfSession, ListAlone, CardsWereGiven, Given
<1>4. DeviceCardWasGiven'
  BY DEF IInv, DeviceCardWasGiven, Given
<1> QED BY <1>2, <1>3, <1>4, CloudWaits DEF IInv, SessionPart

(* What a run leaves behind concerns its person. *)
LEMMA LeftIsNoted ==
    ASSUME IInv, past' = [past EXCEPT !.left = @ \cup LeftBehind]
    PROVE  past' \in Past /\ past'.overlap = past.overlap /\ past'.known = past.known
<1>1. LeftBehind \in SUBSET People
  BY RunTypes DEF LeftBehind
<1> QED BY <1>1 DEF IInv, TypeOK, Past

LEMMA FaultTypes == IInv /\ (Fault \/ UNCHANGED faults) => faults' \in 0..MaxFaults
BY EnrollmentAssumption DEF IInv, TypeOK, Fault

(* The newest pending session is a session, its card was given. *)
LEMMA PollStep == IInv /\ Poll => IInv'
<1> SUFFICES ASSUME IInv, Poll PROVE IInv'
  OBVIOUS
<1>1. /\ UNCHANGED <<late, opening, card, inbox, checking, device, synced, run, list, handled, edits, faults, past>>
      /\ run = None /\ list = None
  BY DEF Poll, Idle, mailVars
<1>2. Shrinks
  BY AllClosedShrinks DEF Poll, ExpireStale, IInv, Closed
<1> DEFINE Fresh == /\ reply' \in Reply
                    /\ reply'.id # 0 => /\ reply'.id \in 1..Len(rows)
                                        /\ reply'.person = rows[reply'.id].person
                                        /\ reply'.person \in People
                                        /\ reply'.card = card[reply'.person]
<1>3. Fresh
  <2>1. card \in Lists
    BY DEF IInv, TypeOK
  <2>2. CASE reply' = [id |-> 0, person |-> None, card |-> None, users |-> card]
    BY <2>1, <2>2 DEF Reply
  <2>3. ASSUME NEW i \in Pending,
               reply' = [id |-> i, person |-> rows[i].person, card |-> card[rows[i].person], users |-> card]
        PROVE  Fresh
    <3>1. i \in 1..Len(rows) /\ i \in Ids /\ rows[i] \in Row
      BY EnrollmentAssumption DEF Pending, IInv, TypeOK, Ids
    <3>2. rows[i].person \in People
      BY <3>1 DEF Row
    <3>3. card[rows[i].person] \in Cards \cup {None}
      BY <2>1, <3>2 DEF Lists
    <3> QED BY <2>1, <2>3, <3>1, <3>2, <3>3 DEF Reply
  <2> QED BY <2>2, <2>3 DEF Poll
<1>4. TypeOK'
  BY <1>1, <1>2, <1>3 DEF IInv, TypeOK, Shrinks, Kept
<1>5. SessionPart'
  BY <1>1, <1>2, SessionsStay DEF IInv, SessionPart
<1>6. ReplyOfSession'
  BY <1>1, <1>2, <1>3 DEF IInv, ReplyOfSession, CardsWereGiven, Given, Shrinks, Kept
<1>7. ReportsOfSessions' /\ RunOfSession' /\ ListAlone'
  BY <1>1, <1>2 DEF IInv, ReportsOfSessions, Reports, RunOfSession, ListAlone, Shrinks
<1>8. CardsWereGiven' /\ DeviceCardWasGiven'
  BY <1>1 DEF IInv, CardsWereGiven, DeviceCardWasGiven, Given
<1> QED BY <1>4, <1>5, <1>6, <1>7, <1>8 DEF IInv, SessionPart

LEMMA ReplyTypes ==
    ASSUME IInv, reply # None
    PROVE  /\ reply \in Reply
           /\ [reply EXCEPT !.id = 0] \in Reply /\ [reply EXCEPT !.id = 0].id = 0
           /\ reply.id # 0 => /\ reply.id \in Ids /\ reply.id \in 1..Len(rows)
                              /\ reply.person \in People /\ reply.person = rows[reply.id].person
                              /\ reply.card \in Cards \cup {None} /\ Given(reply.person, reply.card)
                              /\ list = None
<1>1. reply \in Reply
  BY DEF IInv, TypeOK
<1>2. [reply EXCEPT !.id = 0] \in Reply /\ [reply EXCEPT !.id = 0].id = 0
  BY <1>1 DEF Reply
<1>3. ASSUME reply.id # 0
      PROVE  /\ reply.id \in Ids /\ reply.id \in 1..Len(rows)
             /\ reply.person \in People /\ reply.person = rows[reply.id].person
             /\ reply.card \in Cards \cup {None} /\ Given(reply.person, reply.card)
             /\ list = None
  <2>1. reply.id \in Ids /\ reply.card \in Cards \cup {None}
    BY <1>1, <1>3 DEF Reply
  <2>2. reply.id \in 1..Len(rows) /\ reply.person = rows[reply.id].person /\ Given(reply.person, reply.card)
    BY <1>3, <2>1, EnrollmentAssumption DEF IInv, TypeOK, ReplyOfSession, Ids
  <2>3. rows[reply.id] \in Row
    BY <2>2 DEF IInv, TypeOK
  <2> QED BY <1>3, <2>1, <2>2, <2>3 DEF Row, IInv, ListAlone
<1> QED BY <1>1, <1>2, <1>3

LEMMA AlreadyHandledStep == IInv /\ AlreadyHandled => IInv'
<1> SUFFICES ASSUME IInv, AlreadyHandled PROVE IInv'
  OBVIOUS
<1> USE DEF AlreadyHandled, officeVars, mailVars
<1>1. reply' \in Reply /\ reply'.id = 0 /\ reply' # None
  BY ReplyTypes, NoneAssumption
<1>2. past \in Past
  BY DEF IInv, TypeOK
<1>3. TypeOK'
  BY <1>1, <1>2, CloudWaits DEF IInv, TypeOK
<1>4. ReplyOfSession' /\ ListAlone'
  BY <1>1 DEF IInv, ReplyOfSession, ListAlone
<1>5. ReportsOfSessions' /\ RunOfSession' /\ CardsWereGiven' /\ DeviceCardWasGiven'
  BY DEF IInv, ReportsOfSessions, Reports, RunOfSession, Watching, CardsWereGiven, DeviceCardWasGiven, Given
<1> QED BY <1>2, <1>3, <1>4, <1>5, CloudWaits DEF IInv, SessionPart

(* A run begins with the card of the cloud, or that of the device. *)
LEMMA BeginRunStep == IInv /\ BeginRun => IInv'
<1> SUFFICES ASSUME IInv, BeginRun PROVE IInv'
  OBVIOUS
<1> DEFINE p == reply.person
           to == IF reply.card = None THEN device[p] ELSE reply.card
           r(kind) == [id |-> reply.id, kind |-> kind, card |-> None, n |-> 1]
           new(kind) == [id |-> reply.id, person |-> p, base |-> to, card |-> None,
                         menu |-> FALSE, at |-> "asking", sent |-> r(kind)]
<1>1. /\ reply # None /\ reply.id # 0 /\ handled' = handled \cup {reply.id}
      /\ reply' = [reply EXCEPT !.id = 0]
      /\ UNCHANGED <<rows, late, opening, card, checking, synced, list, edits, past>>
  BY DEF BeginRun, officeVars
<1>2. PICK kind \in {"waiting", "failed", "expired"} :
        /\ run' = new(kind) /\ inbox' = inbox \cup {r(kind)}
        /\ \/ device' = [device EXCEPT ![p] = to]
           \/ kind # "waiting" /\ device' = device
        /\ Fault \/ UNCHANGED faults
  BY DEF BeginRun
<1>3. /\ reply \in Reply /\ reply' \in Reply /\ reply'.id = 0 /\ reply.id \in Ids /\ reply.id \in 1..Len(rows)
      /\ p \in People /\ p = rows[reply.id].person
      /\ reply.card \in Cards \cup {None} /\ Given(p, reply.card) /\ list = None
  BY <1>1, ReplyTypes
<1>4. reply' # None
  BY <1>3, NoneAssumption
<1>5. to \in Cards \cup {None} /\ Given(p, to) /\ device \in Lists
  BY <1>3 DEF IInv, TypeOK, Lists, DeviceCardWasGiven, Given
<1> HIDE DEF to, p
<1>6. r(kind) \in Report /\ r(kind).id = reply.id /\ r(kind).kind = kind
  BY <1>3, EnrollmentAssumption DEF Report
<1>7. r(kind) # None
  BY <1>6, NoneAssumption
<1> HIDE DEF r
<1>8. /\ run' \in Run /\ run'.id = reply.id /\ run'.person = p /\ run'.base = to
      /\ run'.at = "asking" /\ run'.sent = r(kind)
  BY <1>2, <1>3, <1>5, <1>6 DEF Run
<1>9. device' \in Lists /\ (kind = "waiting" => device'[p] = to)
      /\ \A q \in People : device'[q] = device[q] \/ (q = p /\ device'[q] = to)
  BY <1>2, <1>3, <1>5 DEF Lists
<1>10. past' \in Past /\ inbox' \in SUBSET Report /\ handled' \in SUBSET Ids /\ faults' \in 0..MaxFaults
  BY <1>1, <1>2, <1>3, <1>6, FaultTypes DEF IInv, TypeOK
<1>11. TypeOK'
  BY <1>1, <1>3, <1>8, <1>9, <1>10, CloudWaits DEF IInv, TypeOK
<1>12. ReportsOfSessions'
  BY <1>1, <1>2, <1>3, <1>6 DEF IInv, ReportsOfSessions, Reports
<1>13. RunOfSession'
  BY <1>1, <1>2, <1>3, <1>5, <1>6, <1>7, <1>8, <1>9 DEF RunOfSession, Watching, Given
<1>14. ReplyOfSession' /\ ListAlone' /\ CardsWereGiven' /\ DeviceCardWasGiven'
  BY <1>1, <1>3, <1>5, <1>9 DEF IInv, ReplyOfSession, ListAlone, CardsWereGiven, DeviceCardWasGiven, Given
<1> QED BY <1>1, <1>10, <1>11, <1>12, <1>13, <1>14, CloudWaits DEF IInv, SessionPart

(* A card shows up at the device. *)
LEMMA CapturedStep ==
    ASSUME IInv, run # None, NEW c \in Cards, NEW menu \in BOOLEAN, Captured(c, menu),
           UNCHANGED <<officeVars, card, checking, device, synced, reply, list, handled, edits, faults, past>>
    PROVE  IInv'
<1> DEFINE r == [id |-> run.id, kind |-> "captured", card |-> c, n |-> 1]
<1>1. run \in Run /\ run.id \in Ids /\ c # None
  BY RunTypes, EnrollmentAssumption
<1>2. /\ r \in Report /\ r.id = run.id /\ r.kind = "captured" /\ r.card = c
  BY <1>1, EnrollmentAssumption DEF Report
<1>3. run' = [run EXCEPT !.sent = r, !.at = "asking", !.card = c, !.menu = menu] /\ inbox' = inbox \cup {r}
  BY DEF Captured
<1> HIDE DEF r
<1>4. /\ run' \in Run /\ run'.id = run.id /\ run'.person = run.person /\ run'.base = run.base
      /\ run'.card = c /\ run'.at = "asking" /\ run'.sent = r
  BY <1>1, <1>2, <1>3 DEF Run
<1>5. past' \in Past /\ faults' \in 0..MaxFaults
  BY DEF IInv, TypeOK
<1> QED BY <1>1, <1>2, <1>3, <1>4, <1>5, DeviceStays, Sends DEF officeVars

LEMMA SwipeStep ==
    ASSUME IInv, NEW c \in Cards, Swipe(c)
    PROVE  IInv'
BY CapturedStep DEF Swipe, Tapping

LEMMA MenuFoundStep == IInv /\ MenuFound => IInv'
<1> SUFFICES ASSUME IInv, MenuFound PROVE IInv'
  OBVIOUS
<1>1. run # None /\ run.at = "tapping" /\ device[run.person] # run.base
  BY DEF MenuFound, Tapping
<1>2. device[run.person] \in Cards \cup {None}
  BY <1>1, RunTypes DEF IInv, TypeOK, Lists
<1>3. device[run.person] # None
  BY <1>1 DEF IInv, RunOfSession, Watching
<1> QED BY <1>1, <1>2, <1>3, CapturedStep DEF MenuFound

(* A card entered in the menu is noted. *)
LEMMA EnteredStep ==
    ASSUME IInv, NEW p \in People, NEW c \in Cards, device' = [device EXCEPT ![p] = c],
           past' \in Past, past'.overlap = past.overlap, past'.known = past.known \cup {<<p, c>>},
           edits' \in 0..MaxEdits,
           UNCHANGED <<rows, late, opening, card, inbox, checking, synced, reply, run, list, handled, faults>>
    PROVE  IInv'
<1>1. c # None /\ <<p, c>> \in past'.known /\ past.known \subseteq past'.known
  BY EnrollmentAssumption
<1>2. /\ device' \in Lists /\ device'[p] = c
      /\ \A q \in People : q # p => device'[q] = device[q]
  BY DEF IInv, TypeOK, Lists
<1>3. TypeOK'
  BY <1>2 DEF IInv, TypeOK
<1>4. SessionPart'
  BY SameShrinks, SessionsStay DEF IInv, SessionPart
<1>5. ReportsOfSessions' /\ ReplyOfSession' /\ ListAlone' /\ CardsWereGiven'
  BY <1>1 DEF IInv, ReportsOfSessions, Reports, ReplyOfSession, ListAlone, CardsWereGiven, Given
<1>6. RunOfSession'
  <2>1. run # None => run.person \in People
    BY RunTypes
  <2> QED BY <1>1, <1>2, <2>1 DEF IInv, RunOfSession, Watching, Given
<1>7. DeviceCardWasGiven'
  BY <1>1, <1>2 DEF IInv, DeviceCardWasGiven
<1> QED BY <1>3, <1>4, <1>5, <1>6, <1>7 DEF IInv, SessionPart

LEMMA MenuEntryStep ==
    ASSUME IInv, NEW c \in Cards, MenuEntry(c)
    PROVE  IInv'
<1>1. run # None /\ UNCHANGED edits
  BY DEF MenuEntry, Tapping
<1>2. run.person \in People /\ edits' \in 0..MaxEdits
  BY <1>1, RunTypes DEF IInv, TypeOK
<1> DEFINE known == past.known \cup {<<run.person, c>>}
<1>3. past' = [past EXCEPT !.known = known]
  BY DEF MenuEntry
<1>4. past \in Past /\ known \in SUBSET (People \X Cards)
  BY <1>2 DEF IInv, TypeOK, Past
<1> HIDE DEF known
<1>5. past' \in Past /\ past'.overlap = past.overlap /\ past'.known = known
  BY <1>3, <1>4 DEF Past
<1> QED BY <1>2, <1>5, EnteredStep DEF MenuEntry, officeVars, mailVars, loopVars, known

LEMMA MenuCardStep ==
    ASSUME IInv, NEW p \in People, NEW c \in Cards, MenuCard(p, c)
    PROVE  IInv'
<1>1. edits' \in 0..MaxEdits
  BY EnrollmentAssumption DEF MenuCard, IInv, TypeOK
<1> DEFINE known == past.known \cup {<<p, c>>}
           left == past.left \cup {p}
<1>2. past' = [past EXCEPT !.known = known, !.left = left]
  BY DEF MenuCard
<1>3. past \in Past /\ known \in SUBSET (People \X Cards) /\ left \in SUBSET People
  BY DEF IInv, TypeOK, Past
<1> HIDE DEF known, left
<1>4. past' \in Past /\ past'.overlap = past.overlap /\ past'.known = known
  BY <1>2, <1>3 DEF Past
<1> QED BY <1>1, <1>4, EnteredStep DEF MenuCard, officeVars, mailVars, loopVars, known

(* A run tells how it ended. *)
LEMMA TellsEnd ==
    ASSUME IInv, run # None, NEW kind \in {"failed", "expired"}, Told(Say(kind)), Fault \/ UNCHANGED faults,
           UNCHANGED past \/ past' = [past EXCEPT !.left = @ \cup LeftBehind],
           device' \in Lists, \A p \in People : device'[p] = device[p] \/ Given(p, device'[p]),
           UNCHANGED <<rows, late, opening, card, checking, synced, reply, list, handled, edits>>
    PROVE  IInv'
<1> DEFINE r == Say(kind)
<1>1. run \in Run /\ run.id \in Ids
  BY RunTypes
<1>2. r \in Report /\ r.id = run.id /\ r.kind = kind
  BY <1>1, EnrollmentAssumption DEF Report, Say
<1>3. run' = [run EXCEPT !.sent = r, !.at = "asking"] /\ inbox' = inbox \cup {r}
  BY DEF Told
<1> HIDE DEF r
<1>4. /\ run' \in Run /\ run'.id = run.id /\ run'.person = run.person /\ run'.base = run.base
      /\ run'.at = "asking" /\ run'.sent = r
  BY <1>1, <1>2, <1>3 DEF Run
<1>5. past' \in Past /\ past'.overlap = past.overlap /\ past'.known = past.known /\ faults' \in 0..MaxFaults
  BY LeftIsNoted, FaultTypes DEF IInv, TypeOK
<1> QED BY <1>2, <1>3, <1>4, <1>5, Sends

LEMMA NoCardStep == IInv /\ NoCard => IInv'
BY TellsEnd, DeviceStays DEF NoCard, Tapping, officeVars

(* What is known of a run that waits for an answer. *)
LEMMA AskingTypes ==
    ASSUME IInv, run # None, run.at = "asking"
    PROVE  /\ run.sent # None /\ run.sent \in Report /\ run.sent.id = run.id
           /\ run.sent.kind = "captured" => run.sent.card # None /\ run.sent.card = run.card
           /\ run.sent.kind = "waiting" => run.base = None \/ device[run.person] # None
<1>1. run \in Run
  BY RunTypes
<1> QED BY <1>1 DEF IInv, RunOfSession, Watching, Run

(* The run goes on without an answer. *)
LEMMA GoOnStep ==
    ASSUME IInv, run # None, run.at = "asking", GoOn, inbox' \subseteq inbox, Fault \/ UNCHANGED faults,
           UNCHANGED <<rows, late, opening, card, checking, device, synced, reply, list, handled, edits, past>>
    PROVE  IInv'
<1>1. /\ run \in Run /\ run.id \in 1..Len(rows) /\ run.person = rows[run.id].person /\ run.person \in People
      /\ Given(run.person, run.base) /\ list = None
  BY RunTypes
<1>2. run.sent.kind = "waiting" => run.base = None \/ device[run.person] # None
  BY AskingTypes
<1>3. past' \in Past /\ past'.overlap = past.overlap /\ past'.known = past.known /\ faults' \in 0..MaxFaults
  BY FaultTypes DEF IInv, TypeOK
<1>4. run' # None =>
        /\ run' \in Run /\ run'.id = run.id /\ run'.person = run.person /\ run'.base = run.base
        /\ run'.at \in {"refused", "tapping"} /\ run'.sent = None
        /\ run'.at = "tapping" => run.sent.kind = "waiting"
  <2>1. CASE run.sent.kind = "captured" /\ run' = [run EXCEPT !.sent = None, !.at = "refused"]
    BY <1>1, <2>1 DEF Run
  <2>2. CASE run.sent.kind = "waiting" /\ run' = [run EXCEPT !.sent = None, !.at = "tapping"]
    BY <1>1, <2>2 DEF Run
  <2>3. \/ run.sent.kind = "captured" /\ run' = [run EXCEPT !.sent = None, !.at = "refused"]
        \/ run.sent.kind = "waiting" /\ run' = [run EXCEPT !.sent = None, !.at = "tapping"]
        \/ run' = None
    BY DEF GoOn
  <2> QED BY <2>1, <2>2, <2>3
<1>5. TypeOK'
  <2>1. inbox' \in SUBSET Report /\ run' \in Run \cup {None}
    BY <1>4 DEF IInv, TypeOK
  <2> QED BY <1>3, <2>1, CloudWaits DEF IInv, TypeOK
<1>6. RunOfSession' /\ ListAlone'
  BY <1>1, <1>2, <1>3, <1>4 DEF RunOfSession, ListAlone, Watching, Given
<1>7. ReportsOfSessions' /\ ReplyOfSession' /\ CardsWereGiven' /\ DeviceCardWasGiven'
  BY <1>3 DEF IInv, ReportsOfSessions, Reports, ReplyOfSession, CardsWereGiven, DeviceCardWasGiven, Given
<1> QED BY <1>3, <1>5, <1>6, <1>7, CloudWaits DEF IInv, SessionPart

(* Without an answer `captured` goes out again with the same card. *)
LEMMA GiveUpStep == IInv /\ GiveUp => IInv'
<1> SUFFICES ASSUME IInv, GiveUp PROVE IInv'
  OBVIOUS
<1>1. /\ run # None /\ run.at = "asking" /\ (Fault \/ UNCHANGED faults)
      /\ UNCHANGED <<rows, late, opening, card, checking, device, synced, reply, list, handled, edits, past>>
  BY DEF GiveUp, officeVars
<1>2. CASE run.sent.kind = "captured" /\ run.sent.n < Attempts /\ Told([run.sent EXCEPT !.n = @ + 1])
  <2> DEFINE r == [run.sent EXCEPT !.n = @ + 1]
  <2>1. run \in Run /\ run.sent \in Report /\ run.sent.id = run.id
        /\ run.sent.card # None /\ run.sent.card = run.card
    BY <1>1, <1>2, RunTypes, AskingTypes
  <2>2. run.sent.n + 1 \in 1..Attempts
    BY <1>2, <2>1, EnrollmentAssumption DEF Report
  <2>3. r \in Report /\ r.id = run.id /\ r.kind = "captured" /\ r.card = run.sent.card
    BY <1>2, <2>1, <2>2 DEF Report
  <2>4. run' = [run EXCEPT !.sent = r, !.at = "asking"] /\ inbox' = inbox \cup {r}
    BY <1>2 DEF Told
  <2> HIDE DEF r
  <2>5. /\ run' \in Run /\ run'.id = run.id /\ run'.person = run.person /\ run'.base = run.base
        /\ run'.card = run.card /\ run'.at = "asking" /\ run'.sent = r
    BY <2>1, <2>3, <2>4 DEF Run
  <2>6. past' \in Past /\ faults' \in 0..MaxFaults
    BY <1>1, FaultTypes DEF IInv, TypeOK
  <2> QED BY <1>1, <2>1, <2>3, <2>4, <2>5, <2>6, DeviceStays, Sends
<1>3. CASE GoOn /\ UNCHANGED inbox
  BY <1>1, <1>3, GoOnStep
<1> QED BY <1>2, <1>3 DEF GiveUp

LEMMA TurnedAwayStep == IInv /\ TurnedAway => IInv'
BY GoOnStep DEF TurnedAway, officeVars

(* What the cloud accepted is written to the device. *)
LEMMA AcceptedStep == IInv /\ Accepted => IInv'
<1> SUFFICES ASSUME IInv, Accepted PROVE IInv'
  OBVIOUS
<1>1. /\ run # None /\ run.at = "accepted"
      /\ UNCHANGED <<rows, late, opening, card, checking, synced, reply, list, handled, edits>>
  BY DEF Accepted, officeVars
<1>2. run.person \in People /\ run.card \in Cards /\ Given(run.person, run.card)
  BY <1>1, RunTypes DEF IInv, RunOfSession
<1>3. ASSUME UNCHANGED device \/ device' = [device EXCEPT ![run.person] = run.card]
      PROVE  /\ device' \in Lists
             /\ \A p \in People : device'[p] = device[p] \/ Given(p, device'[p])
  BY <1>2, <1>3 DEF IInv, TypeOK, Lists
<1>4. CASE /\ Fault /\ Told(Say("failed"))
           /\ \/ device' = [device EXCEPT ![run.person] = run.card] /\ UNCHANGED past
              \/ past' = [past EXCEPT !.left = @ \cup LeftBehind] /\ UNCHANGED device
  BY <1>1, <1>3, <1>4, TellsEnd
<1>5. CASE /\ run' = None /\ UNCHANGED <<inbox, faults, past>>
           /\ UNCHANGED device \/ device' = [device EXCEPT ![run.person] = run.card]
  <2>1. past' \in Past /\ faults' \in 0..MaxFaults
    BY <1>5 DEF IInv, TypeOK
  <2> QED BY <1>1, <1>3, <1>5, <2>1, Ends
<1> QED BY <1>4, <1>5 DEF Accepted

(* What it refused is not; a card of the menu is taken back. *)
LEMMA RefusedStep == IInv /\ Refused => IInv'
<1> SUFFICES ASSUME IInv, Refused PROVE IInv'
  OBVIOUS
<1>1. /\ run # None /\ run' = None
      /\ UNCHANGED <<rows, late, opening, card, inbox, checking, synced, reply, list, handled, edits>>
  BY DEF Refused, officeVars, mailVars
<1>2. run.person \in People /\ run.base \in Cards \cup {None} /\ Given(run.person, run.base)
  BY <1>1, RunTypes
<1>3. /\ device' \in Lists
      /\ \A p \in People : device'[p] = device[p] \/ Given(p, device'[p])
  <2>1. device' \in {device, [device EXCEPT ![run.person] = run.base]}
    BY DEF Refused
  <2> QED BY <1>2, <2>1 DEF IInv, TypeOK, Lists
<1>4. past' \in Past /\ past'.overlap = past.overlap /\ past'.known = past.known
  <2>1. CASE UNCHANGED past
    BY <2>1 DEF IInv, TypeOK
  <2>2. CASE past' = [past EXCEPT !.left = @ \cup LeftBehind]
    BY <2>2, LeftIsNoted
  <2> QED BY <2>1, <2>2 DEF Refused
<1>5. faults' \in 0..MaxFaults
  BY FaultTypes DEF Refused
<1> QED BY <1>1, <1>3, <1>4, <1>5, Ends

(* The user list is the cloud's. *)
LEMMA MaybeSyncStep == IInv /\ MaybeSync => IInv'
<1> SUFFICES ASSUME IInv, MaybeSync PROVE IInv'
  OBVIOUS
<1>1. /\ UNCHANGED <<rows, late, opening, card, inbox, checking, device, synced, run, handled, edits, faults, past>>
      /\ reply # None /\ reply.id = 0 /\ run = None /\ list = None
      /\ (list' = card /\ UNCHANGED reply) \/ (reply' = None /\ UNCHANGED list)
  BY DEF MaybeSync, officeVars, mailVars
<1>2. past \in Past /\ card \in Lists
  BY DEF IInv, TypeOK
<1>3. TypeOK'
  BY <1>1, <1>2, CloudWaits DEF IInv, TypeOK
<1>4. ReportsOfSessions' /\ ReplyOfSession' /\ RunOfSession' /\ ListAlone' /\ CardsWereGiven' /\ DeviceCardWasGiven'
  BY <1>1 DEF IInv, ReportsOfSessions, Reports, ReplyOfSession, RunOfSession, ListAlone, CardsWereGiven,
       DeviceCardWasGiven, Given
<1> QED BY <1>1, <1>2, <1>3, <1>4, CloudWaits DEF IInv, SessionPart

(* It is written, as a whole or in part. *)
LEMMA SyncUsersStep == IInv /\ SyncUsers => IInv'
<1> SUFFICES ASSUME IInv, SyncUsers PROVE IInv'
  OBVIOUS
<1>1. /\ list # None /\ list' = None /\ reply' = None
      /\ UNCHANGED <<rows, late, opening, card, inbox, checking, run, handled, edits, past>>
  BY DEF SyncUsers, officeVars, mailVars
<1>2. list \in Lists /\ device \in Lists /\ past \in Past
  BY <1>1 DEF IInv, TypeOK
<1>3. \A p \in People : Planned(p) \in Cards \cup {None} /\ Given(p, Planned(p))
  BY <1>1, <1>2 DEF Planned, Lists, IInv, CardsWereGiven, DeviceCardWasGiven, Given
<1>4. /\ device' \in Lists
      /\ \A p \in People : device'[p] \in {device[p], Planned(p)}
  <2>1. CASE device' = [p \in People |-> Planned(p)]
    BY <1>3, <2>1 DEF Lists
  <2>2. ASSUME NEW done, device' = [p \in People |-> IF p \in done THEN Planned(p) ELSE device[p]]
        PROVE  <1>4
    <3>1. \A p \in People : device[p] \in Cards \cup {None}
      BY <1>2 DEF Lists
    <3> QED BY <1>3, <2>2, <3>1 DEF Lists
  <2> QED BY <2>1, <2>2 DEF SyncUsers
<1>5. synced' \in Lists \cup {None} /\ faults' \in 0..MaxFaults
  <2>1. synced' \in {list, synced} /\ (Fault \/ UNCHANGED faults)
    BY DEF SyncUsers
  <2> QED BY <1>2, <2>1, FaultTypes DEF IInv, TypeOK
<1>6. run = None
  BY <1>1 DEF IInv, ListAlone
<1>7. TypeOK'
  BY <1>1, <1>2, <1>4, <1>5, CloudWaits DEF IInv, TypeOK
<1>8. DeviceCardWasGiven'
  BY <1>1, <1>3, <1>4 DEF IInv, DeviceCardWasGiven, Given
<1>9. ReportsOfSessions' /\ ReplyOfSession' /\ RunOfSession' /\ ListAlone' /\ CardsWereGiven'
  BY <1>1, <1>6 DEF IInv, ReportsOfSessions, Reports, ReplyOfSession, RunOfSession, ListAlone, CardsWereGiven, Given
<1> QED BY <1>1, <1>2, <1>7, <1>8, <1>9, CloudWaits DEF IInv, SessionPart

LEMMA RestartStep == IInv /\ Restart => IInv'
<1> SUFFICES ASSUME IInv, Restart PROVE IInv'
  OBVIOUS
<1>1. /\ UNCHANGED <<rows, late, opening, card, inbox, checking, device, synced, edits>>
      /\ reply' = None /\ run' = None /\ list' = None /\ handled' = {}
  BY DEF Restart, officeVars, mailVars
<1>2. past' \in Past /\ past'.overlap = past.overlap /\ past'.known = past.known /\ faults' \in 0..MaxFaults
  BY LeftIsNoted, FaultTypes DEF Restart
<1>3. TypeOK'
  BY <1>1, <1>2, CloudWaits DEF IInv, TypeOK
<1>4. ReportsOfSessions' /\ ReplyOfSession' /\ RunOfSession' /\ ListAlone' /\ CardsWereGiven' /\ DeviceCardWasGiven'
  BY <1>1, <1>2 DEF IInv, ReportsOfSessions, Reports, ReplyOfSession, RunOfSession, ListAlone, CardsWereGiven,
       DeviceCardWasGiven, Given
<1> QED BY <1>1, <1>2, <1>3, <1>4, CloudWaits DEF IInv, SessionPart

LEMMA StutterStep == IInv /\ UNCHANGED vars => IInv'
<1> SUFFICES ASSUME IInv, UNCHANGED vars PROVE IInv'
  OBVIOUS
<1> USE DEF vars, officeVars, mailVars, loopVars
<1>1. past \in Past
  BY DEF IInv, TypeOK
<1>2. TypeOK'
  BY DEF IInv, TypeOK
<1>3. LoopPart'
  BY DEF IInv, LoopPart, ReportsOfSessions, Reports, ReplyOfSession, RunOfSession, Watching, ListAlone,
       CardsWereGiven, DeviceCardWasGiven, Given
<1> QED BY <1>1, <1>2, <1>3, CloudWaits DEF IInv, SessionPart, LoopPart

---------------------------------------------------------------------------
(* The invariant holds of every state of every behaviour. *)
THEOREM Invariance == Spec => []IInv
<1>1. Init => IInv
  BY InitIInv
<1>2. IInv /\ [Next]_vars => IInv'
  <2> SUFFICES ASSUME IInv, [Next]_vars PROVE IInv'
    OBVIOUS
  <2>1. CASE \E a \in Admins : CreateRow(a) \/ \E p \in People : CancelOpenForDevice(a, p)
    BY <2>1, CreateRowStep, CancelOpenForDeviceStep
  <2>2. CASE \E i \in 1..Len(rows) : Cancel(i) \/ TimeUp(i) \/ LazyExpire(i)
    BY <2>2, CloseStep
  <2>3. CASE \/ \E p \in People, c \in Cards \cup {None} : Edit(p, c)
             \/ \E p \in People, c \in Cards : MenuCard(p, c)
    BY <2>3, EditStep, MenuCardStep
  <2>4. CASE \E r \in Reports : CloudStep(r)
    BY <2>4, ReportWaitingStep, ReportEndStep, CapturedTooLateStep, LookUpHolderStep, FailCardInUseStep,
       LinkCardStep DEF CloudStep
  <2>5. CASE Poll \/ AlreadyHandled \/ BeginRun \/ \E c \in Cards : Swipe(c) \/ MenuEntry(c)
    BY <2>5, PollStep, AlreadyHandledStep, BeginRunStep, SwipeStep, MenuEntryStep
  <2>6. CASE MenuFound \/ NoCard \/ GiveUp \/ TurnedAway \/ Accepted \/ Refused
    BY <2>6, MenuFoundStep, NoCardStep, GiveUpStep, TurnedAwayStep, AcceptedStep, RefusedStep
  <2>7. CASE MaybeSync \/ SyncUsers \/ Restart \/ UNCHANGED vars
    BY <2>7, MaybeSyncStep, SyncUsersStep, RestartStep, StutterStep
  <2> QED BY <2>1, <2>2, <2>3, <2>4, <2>5, <2>6, <2>7 DEF Next
<1> QED BY <1>1, <1>2, PTL DEF Spec

(* Every state has its type, and no card has two holders in the cloud.     *)
THEOREM TypesHold == Spec => []TypeOK
BY Invariance, PTL DEF IInv

(* Unless two creates overlap, one session of the device is open.          *)
THEOREM OneSession == Spec => []OneSessionPerDevice
BY Invariance, PTL DEF IInv

(* No user of the device has a card nobody gave that person.               *)
THEOREM DeviceCardsWereGiven == Spec => []DeviceCardWasGiven
BY Invariance, PTL DEF IInv

---------------------------------------------------------------------------
(* Who changes cards. *)

LEMMA QuietStep ==
    ASSUME UNCHANGED card, Kept
    PROVE  WithASession
BY DEF WithASession, Kept

LEMMA LinkIsCompletion ==
    ASSUME IInv, NEW r \in Reports, LinkCard(r)
    PROVE  WithASession
<1>1. r.id \in 1..Len(rows)
  BY ReportTypes
<1>2. CASE ~IsOpen(r.id) /\ UNCHANGED <<rows, card>>
  BY <1>2, SameShrinks, QuietStep DEF IInv, Shrinks
<1>3. CASE /\ IsOpen(r.id) /\ Closes(r.id, "COMPLETED")
           /\ card' = [card EXCEPT ![rows[r.id].person] = r.card]
  <2>1. Kept
    BY <1>1, <1>3, ClosesShrinks DEF IInv, Closed, Shrinks
  <2>2. rows'[r.id].status = "COMPLETED"
    <3>1. rows[r.id] \in Row
      BY <1>1 DEF IInv, TypeOK
    <3> QED BY <1>1, <1>3, <3>1 DEF Closes, IInv, TypeOK, Row
  <2>3. \A p \in People : p # rows[r.id].person => card'[p] = card[p]
    BY <1>3 DEF IInv, TypeOK, Lists
  <2> QED BY <1>1, <1>3, <2>1, <2>2, <2>3 DEF WithASession, Kept
<1> QED BY <1>2, <1>3 DEF LinkCard

(* A card changes by hand or with the completion of an open session of its *)
(* person, and a closed session stays closed.                              *)
THEOREM CardsChange == Spec => CardsChangeWithASession
<1>1. IInv /\ [Next]_vars => [WithASession]_vars
  <2> SUFFICES ASSUME IInv, Next PROVE WithASession
    OBVIOUS
  <2>1. ASSUME NEW a \in Admins, CreateRow(a) \/ \E p \in People : CancelOpenForDevice(a, p)
        PROVE  WithASession
    <3>1. CASE CreateRow(a)
      <4>1. [person |-> opening[a], status |-> "PENDING"] \in Row
        BY <3>1 DEF CreateRow, IInv, TypeOK, Row, Open
      <4>2. Kept
        BY <3>1, <4>1 DEF CreateRow, IInv, TypeOK, Kept
      <4> QED BY <3>1, <4>2, QuietStep DEF CreateRow
    <3>2. CASE \E p \in People : CancelOpenForDevice(a, p)
      BY <3>2, AllClosedShrinks, QuietStep DEF CancelOpenForDevice, IInv, Closed, Shrinks
    <3> QED BY <2>1, <3>1, <3>2
  <2>2. CASE \E i \in 1..Len(rows) : Cancel(i) \/ TimeUp(i) \/ LazyExpire(i)
    BY <2>2, SameShrinks, ClosesShrinks, QuietStep DEF Cancel, TimeUp, LazyExpire, IInv, Closed, Shrinks
  <2>3. CASE \E p \in People, c \in Cards \cup {None} : Edit(p, c)
    <3>1. UNCHANGED rows /\ edits' # edits
      BY <2>3 DEF Edit, officeVars, IInv, TypeOK
    <3> QED BY <3>1 DEF WithASession
  <2>4. ASSUME NEW r \in Reports, CloudStep(r)
        PROVE  WithASession
    <3>1. r.id \in 1..Len(rows)
      BY ReportTypes
    <3>2. CASE ReportWaiting(r) \/ ReportEnd(r) \/ FailCardInUse(r)
      BY <3>1, <3>2, ClosesShrinks, QuietStep DEF ReportWaiting, ReportEnd, FailCardInUse, IInv, Closed, Shrinks
    <3>3. CASE CapturedTooLate(r) \/ LookUpHolder(r)
      BY <3>3, SameShrinks, QuietStep DEF CapturedTooLate, LookUpHolder, officeVars, IInv, Shrinks
    <3>4. CASE LinkCard(r)
      BY <3>4, LinkIsCompletion
    <3> QED BY <2>4, <3>2, <3>3, <3>4 DEF CloudStep
  <2>5. CASE Poll
    BY <2>5, AllClosedShrinks, QuietStep DEF Poll, ExpireStale, IInv, Closed, Shrinks
  <2>6. CASE UNCHANGED <<rows, card>>
    BY <2>6, SameShrinks, QuietStep DEF IInv, Shrinks
  <2>7. AlreadyHandled \/ BeginRun \/ (\E c \in Cards : Swipe(c) \/ MenuEntry(c)) \/ MenuFound \/ NoCard
          \/ (\E p \in People, c \in Cards : MenuCard(p, c)) \/ GiveUp \/ TurnedAway \/ Accepted \/ Refused \/ MaybeSync \/ SyncUsers \/ Restart
        => UNCHANGED <<rows, card>>
    BY DEF AlreadyHandled, BeginRun, Swipe, MenuEntry, MenuFound, NoCard, MenuCard, GiveUp, TurnedAway,
       Accepted, Refused, MaybeSync, SyncUsers, Restart, officeVars
  <2> QED BY <2>1, <2>2, <2>3, <2>4, <2>5, <2>6, <2>7 DEF Next
<1> QED BY <1>1, Invariance, PTL DEF Spec, CardsChangeWithASession

---------------------------------------------------------------------------
(* No two creates ever overlapped. *)
NoOverlap == past.overlap = FALSE

(* create(): when the office starts one session at a time, no device ever  *)
(* has two open sessions, whatever connector and cloud were doing with the *)
(* replaced one.                                                           *)
THEOREM OneSessionAlone ==
    (\A a, b \in Admins : a = b) =>
        (Spec => [](\A i, j \in 1..Len(rows) : IsOpen(i) /\ IsOpen(j) => i = j))
<1> SUFFICES ASSUME \A a, b \in Admins : a = b
             PROVE  Spec => [](\A i, j \in 1..Len(rows) : IsOpen(i) /\ IsOpen(j) => i = j)
  OBVIOUS
<1>1. Init => NoOverlap
  BY DEF NoOverlap, Init, PastInit
<1>2. TypeOK /\ NoOverlap /\ [Next]_vars => NoOverlap'
  <2> SUFFICES ASSUME TypeOK, past.overlap = FALSE, [Next]_vars PROVE past'.overlap = FALSE
    BY DEF NoOverlap
  <2>1. past \in Past
    BY DEF TypeOK
  <2>2. ASSUME NEW a \in Admins, NEW p \in People, CancelOpenForDevice(a, p)
        PROVE  past'.overlap = FALSE
    <3>1. ~\E b \in Admins : opening[b] # None
      BY <2>2 DEF CancelOpenForDevice
    <3> QED BY <2>1, <2>2, <3>1 DEF CancelOpenForDevice, Past
  <2>3. ASSUME \A a \in Admins, p \in People : ~CancelOpenForDevice(a, p)
        PROVE  past'.overlap = past.overlap
    BY <2>1, <2>3 DEF Next, CreateRow, Cancel, TimeUp, LazyExpire, Edit, CloudStep, ReportWaiting,
       ReportEnd, CapturedTooLate, LookUpHolder, FailCardInUse, LinkCard, Poll, AlreadyHandled,
       BeginRun, Swipe, MenuEntry, MenuFound, NoCard, MenuCard, GiveUp, TurnedAway, Accepted, Refused,
       MaybeSync, SyncUsers, Restart, vars, Past
  <2> QED BY <2>2, <2>3
<1>3. IInv /\ NoOverlap => \A i, j \in 1..Len(rows) : IsOpen(i) /\ IsOpen(j) => i = j
  BY DEF NoOverlap, IInv, OneSessionPerDevice
<1> QED BY <1>1, <1>2, <1>3, Invariance, TypesHold, PTL DEF Spec
=============================================================================
