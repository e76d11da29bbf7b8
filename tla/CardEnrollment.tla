---------------------------- MODULE CardEnrollment ----------------------------
(***************************************************************************)
(* "Tap the card on the machine": enrollment sessions in the cloud         *)
(* (backend attendance-device-enrollment.service.ts), the command loop of  *)
(* one connector (connector.ts), the K40 it writes to (device-users.ts),   *)
(* and cards changed by hand (attendance-device-people.service.ts).        *)
(*                                                                         *)
(* Statements of the cloud outside a transaction are steps of their own: a *)
(* create is a cancel and an insert, a captured card is looked up and then *)
(* linked.  A reply may be lost and a request that timed out may still be  *)
(* executed.  Everybody has a PIN and a user on the K40 already, so the    *)
(* users version, a hash of the user list, is the card of everybody.       *)
(***************************************************************************)
EXTENDS Naturals, Sequences

CONSTANTS
    People,
    Cards,
    Admins,        \* office users that may start a session at the same time
    None,          \* no card, nobody, nothing in progress
    Attempts,      \* times a captured card is reported
    MaxSessions,   \* bound: sessions
    MaxEdits,      \* bound: cards changed by hand, in the cloud or at the K40
    MaxFaults      \* bound: lost replies, failing device writes, crashes

ASSUME EnrollmentAssumption ==
    /\ None \notin People \cup Cards
    /\ Attempts \in Nat \ {0}
    /\ MaxSessions \in Nat /\ MaxEdits \in Nat /\ MaxFaults \in Nat

VARIABLES
    rows,       \* the sessions in the cloud, by id
    late,       \* ids whose expiresAt has passed
    opening,    \* for whom each admin is between cancel and insert
    card,       \* card of each person in the cloud
    inbox,      \* report requests the cloud has not looked at yet
    checking,   \* captured cards looked up, with what was found
    device,     \* card of each user on the K40
    synced,     \* the user list this connector wrote last, or None
    reply,      \* the answer of /commands being handled, or None
    run,        \* the session running on the device, or None
    list,       \* the user list being written to the device, or None
    handled,    \* session ids the connector has taken up
    edits,      \* changes by hand
    faults,     \* faults so far
    past        \* history: see PastInit

officeVars == <<rows, late, opening>>
mailVars == <<inbox, checking>>
loopVars == <<reply, run, list, handled>>
vars == <<officeVars, card, mailVars, device, synced, loopVars, edits, faults, past>>

Ids == 1..MaxSessions
Open == {"PENDING", "WAITING"}
Closed == {"COMPLETED", "FAILED", "CANCELLED", "EXPIRED"}
Row == [person : People, status : Open \cup Closed]
Lists == [People -> Cards \cup {None}]

(* A report: what, for which session, with which card, which attempt.      *)
Report == [id : Ids, kind : {"waiting", "captured", "failed", "expired"},
           card : Cards \cup {None}, n : 1..Attempts]
Reply == [id : Ids \cup {0}, person : People \cup {None}, card : Cards \cup {None}, users : Lists]
Run == [id : Ids, person : People, base : Cards \cup {None}, card : Cards \cup {None},
        menu : BOOLEAN, at : {"asking", "tapping", "accepted", "refused"},
        sent : Report \cup {None}]

ASSUME NoneAssumption == None \notin Lists \cup Report \cup Reply \cup Run

(* Two creates overlapped; cards a person had in the cloud or was given in *)
(* the menu of the K40; people with a menu card that no run saw or took    *)
(* back; people whose card was taken away in the cloud; people whose card  *)
(* was changed back to what the device was last told.                      *)
Past == [overlap : BOOLEAN, known : SUBSET (People \X Cards),
         left : SUBSET People, cleared : SUBSET People, back : SUBSET People]
PastInit == [overlap |-> FALSE, known |-> {},
             left |-> {}, cleared |-> {}, back |-> {}]

TypeOK ==
    /\ rows \in Seq(Row) /\ Len(rows) <= MaxSessions
    /\ late \in SUBSET Ids
    /\ opening \in [Admins -> People \cup {None}]
    /\ card \in Lists
    /\ \A p, q \in People : card[p] = card[q] /\ card[p] # None => p = q
    /\ inbox \in SUBSET Report
    /\ checking \in SUBSET (Report \X BOOLEAN)
    /\ device \in Lists
    /\ synced \in Lists \cup {None}
    /\ reply \in Reply \cup {None}
    /\ run \in Run \cup {None}
    /\ list \in Lists \cup {None}
    /\ handled \in SUBSET Ids
    /\ edits \in 0..MaxEdits
    /\ faults \in 0..MaxFaults
    /\ past \in Past

Init ==
    /\ rows = <<>>
    /\ late = {}
    /\ opening = [a \in Admins |-> None]
    /\ card = [p \in People |-> None]
    /\ inbox = {}
    /\ checking = {}
    /\ device = [p \in People |-> None]
    /\ synced = None
    /\ reply = None /\ run = None /\ list = None
    /\ handled = {}
    /\ edits = 0
    /\ faults = 0
    /\ past = PastInit

IsOpen(i) == rows[i].status \in Open

(* transition(): only while the row is open. *)
Closes(i, status) ==
    rows' = IF IsOpen(i) THEN [rows EXCEPT ![i].status = status] ELSE rows

(* What a statement that closes many rows leaves. *)
AllClosed(set, status) ==
    [i \in 1..Len(rows) |-> IF i \in set /\ IsOpen(i) THEN [rows[i] EXCEPT !.status = status] ELSE rows[i]]

Fault ==
    /\ faults < MaxFaults
    /\ faults' = faults + 1

---------------------------------------------------------------------------
(* The office. *)

(* The bound: an insert under way counts. *)
Room == Len(rows) < IF \A b \in Admins : opening[b] = None THEN MaxSessions ELSE MaxSessions - 1

(* Mutant: only sessions nobody has taken up are cancelled. *)
CancelPending(a, p) ==
    /\ opening[a] = None
    /\ Room
    /\ rows' = AllClosed({i \in 1..Len(rows) : rows[i].status = "PENDING"}, "CANCELLED")
    /\ opening' = [opening EXCEPT ![a] = p]
    /\ past' = [past EXCEPT !.overlap = @ \/ \E b \in Admins : opening[b] # None]
    /\ UNCHANGED <<late, card, mailVars, device, synced, loopVars, edits, faults>>

(* create(): cancelOpenForDevice() ... *)
CancelOpenForDevice(a, p) ==
    /\ opening[a] = None
    /\ Room
    /\ rows' = AllClosed(1..Len(rows), "CANCELLED")
    /\ opening' = [opening EXCEPT ![a] = p]
    /\ past' = [past EXCEPT !.overlap = @ \/ \E b \in Admins : opening[b] # None]
    /\ UNCHANGED <<late, card, mailVars, device, synced, loopVars, edits, faults>>

(* ... then the new row. *)
CreateRow(a) ==
    /\ opening[a] # None
    /\ Len(rows) < MaxSessions
    /\ rows' = Append(rows, [person |-> opening[a], status |-> "PENDING"])
    /\ opening' = [opening EXCEPT ![a] = None]
    /\ UNCHANGED <<late, card, mailVars, device, synced, loopVars, edits, faults, past>>

Cancel(i) ==
    /\ IsOpen(i)
    /\ Closes(i, "CANCELLED")
    /\ UNCHANGED <<late, opening, card, mailVars, device, synced, loopVars, edits, faults, past>>

(* Time runs out; it matters to nobody once the session is closed and no   *)
(* run waits for a card.                                                   *)
TimeUp(i) ==
    /\ i \notin late
    /\ IsOpen(i) \/ (run # None /\ run.id = i)
    /\ late' = late \cup {i}
    /\ UNCHANGED <<rows, opening, card, mailVars, device, synced, loopVars, edits, faults, past>>

(* get(): looking at a session closes it when its time is up. *)
LazyExpire(i) ==
    /\ i \in late
    /\ IsOpen(i)
    /\ Closes(i, "EXPIRED")
    /\ UNCHANGED <<late, opening, card, mailVars, device, synced, loopVars, edits, faults, past>>

(* Unique [madrasaId, cardNumber]; assertCardFree(), findMapByCard(). *)
Free(c, p) == \A q \in People \ {p} : card[q] # c

(* A card changed to the one the last user sync wrote. *)
Back(p, c) == IF synced # None /\ synced[p] = c THEN past.back \cup {p} ELSE past.back

(* setCard() and clearCard(); the unique key keeps a card with one person. *)
Edit(p, c) ==
    /\ edits < MaxEdits
    /\ c = None \/ Free(c, p)
    /\ c # card[p]
    /\ edits' = edits + 1
    /\ card' = [card EXCEPT ![p] = c]
    /\ past' = [past EXCEPT
          !.known = IF c = None THEN @ ELSE @ \cup {<<p, c>>},
          !.cleared = IF c = None THEN @ \cup {p} ELSE @,
          !.back = Back(p, c)]
    /\ UNCHANGED <<officeVars, mailVars, device, synced, loopVars, faults>>

---------------------------------------------------------------------------
(* report() in the cloud. *)

(* The connector is told, unless it has given up or the answer is lost. *)
Answers(r, ok) ==
    IF run = None \/ run.sent # r
    THEN UNCHANGED <<run, faults>>
    ELSE \/ /\ run' = CASE r.kind = "waiting"  -> IF ok THEN [run EXCEPT !.sent = None, !.at = "tapping"] ELSE None
                        [] r.kind = "captured" -> [run EXCEPT !.sent = None, !.at = IF ok THEN "accepted" ELSE "refused"]
                        [] OTHER               -> None
            /\ UNCHANGED faults
         \/ Fault /\ UNCHANGED run

ReportWaiting(r) ==
    /\ r \in inbox
    /\ r.kind = "waiting"
    /\ inbox' = inbox \ {r}
    /\ Closes(r.id, IF r.id \in late THEN "EXPIRED" ELSE "WAITING")
    /\ Answers(r, IsOpen(r.id) /\ r.id \notin late)
    /\ UNCHANGED <<late, opening, card, checking, device, synced, reply, list, handled, edits, past>>

ReportEnd(r) ==
    /\ r \in inbox
    /\ r.kind \in {"failed", "expired"}
    /\ inbox' = inbox \ {r}
    /\ Closes(r.id, IF r.kind = "failed" THEN "FAILED" ELSE "EXPIRED")
    /\ Answers(r, IsOpen(r.id))
    /\ UNCHANGED <<late, opening, card, checking, device, synced, reply, list, handled, edits, past>>

(* A captured card of a closed session is turned down at once ... *)
CapturedTooLate(r) ==
    /\ r \in inbox
    /\ r.kind = "captured"
    /\ ~IsOpen(r.id)
    /\ inbox' = inbox \ {r}
    /\ Answers(r, FALSE)
    /\ UNCHANGED <<officeVars, card, checking, device, synced, reply, list, handled, edits, past>>

(* ... of an open one its holder is looked up first. *)
LookUpHolder(r) ==
    /\ r \in inbox
    /\ r.kind = "captured"
    /\ IsOpen(r.id)
    /\ inbox' = inbox \ {r}
    /\ checking' = checking \cup {<<r, Free(r.card, rows[r.id].person)>>}
    /\ UNCHANGED <<officeVars, card, device, synced, loopVars, edits, faults, past>>

FailCardInUse(r) ==
    /\ \/ <<r, FALSE>> \in checking
       \/ <<r, TRUE>> \in checking /\ IsOpen(r.id) /\ ~Free(r.card, rows[r.id].person)
    /\ checking' = checking \ ({r} \X BOOLEAN)
    /\ Closes(r.id, "FAILED")
    /\ Answers(r, FALSE)
    /\ UNCHANGED <<late, opening, card, inbox, device, synced, reply, list, handled, edits, past>>

(* Mutant: the card is linked whatever became of the session. *)
LinkAnyway(r) ==
    LET p == rows[r.id].person
    IN /\ <<r, TRUE>> \in checking
       /\ Free(r.card, p)
       /\ checking' = checking \ ({r} \X BOOLEAN)
       /\ rows' = [rows EXCEPT ![r.id].status = "COMPLETED"]
       /\ card' = [card EXCEPT ![p] = r.card]
       /\ past' = [past EXCEPT !.known = @ \cup {<<p, r.card>>}]
       /\ Answers(r, TRUE)
       /\ UNCHANGED <<late, opening, inbox, device, synced, reply, list, handled, edits>>

(* The transaction: session completed and card linked, or neither. *)
LinkCard(r) ==
    LET p == rows[r.id].person
    IN /\ <<r, TRUE>> \in checking
       /\ checking' = checking \ ({r} \X BOOLEAN)
       /\ \/ /\ IsOpen(r.id)
             /\ Free(r.card, p)
             /\ Closes(r.id, "COMPLETED")
             /\ card' = [card EXCEPT ![p] = r.card]
             /\ past' = [past EXCEPT !.known = @ \cup {<<p, r.card>>}, !.back = Back(p, r.card)]
             /\ Answers(r, TRUE)
          \/ /\ ~IsOpen(r.id)
             /\ Answers(r, FALSE)
             /\ UNCHANGED <<rows, card, past>>
       /\ UNCHANGED <<late, opening, inbox, device, synced, reply, list, handled, edits>>

---------------------------------------------------------------------------
(* The command loop of the connector. *)

Idle == reply = None /\ run = None /\ list = None

Pending == {i \in 1..Len(rows) : rows[i].status = "PENDING" /\ i \notin late}

(* Mutant: sessions that ran out stay open. *)
KeepStale == UNCHANGED rows

ExpireStale == rows' = AllClosed(late, "EXPIRED")

(* commands(): expire, then the newest pending session and the users       *)
(* version; a poll that fails only expires.                                *)
Poll ==
    /\ Idle
    /\ ExpireStale
    /\ \/ /\ Pending = {}
          /\ reply' = [id |-> 0, person |-> None, card |-> None, users |-> card]
       \/ \E i \in Pending :
             /\ \A j \in Pending : j <= i
             /\ reply' = [id |-> i, person |-> rows[i].person, card |-> card[rows[i].person], users |-> card]
    /\ UNCHANGED <<late, opening, card, mailVars, device, synced, run, list, handled, edits, faults, past>>

Told(r) ==
    /\ run' = [run EXCEPT !.sent = r, !.at = "asking"]
    /\ inbox' = inbox \cup {r}

Say(kind) == [id |-> run.id, kind |-> kind, card |-> None, n |-> 1]

(* handleEnrollment(): every session is taken up once in a process's life. *)
AlreadyHandled ==
    /\ reply # None
    /\ reply.id \in handled
    /\ reply' = [reply EXCEPT !.id = 0]
    /\ UNCHANGED <<officeVars, card, mailVars, device, synced, run, list, handled, edits, faults, past>>

(* enrollOnDevice() up to the report `waiting`; a device that fails, before *)
(* or after the user is written, ends the session, and so does the time    *)
(* that ran out before the connector took the session up.                  *)
BeginRun ==
    LET p == reply.person
        to == IF reply.card = None THEN device[p] ELSE reply.card
        r(kind) == [id |-> reply.id, kind |-> kind, card |-> None, n |-> 1]
        start(kind) == /\ run' = [id |-> reply.id, person |-> p, base |-> to, card |-> None,
                                  menu |-> FALSE, at |-> "asking", sent |-> r(kind)]
                       /\ inbox' = inbox \cup {r(kind)}
        written == device' = [device EXCEPT ![p] = to]
    IN /\ reply # None
       /\ reply.id \notin handled \cup {0}
       /\ handled' = handled \cup {reply.id}
       /\ reply' = [reply EXCEPT !.id = 0]
       /\ \/ start("waiting") /\ written /\ UNCHANGED faults
          \/ start("failed") /\ (written \/ UNCHANGED device) /\ Fault
          \/ reply.id \in late /\ start("expired") /\ UNCHANGED <<device, faults>>
       /\ UNCHANGED <<officeVars, card, checking, synced, list, edits, past>>

Tapping == run # None /\ run.at = "tapping"

Captured(c, menu) ==
    LET r == [id |-> run.id, kind |-> "captured", card |-> c, n |-> 1]
    IN /\ run' = [run EXCEPT !.sent = r, !.at = "asking", !.card = c, !.menu = menu]
       /\ inbox' = inbox \cup {r}

Swipe(c) ==
    /\ Tapping
    /\ Captured(c, FALSE)
    /\ UNCHANGED <<officeVars, card, checking, device, synced, reply, list, handled, edits, faults, past>>

(* Somebody gives the person a card in the menu of the K40 ... *)
MenuEntry(c) ==
    /\ Tapping
    /\ device[run.person] = run.base
    /\ c # run.base
    /\ device' = [device EXCEPT ![run.person] = c]
    /\ past' = [past EXCEPT !.known = @ \cup {<<run.person, c>>}]
    /\ UNCHANGED <<officeVars, card, mailVars, synced, loopVars, edits, faults>>

(* ... and the connector finds it there. *)
MenuFound ==
    /\ Tapping
    /\ device[run.person] # run.base
    /\ Captured(device[run.person], TRUE)
    /\ UNCHANGED <<officeVars, card, checking, device, synced, reply, list, handled, edits, faults, past>>

(* A card entered in the menu at any other time: nobody need ever see it.  *)
MenuCard(p, c) ==
    /\ edits < MaxEdits
    /\ c # device[p]
    /\ edits' = edits + 1
    /\ device' = [device EXCEPT ![p] = c]
    /\ past' = [past EXCEPT !.known = @ \cup {<<p, c>>}, !.left = @ \cup {p}]
    /\ UNCHANGED <<officeVars, card, mailVars, synced, loopVars, faults>>

(* A run that ends without having looked leaves what the menu wrote; one   *)
(* that only reports its end has been counted.                             *)
Ending == run.sent # None /\ run.sent.kind \in {"failed", "expired"}
LeftBehind ==
    IF run # None /\ ~Ending /\ device[run.person] # run.base THEN {run.person} ELSE {}

NoCard ==
    /\ Tapping
    /\ \/ run.id \in late /\ Told(Say("expired")) /\ UNCHANGED faults
       \/ Told(Say("failed")) /\ Fault
    /\ past' = [past EXCEPT !.left = @ \cup LeftBehind]
    /\ UNCHANGED <<officeVars, card, checking, device, synced, reply, list, handled, edits>>

(* Without an answer a captured card counts as refused, the wait begins    *)
(* all the same, and an end is an end.                                     *)
GoOn ==
    run' = CASE run.sent.kind = "captured" -> [run EXCEPT !.sent = None, !.at = "refused"]
             [] run.sent.kind = "waiting"  -> [run EXCEPT !.sent = None, !.at = "tapping"]
             [] OTHER                      -> None

(* The answer does not come: only `captured` is sent again.                *)
GiveUp ==
    /\ run # None /\ run.at = "asking"
    /\ \/ run.sent \in inbox \cup {x[1] : x \in checking} /\ Fault
       \/ run.sent \notin inbox \cup {x[1] : x \in checking} /\ UNCHANGED faults
    /\ IF run.sent.kind = "captured" /\ run.sent.n < Attempts
       THEN Told([run.sent EXCEPT !.n = @ + 1])
       ELSE GoOn /\ UNCHANGED inbox
    /\ UNCHANGED <<officeVars, card, checking, device, synced, reply, list, handled, edits, past>>

(* An auth or client error: the cloud has not looked at the report, and it *)
(* is not sent again.                                                      *)
TurnedAway ==
    /\ run # None /\ run.at = "asking"
    /\ run.sent \in inbox
    /\ Fault
    /\ inbox' = inbox \ {run.sent}
    /\ GoOn
    /\ UNCHANGED <<officeVars, card, checking, device, synced, reply, list, handled, edits, past>>

(* The cloud accepted: a swiped card is written to the device, which may   *)
(* fail before or after it has it.                                         *)
Accepted ==
    /\ run # None /\ run.at = "accepted"
    /\ LET written == device' = [device EXCEPT ![run.person] = run.card]
       IN \/ /\ run' = None
             /\ IF run.menu THEN UNCHANGED device ELSE written
             /\ UNCHANGED <<inbox, faults, past>>
          \/ /\ ~run.menu /\ Fault /\ Told(Say("failed"))
             /\ \/ written /\ UNCHANGED past
                \/ past' = [past EXCEPT !.left = @ \cup LeftBehind] /\ UNCHANGED device
    /\ UNCHANGED <<officeVars, card, checking, synced, reply, list, handled, edits>>

(* Mutant: the card is written although the cloud did not take it. *)
RefusedWritten ==
    /\ run # None /\ run.at = "refused"
    /\ run' = None
    /\ device' = [device EXCEPT ![run.person] = run.card]
    /\ UNCHANGED <<officeVars, card, mailVars, synced, reply, list, handled, edits, faults, past>>

(* Mutant: a card of the menu stays. *)
NotReverted ==
    /\ run # None /\ run.at = "refused"
    /\ run' = None
    /\ UNCHANGED <<officeVars, card, mailVars, device, synced, reply, list, handled, edits, faults, past>>

(* Refused or unreachable: a card of the menu is taken back. *)
Refused ==
    /\ run # None /\ run.at = "refused"
    /\ run' = None
    /\ \/ /\ run.menu
          /\ device' = [device EXCEPT ![run.person] = run.base]
          /\ UNCHANGED <<faults, past>>
       \/ /\ run.menu => Fault
          /\ ~run.menu => UNCHANGED faults
          /\ past' = [past EXCEPT !.left = @ \cup LeftBehind]
          /\ UNCHANGED device
    /\ UNCHANGED <<officeVars, card, mailVars, synced, reply, list, handled, edits>>

(* maybeSyncUsers(): the version of the poll decides, the list is fetched. *)
SyncNeeded == reply.users # synced

MaybeSync ==
    /\ reply # None /\ reply.id = 0
    /\ run = None
    /\ list = None
    /\ \/ SyncNeeded /\ list' = card /\ UNCHANGED reply
       \/ ~SyncNeeded /\ reply' = None /\ UNCHANGED list
    /\ UNCHANGED <<officeVars, card, mailVars, device, synced, run, handled, edits, faults, past>>

(* planUserSync(): a card of the device stays when the cloud has none. *)
Planned(p) == IF list[p] = None THEN device[p] ELSE list[p]

SyncUsers ==
    /\ list # None
    /\ list' = None
    /\ reply' = None
    /\ \/ /\ device' = [p \in People |-> Planned(p)]
          /\ synced' = list
          /\ UNCHANGED faults
       \/ /\ Fault
          /\ \E done \in SUBSET People :
                device' = [p \in People |-> IF p \in done THEN Planned(p) ELSE device[p]]
          /\ UNCHANGED synced
    /\ UNCHANGED <<officeVars, card, mailVars, run, handled, edits, past>>

(* The process dies; only the user state of the last sync is on disk. *)
Restart ==
    /\ Fault
    /\ reply' = None /\ run' = None /\ list' = None
    /\ handled' = {}
    /\ past' = [past EXCEPT !.left = @ \cup LeftBehind]
    /\ UNCHANGED <<officeVars, card, mailVars, device, synced, edits>>

---------------------------------------------------------------------------
CloudStep(r) ==
    \/ ReportWaiting(r) \/ ReportEnd(r)
    \/ CapturedTooLate(r) \/ LookUpHolder(r) \/ FailCardInUse(r) \/ LinkCard(r)

Reports == inbox \cup {x[1] : x \in checking}

Next ==
    \/ \E a \in Admins : CreateRow(a) \/ \E p \in People : CancelOpenForDevice(a, p)
    \/ \E i \in 1..Len(rows) : Cancel(i) \/ TimeUp(i) \/ LazyExpire(i)
    \/ \E p \in People, c \in Cards \cup {None} : Edit(p, c)
    \/ \E p \in People, c \in Cards : MenuCard(p, c)
    \/ \E r \in Reports : CloudStep(r)
    \/ Poll \/ AlreadyHandled \/ BeginRun
    \/ \E c \in Cards : Swipe(c) \/ MenuEntry(c)
    \/ MenuFound \/ NoCard \/ GiveUp \/ TurnedAway \/ Accepted \/ Refused
    \/ MaybeSync \/ SyncUsers \/ Restart

Spec == Init /\ [][Next]_vars

(* Time passes, requests are executed or time out, and the loop goes on    *)
(* (commandLoop() catches everything; the service is restarted).           *)
FairSpec ==
    /\ Spec
    /\ \A i \in Ids : WF_vars(i <= Len(rows) /\ TimeUp(i))
    /\ WF_vars(\E r \in Reports : CloudStep(r))
    /\ WF_vars(Poll \/ AlreadyHandled \/ BeginRun \/ NoCard \/ GiveUp
                 \/ Accepted \/ Refused \/ MaybeSync \/ SyncUsers)

---------------------------------------------------------------------------
(* enrollment.repository.ts:51 "only one session per device at a time":    *)
(* true as long as no two creates overlap, whatever the connector and the  *)
(* cloud were doing with the replaced session.                             *)
OneSessionPerDevice ==
    past.overlap \/ \A i, j \in 1..Len(rows) : IsOpen(i) /\ IsOpen(j) => i = j

(* A card changes hands only by hand, or with the completion of an open    *)
(* session of that person, in one transaction: the tap for a cancelled,    *)
(* expired or replaced session links nothing, and what is closed stays     *)
(* closed (report(), transition()).                                        *)
WithASession ==
    /\ \A p \in People :
         card'[p] # card[p] /\ edits' = edits =>
             \E i \in 1..Len(rows) : /\ IsOpen(i) /\ rows[i].person = p
                                     /\ rows'[i].status = "COMPLETED"
    /\ \A i \in 1..Len(rows) : ~IsOpen(i) => rows'[i] = rows[i]
CardsChangeWithASession == [][WithASession]_vars

(* connector.ts:974 "only write the card to the device when the cloud      *)
(* accepted it": a user of the K40 has a card that was this person's in    *)
(* the cloud, or that somebody entered in the menu of the K40.             *)
DeviceCardWasGiven ==
    \A p \in People : device[p] # None => <<p, device[p]>> \in past.known

(* The K40 ends up with the cards of the cloud although replies get lost   *)
(* and writes fail, with three exceptions the code has: a card taken away  *)
(* in the cloud stays on the device (planUserSync keeps it), so does a     *)
(* menu card that no run waited for, saw or took back, and a card changed  *)
(* back before the next poll to what the last sync wrote goes unnoticed,   *)
(* because an enrollment's own write does not change the synced version.   *)
DeviceAgrees ==
    <>[](\A p \in People :
            \/ device[p] = card[p]
            \/ p \in past.left \cup past.back
            \/ card[p] = None /\ p \in past.cleared)

(* Every session is closed in the end: a connector that died with the      *)
(* session in its hands leaves it to the expiry of the next poll.          *)
SessionsEnd == \A i \in Ids : []<>(i <= Len(rows) => ~IsOpen(i))

---------------------------------------------------------------------------
(* The inductive invariant behind the safety properties.                   *)

(* Until two creates overlap, who is between cancel and insert is alone,   *)
(* and no session is open.                                                 *)
OpensAlone ==
    ~past.overlap =>
        \A a \in Admins : opening[a] # None =>
            /\ \A i \in 1..Len(rows) : ~IsOpen(i)
            /\ \A b \in Admins : opening[b] # None => a = b

(* Reports are about sessions of the cloud, captured ones name a card and  *)
(* are the only ones looked up.                                            *)
ReportsOfSessions ==
    /\ \A r \in Reports : r.id <= Len(rows) /\ (r.kind = "captured" => r.card # None)
    /\ \A x \in checking : x[1].kind = "captured"

Given(p, c) == c # None => <<p, c>> \in past.known

(* So is the reply being handled, *)
ReplyOfSession ==
    reply # None /\ reply.id # 0 =>
        /\ reply.id <= Len(rows)
        /\ reply.person = rows[reply.id].person
        /\ Given(reply.person, reply.card)

(* and the run: it was accepted with the card its report named, and while  *)
(* it looks for a card the device shows one unless it never did.           *)
Watching == run.at = "tapping" \/ (run.at = "asking" /\ run.sent.kind = "waiting")
RunOfSession ==
    run # None =>
        /\ run.id <= Len(rows)
        /\ run.person = rows[run.id].person
        /\ Given(run.person, run.base)
        /\ run.at = "accepted" => run.card # None /\ Given(run.person, run.card)
        /\ run.at = "asking" <=> run.sent # None
        /\ run.sent # None =>
              /\ run.sent.id = run.id
              /\ run.sent.kind = "captured" => run.sent.card # None /\ run.sent.card = run.card
        /\ Watching => run.base = None \/ device[run.person] # None

(* Users are written between runs. *)
ListAlone == list # None => run = None /\ reply # None /\ reply.id = 0

CardsWereGiven ==
    \A p \in People : Given(p, card[p]) /\ (list # None => Given(p, list[p]))

IInv ==
    /\ TypeOK
    /\ OneSessionPerDevice
    /\ OpensAlone
    /\ ReportsOfSessions
    /\ ReplyOfSession
    /\ RunOfSession
    /\ ListAlone
    /\ CardsWereGiven
    /\ DeviceCardWasGiven
=============================================================================
