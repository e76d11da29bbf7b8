--------------------------- MODULE MessageBilling ---------------------------
(***************************************************************************)
(* The prepaid wallet of one madrasa and channel                           *)
(* (backend modules/billing, and notifications/notification.service.ts,    *)
(* which spends from it).                                                  *)
(*                                                                         *)
(* A send checks, reserves, calls the provider, and then keeps or gives    *)
(* back the reserved credit.  Super admins review purchase requests and    *)
(* adjust the credit by hand: both read the wallet first and write it in a *)
(* later statement.  PostgreSQL runs at read committed, so a statement is  *)
(* atomic and what follows an UPDATE of the wallet in its transaction is   *)
(* done under the row's lock; other actors move in between.                *)
(***************************************************************************)
EXTENDS Integers

CONSTANTS
    Sends,        \* messages to send, one per recipient
    Units,        \* credit each costs (its segments)
    Requests,     \* purchase requests
    Type,         \* "PACKAGE" or "RECHARGE", for each request
    Credit,       \* credit each buys
    Validity,     \* days each buys
    Admins,       \* super admin sessions
    None,         \* no request
    Deltas,       \* credit changes made by hand
    GrantDays,    \* MANUAL_GRANT_DEFAULT_VALIDITY_DAYS
    MaxDay,       \* bound of the clock
    MaxChanges,   \* bound of the changes made by hand
    Faults        \* which of "db", "commit", "reply", "crash" happen

ASSUME BillingAssumption ==
    /\ Units \in [Sends -> Nat \ {0}]
    /\ Type \in [Requests -> {"PACKAGE", "RECHARGE"}]
    /\ Credit \in [Requests -> Nat \ {0}]
    /\ Validity \in [Requests -> Nat]
    /\ None \notin Requests
    /\ Deltas \subseteq Int \ {0}
    /\ GrantDays \in Nat /\ MaxDay \in Nat /\ MaxChanges \in Nat
    /\ Faults \subseteq {"db", "commit", "reply", "crash"}

VARIABLES
    wallet,     \* the subscription row; status "none" while there is no row
    balance,    \* balanceAfter of the last ledger row
    now,        \* today
    at,         \* where each send stands
    usage,      \* status of its usage log row
    accepted,   \* TRUE: the provider took the message
    refunds,    \* REFUND rows written for it
    mishaps,    \* the faults its delivery has met, and where
    request,    \* status of each purchase request
    granted,    \* how often its package was applied
    desk,       \* what each admin session is doing
    job,        \* the request it reviews
    seen,       \* the wallet it has read
    delta,      \* the change it is making by hand
    changes     \* changes made by hand so far

sendVars == <<at, usage, accepted, refunds, mishaps>>
adminVars == <<request, granted, desk, job, seen, delta, changes>>
vars == <<wallet, balance, now, sendVars, adminVars>>

Wallet == [status: {"none", "ACTIVE", "EXPIRED"}, expiry: Nat,
           total: Int, used: Int, remaining: Int]
NoWallet == [status |-> "none", expiry |-> 0, total |-> 0, used |-> 0, remaining |-> 0]

Places == {"new", "checked", "charged", "accepted", "rejected", "failing", "done", "dead"}
Tasks == {"idle", "opened", "approved", "applying", "adjusting"}

TypeOK ==
    /\ wallet \in Wallet
    /\ balance \in Int
    /\ now \in Nat
    /\ at \in [Sends -> Places]
    /\ usage \in [Sends -> {"none", "PENDING", "SENT", "FAILED"}]
    /\ accepted \in [Sends -> BOOLEAN]
    /\ refunds \in [Sends -> Nat]
    /\ mishaps \in [Sends -> SUBSET (Places \X {"db", "commit", "reply"})]
    /\ request \in [Requests -> {"none", "PENDING", "APPROVED", "REJECTED"}]
    /\ granted \in [Requests -> Nat]
    /\ desk \in [Admins -> Tasks]
    /\ job \in [Admins -> Requests \cup {None}]
    /\ seen \in [Admins -> Wallet]
    /\ delta \in [Admins -> Deltas \cup {0}]
    /\ changes \in Nat

Init ==
    /\ wallet = NoWallet
    /\ balance = 0
    /\ now = 0
    /\ at = [s \in Sends |-> "new"]
    /\ usage = [s \in Sends |-> "none"]
    /\ accepted = [s \in Sends |-> FALSE]
    /\ refunds = [s \in Sends |-> 0]
    /\ mishaps = [s \in Sends |-> {}]
    /\ request = [q \in Requests |-> "none"]
    /\ granted = [q \in Requests |-> 0]
    /\ desk = [a \in Admins |-> "idle"]
    /\ job = [a \in Admins |-> None]
    /\ seen = [a \in Admins |-> NoWallet]
    /\ delta = [a \in Admins |-> 0]
    /\ changes = 0

Valid(w) == w.status # "none" /\ w.expiry >= now
Active(w) == w.status = "ACTIVE" /\ w.expiry >= now

(* One transaction: the wallet and the balance of its ledger row. *)
Post(w) == wallet' = w /\ balance' = w.remaining

Spent(w, n) == [w EXCEPT !.used = @ + n, !.remaining = @ - n]
Added(w, n) == [w EXCEPT !.total = @ + n, !.remaining = @ + n]

---------------------------------------------------------------------------
(* Sending one message. *)

Step(s, here) == at' = [at EXCEPT ![s] = here]

(* The delivery goes on, or meets one of the faults that may happen. *)
Smoothly == UNCHANGED mishaps
Meets(s, fault) == fault \in Faults /\ mishaps' = [mishaps EXCEPT ![s] = @ \cup {<<at[s], fault>>}]

(* assertCanSend(): advisory, before anything is written. *)
Check(s) ==
    /\ at[s] = "new"
    /\ Step(s, IF Valid(wallet) /\ wallet.remaining >= Units[s] THEN "checked" ELSE "done")
    /\ UNCHANGED <<wallet, balance, now, usage, accepted, refunds, mishaps, adminVars>>

(* Mutant: the check is trusted, and the UPDATE does not repeat it. *)
AnyCredit(s) == Active(wallet)

CanCharge(s) == Active(wallet) /\ wallet.remaining >= Units[s]

(* Mutant: the ledger row carries the balance before the charge. *)
ReserveUnposted(s) ==
    /\ wallet' = Spent(wallet, Units[s])
    /\ balance' = wallet.remaining
    /\ usage' = [usage EXCEPT ![s] = "PENDING"]

Reserve(s) ==
    /\ Post(Spent(wallet, Units[s]))
    /\ usage' = [usage EXCEPT ![s] = "PENDING"]

(* chargeForSend(): the conditional UPDATE and its rows, or nothing.  A     *)
(* commit whose answer is lost is a failed charge for the caller.          *)
Charge(s) ==
    /\ at[s] = "checked"
    /\ \/ CanCharge(s) /\ Reserve(s) /\ Smoothly /\ Step(s, "charged")
       \/ CanCharge(s) /\ Reserve(s) /\ Meets(s, "commit") /\ Step(s, "done")
       \/ /\ (~CanCharge(s) /\ Smoothly) \/ Meets(s, "db")
          /\ Step(s, "done")
          /\ UNCHANGED <<wallet, balance, usage>>
    /\ UNCHANGED <<now, accepted, refunds, adminVars>>

Accept(s) == accepted' = [accepted EXCEPT ![s] = TRUE]

(* The notification row is written (or throws) and the provider is called; *)
(* an acceptance whose answer is lost is reported as a rejection.          *)
CallProvider(s) ==
    /\ at[s] = "charged"
    /\ \/ Accept(s) /\ Smoothly /\ Step(s, "accepted")
       \/ Accept(s) /\ Meets(s, "reply") /\ Step(s, "rejected")
       \/ UNCHANGED accepted /\ Smoothly /\ Step(s, "rejected")
       \/ UNCHANGED accepted /\ Meets(s, "db") /\ Step(s, "failing")
    /\ UNCHANGED <<wallet, balance, now, usage, refunds, adminVars>>

(* markSent() and finalizeSendSuccess(); when one of their statements      *)
(* throws, the catch treats the message as failed.                         *)
Finalize(s) ==
    /\ at[s] = "accepted"
    /\ \/ usage' = [usage EXCEPT ![s] = "SENT"] /\ Smoothly /\ Step(s, "done")
       \/ /\ Meets(s, "db")
          /\ usage' = usage \/ usage' = [usage EXCEPT ![s] = "SENT"]
          /\ Step(s, "failing")
    /\ UNCHANGED <<wallet, balance, now, accepted, refunds, adminVars>>

(* Mutants: the refund is posted without its usage row; it is forgotten. *)
RefundOnly(s) ==
    /\ Post(Spent(wallet, -Units[s]))
    /\ refunds' = [refunds EXCEPT ![s] = @ + 1]
    /\ UNCHANGED usage

RefundNothing(s) ==
    /\ usage' = [usage EXCEPT ![s] = "FAILED"]
    /\ UNCHANGED <<wallet, balance, refunds>>

(* releaseSendFailure(), one transaction. *)
Refund(s) ==
    /\ Post(Spent(wallet, -Units[s]))
    /\ refunds' = [refunds EXCEPT ![s] = @ + 1]
    /\ usage' = [usage EXCEPT ![s] = "FAILED"]

(* Mutant: the catch gives back what is given back already. *)
ReleaseAgain(s) ==
    /\ at[s] \in {"rejected", "failing"}
    /\ Refund(s) /\ Step(s, IF at[s] = "rejected" THEN "failing" ELSE "done")
    /\ UNCHANGED <<now, accepted, mishaps, adminVars>>

(* A rejected message is released; if that throws, the catch releases it   *)
(* again, and if that throws the request ends with an error.               *)
Release(s) ==
    /\ at[s] \in {"rejected", "failing"}
    /\ LET onError == IF at[s] = "rejected" THEN "failing" ELSE "done"
       IN \/ Refund(s) /\ Smoothly /\ Step(s, "done")
          \/ Refund(s) /\ Meets(s, "commit") /\ Step(s, onError)
          \/ Meets(s, "db") /\ Step(s, onError) /\ UNCHANGED <<wallet, balance, usage, refunds>>
    /\ UNCHANGED <<now, accepted, adminVars>>

(* Mutant: whatever is PENDING after a crash is given back. *)
DieRefunding(s) ==
    /\ "crash" \in Faults
    /\ at[s] \notin {"new", "done", "dead"}
    /\ usage[s] = "PENDING" /\ Refund(s)
    /\ Step(s, "dead")
    /\ UNCHANGED <<now, accepted, mishaps, adminVars>>

(* The process dies in the middle of a send; nothing resumes it. *)
Die(s) ==
    /\ "crash" \in Faults
    /\ at[s] \notin {"new", "done", "dead"}
    /\ Step(s, "dead")
    /\ UNCHANGED <<wallet, balance, now, usage, accepted, refunds, mishaps, adminVars>>

---------------------------------------------------------------------------
(* Purchase requests. *)

(* createPurchaseRequest(): a recharge needs a wallet. *)
CreateRequest(q) ==
    /\ request[q] = "none"
    /\ Type[q] = "RECHARGE" => wallet.status # "none"
    /\ request' = [request EXCEPT ![q] = "PENDING"]
    /\ UNCHANGED <<wallet, balance, now, sendVars, granted, desk, job, seen, delta, changes>>

RejectRequest(q) ==
    /\ request[q] = "PENDING"
    /\ request' = [request EXCEPT ![q] = "REJECTED"]
    /\ UNCHANGED <<wallet, balance, now, sendVars, granted, desk, job, seen, delta, changes>>

(* approvePurchaseRequest(), its first read. *)
OpenRequest(a, q) ==
    /\ desk[a] = "idle"
    /\ request[q] = "PENDING"
    /\ desk' = [desk EXCEPT ![a] = "opened"]
    /\ job' = [job EXCEPT ![a] = q]
    /\ UNCHANGED <<wallet, balance, now, sendVars, request, granted, seen, delta, changes>>

(* The session is over. *)
Leave(a) ==
    /\ desk' = [desk EXCEPT ![a] = "idle"]
    /\ job' = [job EXCEPT ![a] = None]
    /\ seen' = [seen EXCEPT ![a] = NoWallet]
    /\ delta' = [delta EXCEPT ![a] = 0]

(* Mutant: the status flip trusts the read before it. *)
Unconditional(q) == TRUE

StillPending(q) == request[q] = "PENDING"

(* markPurchaseRequestReviewed(), a conditional UPDATE of its own. *)
Approve(a) ==
    /\ desk[a] = "opened"
    /\ \/ /\ StillPending(job[a])
          /\ request' = [request EXCEPT ![job[a]] = "APPROVED"]
          /\ desk' = [desk EXCEPT ![a] = "approved"]
          /\ UNCHANGED <<job, seen, delta>>
       \/ ~StillPending(job[a]) /\ Leave(a) /\ UNCHANGED request
    /\ UNCHANGED <<wallet, balance, now, sendVars, granted, changes>>

(* isCurrentlyActive, decided once at the read, and the day from which the *)
(* bought days count.                                                      *)
Judged(w) ==
    IF Active(w) THEN w ELSE [w EXCEPT !.status = "EXPIRED", !.expiry = now]

(* applyPackageToSubscription(), its read of the wallet. *)
ReadWallet(a) ==
    /\ desk[a] = "approved"
    /\ desk' = [desk EXCEPT ![a] = "applying"]
    /\ seen' = [seen EXCEPT ![a] = Judged(wallet)]
    /\ UNCHANGED <<wallet, balance, now, sendVars, request, granted, job, delta, changes>>

(* The wallet after a recharge, a renewal or a fresh purchase. *)
Recharged(q) == Added(wallet, Credit[q])

Renewed(w, q) == [Added(wallet, Credit[q]) EXCEPT !.expiry = w.expiry + Validity[q]]

Purchased(w, q) ==
    [status |-> "ACTIVE", expiry |-> w.expiry + Validity[q],
     total |-> Credit[q], used |-> 0, remaining |-> Credit[q]]

ApplyPackage(a) ==
    LET q == job[a]
        w == seen[a]
    IN /\ desk[a] = "applying"
       /\ \/ Type[q] = "RECHARGE" /\ Post(Recharged(q))
          \/ Type[q] = "PACKAGE" /\ w.status = "ACTIVE" /\ Post(Renewed(w, q))
          \/ Type[q] = "PACKAGE" /\ w.status # "ACTIVE" /\ Post(Purchased(w, q))
       /\ granted' = [granted EXCEPT ![q] = @ + 1]
       /\ Leave(a)
       /\ UNCHANGED <<now, sendVars, request, changes>>

---------------------------------------------------------------------------
(* Changes by hand. *)

(* manualAdjustCredit(), its read and the checks on what it read. *)
ReadForChange(a, d) ==
    /\ desk[a] = "idle"
    /\ changes < MaxChanges
    /\ wallet.remaining + d >= 0
    /\ desk' = [desk EXCEPT ![a] = "adjusting"]
    /\ seen' = [seen EXCEPT ![a] = wallet]
    /\ delta' = [delta EXCEPT ![a] = d]
    /\ changes' = changes + 1
    /\ UNCHANGED <<wallet, balance, now, sendVars, request, granted, job>>

Changed(d) == IF d > 0 THEN Added(wallet, d) ELSE Spent(wallet, -d)

(* Its write: increments, or the first row, which must still be missing. *)
WriteChange(a) ==
    LET d == delta[a]
    IN /\ desk[a] = "adjusting"
       /\ \/ seen[a].status # "none" /\ Post(Changed(d))
          \/ /\ seen[a].status = "none" /\ wallet.status = "none"
             /\ Post([status |-> "ACTIVE", expiry |-> now + GrantDays,
                      total |-> d, used |-> 0, remaining |-> d])
          \/ /\ seen[a].status = "none" /\ wallet.status # "none"
             /\ UNCHANGED <<wallet, balance>>
       /\ Leave(a)
       /\ UNCHANGED <<now, sendVars, request, granted, changes>>

(* The session's request fails between two of its statements. *)
Fail(a) ==
    /\ Faults \cap {"db", "crash"} # {}
    /\ desk[a] # "idle"
    /\ Leave(a)
    /\ UNCHANGED <<wallet, balance, now, sendVars, request, granted, changes>>

---------------------------------------------------------------------------
(* The clock and the hourly job markExpiredSubscriptions(). *)

Tick ==
    /\ now < MaxDay
    /\ now' = now + 1
    /\ UNCHANGED <<wallet, balance, sendVars, adminVars>>

SyncExpired ==
    /\ wallet.status = "ACTIVE" /\ wallet.expiry < now
    /\ wallet' = [wallet EXCEPT !.status = "EXPIRED"]
    /\ UNCHANGED <<balance, now, sendVars, adminVars>>

Send(s) ==
    Check(s) \/ Charge(s) \/ CallProvider(s) \/ Finalize(s) \/ Release(s) \/ Die(s)

Review(a) ==
    \/ \E q \in Requests : OpenRequest(a, q)
    \/ Approve(a)
    \/ ReadWallet(a)
    \/ ApplyPackage(a)
    \/ \E d \in Deltas : ReadForChange(a, d)
    \/ WriteChange(a)
    \/ Fail(a)

Next ==
    \/ \E s \in Sends : Send(s)
    \/ \E q \in Requests : CreateRequest(q) \/ RejectRequest(q)
    \/ \E a \in Admins : Review(a)
    \/ Tick
    \/ SyncExpired

Spec == Init /\ [][Next]_vars

---------------------------------------------------------------------------
(* Every change of the wallet keeps its three columns in step.             *)
Balanced == wallet.total = wallet.used + wallet.remaining

(* billing.repository.ts:62 "the balance and its audit row never diverge": *)
(* the last ledger row says what the wallet holds, whoever raced for it.   *)
LedgerAgrees == balance = wallet.remaining

(* billing.prisma:110 two concurrent sends never both succeed on the last  *)
(* unit of credit: nothing is spent that was not there, unless credit is   *)
(* taken away by hand.                                                     *)
NoOverdraft == (\A d \in Deltas : d > 0) => wallet.remaining >= 0

(* A request is granted at most once, and only if it was approved, whoever *)
(* reviews it at the same time (markPurchaseRequestReviewed).              *)
GrantedOnce ==
    \A q \in Requests : granted[q] <= 1 /\ (granted[q] = 1 => request[q] = "APPROVED")

(* The usage log tells what happened to the credit and to the message.     *)
UsageIsTrue ==
    \A s \in Sends :
        /\ usage[s] = "FAILED" <=> refunds[s] > 0
        /\ usage[s] = "SENT" => accepted[s]

(* A reservation is given back at most once (releaseSendFailure), unless   *)
(* the answer to the commit of the first release is lost.                  *)
RefundedOnce == \A s \in Sends : refunds[s] <= 1 \/ <<"rejected", "commit">> \in mishaps[s]

(* billing.service.ts:231 "Provider rejected the message before acceptance":*)
(* what the provider took is given back only if its answer is lost, or a   *)
(* statement that records the acceptance fails.                            *)
AcceptanceUnknown(s) ==
    <<"charged", "reply">> \in mishaps[s] \/ <<"accepted", "db">> \in mishaps[s]
RefundedWasRejected ==
    \A s \in Sends : refunds[s] > 0 /\ accepted[s] => AcceptanceUnknown(s)

(* billing.service.ts:233 "never silently deduct on failure": when a send  *)
(* ends without a delivery the reserved credit is back, whatever failed,   *)
(* except the release in the catch itself or the answer to the charge.     *)
NotReleased(s) ==
    <<"failing", "db">> \in mishaps[s] \/ <<"checked", "commit">> \in mishaps[s]
NeverSilentlyDeducted ==
    \A s \in Sends :
        at[s] = "done" /\ ~accepted[s] => usage[s] = "none" \/ refunds[s] > 0 \/ NotReleased(s)

(* billing.service.ts:336 "unused validity/credit is never lost": a package *)
(* applied to an active wallet adds to its credit and to its days.         *)
NeverLost ==
    [][\A q \in Requests :
         granted'[q] > granted[q] /\ Active(wallet) =>
            /\ wallet'.remaining = wallet.remaining + Credit[q]
            /\ wallet'.expiry =
                 wallet.expiry + IF Type[q] = "PACKAGE" THEN Validity[q] ELSE 0]_vars

---------------------------------------------------------------------------
(* The inductive invariant behind the safety properties.                   *)

(* What has been written for a send, by the place it has reached. *)
SendsInOrder ==
    \A s \in Sends :
        /\ at[s] \in {"new", "checked"} => usage[s] = "none" /\ refunds[s] = 0 /\ ~accepted[s]
        /\ at[s] \in {"charged", "accepted", "rejected"} => usage[s] = "PENDING" /\ refunds[s] = 0
        /\ at[s] = "charged" => ~accepted[s]
        /\ at[s] = "accepted" => accepted[s]
        /\ at[s] \in {"rejected", "failing"} /\ accepted[s] => AcceptanceUnknown(s)
        /\ at[s] = "failing" /\ refunds[s] > 0 => <<"rejected", "commit">> \in mishaps[s]
        /\ at[s] = "done" /\ usage[s] = "PENDING" => NotReleased(s)

(* An approval that is not applied yet belongs to one session. *)
Granting(a) == desk[a] \in {"approved", "applying"}
ApprovalsAreOwned ==
    \A a \in Admins :
        /\ desk[a] = "opened" \/ Granting(a) => job[a] \in Requests
        /\ Granting(a) => request[job[a]] = "APPROVED" /\ granted[job[a]] = 0
        /\ \A b \in Admins : Granting(a) /\ Granting(b) /\ job[a] = job[b] => a = b

IInv ==
    /\ TypeOK
    /\ Balanced
    /\ LedgerAgrees
    /\ NoOverdraft
    /\ GrantedOnce
    /\ UsageIsTrue
    /\ RefundedOnce
    /\ RefundedWasRejected
    /\ NeverSilentlyDeducted
    /\ SendsInOrder
    /\ ApprovalsAreOwned
=============================================================================
