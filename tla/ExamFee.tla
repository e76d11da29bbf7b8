-------------------------------- MODULE ExamFee --------------------------------
(***************************************************************************)
(* The exam fee of one student: switched on and off, billed, paid, waived, *)
(* and the exam registration a full payment brings (backend fee.service.   *)
(* ts, fee.repository.ts, exam-fee.service.ts, exam-fee.repository.ts,     *)
(* exam-candidate.service.ts).                                             *)
(*                                                                         *)
(* PostgreSQL runs the transactions at read committed and nobody locks the *)
(* invoice: a payment or a waiver reads it, checks, and writes columns     *)
(* computed from what it read.  An update waits for another and then       *)
(* overwrites; of a deleted row it throws.  A delete looks at the row      *)
(* again.  A one-time fee has no month, so the unique key over student,    *)
(* fee and month stops nobody.  Amounts are counted in paisa, the smallest *)
(* difference the comparisons allow.                                       *)
(***************************************************************************)
EXTENDS Integers, Sequences

CONSTANTS
    Billers,       \* approvals, backfills and transfers that run at once
    Cashiers,      \* payments and waivers that run at once
    Amount,        \* of the fee
    Slack,         \* 0.01 in the comparisons
    Discounts,     \* standing discounts the student may have been granted
    MaxInvoices,   \* bound: invoices ever issued
    MaxMoves,      \* bound: payments and waivers
    MaxSwitches,   \* bound: times the fee is switched
    None

ASSUME ExamFeeAssumption ==
    /\ Amount \in Nat /\ Slack \in Nat
    /\ Discounts \subseteq 0..Amount
    /\ MaxInvoices \in Nat /\ MaxMoves \in Nat /\ MaxSwitches \in Nat
    /\ Amount > Slack

VARIABLES
    active,        \* FeeStructure.isActive
    withdrawing,   \* the rows are off, a withdrawal of the invoices is due
    discount,      \* of the student for this fee, set before admission
    invoices,      \* invoices in the order they were issued
    bill,          \* where each biller stands
    work,          \* the transaction of each cashier, or None
    payments,      \* sum of the payment rows of each invoice
    ledger,        \* income entered in the accounts for each invoice
    candidate,     \* the student is registered for the exam
    moves,         \* payments and waivers so far
    switches,      \* times the fee was switched
    past           \* history: see Past

moneyVars == <<payments, ledger>>
switchVars == <<active, withdrawing, switches>>
vars == <<switchVars, discount, invoices, bill, work, moneyVars, candidate, moves, past>>

Ids == 1..MaxInvoices
Statuses == {"UNPAID", "PARTIALLY_PAID", "PAID", "WAIVED"}
Sums == 0..(Amount + Slack)
Kinds == {"pay", "waive", "set"}
Invoice == [there : BOOLEAN, paid : Sums, waived : Sums, status : Statuses]
Work == [at : {"read", "register"}, kind : Kinds, id : Ids, amount : Sums, snap : Invoice]

ASSUME NoneAssumption == None \notin Work

(* Two billers overlapped; invoices of a fee that is off which no          *)
(* withdrawal has reached; invoices one of whose transactions wrote what   *)
(* it computed from columns that had changed; a registration was lost      *)
(* after its payment.                                                      *)
Past == [overlap : BOOLEAN, left : SUBSET Ids, raced : SUBSET Ids, lapse : BOOLEAN]

TypeOK ==
    /\ active \in BOOLEAN /\ withdrawing \in BOOLEAN
    /\ discount \in Discounts
    /\ invoices \in Seq(Invoice) /\ Len(invoices) <= MaxInvoices
    /\ bill \in [Billers -> {"idle", "listed", "creating"}]
    /\ work \in [Cashiers -> Work \cup {None}]
    /\ payments \in [Ids -> Nat]
    /\ ledger \in [Ids -> Nat]
    /\ candidate \in BOOLEAN
    /\ moves \in 0..MaxMoves /\ switches \in 0..MaxSwitches
    /\ past \in Past

Init ==
    /\ active = FALSE /\ withdrawing = FALSE /\ switches = 0
    /\ discount \in Discounts
    /\ invoices = <<>>
    /\ bill = [b \in Billers |-> "idle"]
    /\ work = [c \in Cashiers |-> None]
    /\ payments = [i \in Ids |-> 0]
    /\ ledger = [i \in Ids |-> 0]
    /\ candidate = FALSE
    /\ moves = 0
    /\ past = [overlap |-> FALSE, left |-> {}, raced |-> {}, lapse |-> FALSE]

Here == {i \in 1..Len(invoices) : invoices[i].there}

DeriveStatus(paid, waived) ==
    IF Amount - paid - waived <= Slack THEN IF waived > 0 THEN "WAIVED" ELSE "PAID"
    ELSE IF paid > 0 \/ waived > 0 THEN "PARTIALLY_PAID" ELSE "UNPAID"

---------------------------------------------------------------------------
(* The switch. *)

SetFeeActive ==
    /\ ~active
    /\ switches < MaxSwitches
    /\ active' = TRUE
    /\ switches' = switches + 1
    /\ UNCHANGED <<withdrawing, discount, invoices, bill, work, moneyVars, candidate, moves, past>>

(* deactivateFee(): the rows stop billing, ... *)
DeactivateFee ==
    /\ ~withdrawing
    /\ switches < MaxSwitches
    /\ active' = FALSE
    /\ withdrawing' = TRUE
    /\ switches' = switches + 1
    /\ UNCHANGED <<discount, invoices, bill, work, moneyVars, candidate, moves, past>>

(* The fee category is switched off (updateStructuresActiveByFeeType()) or *)
(* the exam no longer covers the class (syncExam()): nothing is withdrawn. *)
StopBilling ==
    /\ active
    /\ switches < MaxSwitches
    /\ active' = FALSE
    /\ switches' = switches + 1
    /\ past' = [past EXCEPT !.left = @ \cup Here]
    /\ UNCHANGED <<withdrawing, discount, invoices, bill, work, moneyVars, candidate, moves>>

(* A row update of deactivateFee() or the withdrawal, a transaction of its *)
(* own, throws, or the process dies between them.                          *)
WithdrawalLost ==
    /\ withdrawing
    /\ withdrawing' = FALSE
    /\ past' = [past EXCEPT !.left = @ \cup Here]
    /\ UNCHANGED <<active, switches, discount, invoices, bill, work, moneyVars, candidate, moves>>

(* Mutant: every invoice of the fee is withdrawn. *)
AnyInvoice(i) == i \in Here

(* Mutant: no invoice is. *)
NoInvoice(i) == FALSE

(* untouchedInvoicesWhere() *)
Untouched(i) ==
    /\ i \in Here
    /\ invoices[i].status = "UNPAID"
    /\ invoices[i].paid = 0 /\ invoices[i].waived = 0
    /\ payments[i] = 0

(* ... then untouched invoices go; payments go with their invoice. *)
WithdrawUntouchedInvoices ==
    /\ withdrawing
    /\ withdrawing' = FALSE
    /\ invoices' = [i \in 1..Len(invoices) |-> [invoices[i] EXCEPT !.there = @ /\ ~Untouched(i)]]
    /\ payments' = [i \in Ids |-> IF i <= Len(invoices) /\ Untouched(i) THEN 0 ELSE payments[i]]
    /\ past' = [past EXCEPT !.left = {}]
    /\ UNCHANGED <<active, switches, discount, bill, work, ledger, candidate, moves>>

---------------------------------------------------------------------------
(* Billing: autoGenerateInvoicesForStudent(). *)

ListStructures(b) ==
    /\ bill[b] = "idle"
    /\ active
    /\ bill' = [bill EXCEPT ![b] = "listed"]
    /\ UNCHANGED <<switchVars, discount, invoices, work, moneyVars, candidate, moves, past>>

(* Mutant: the unique key is trusted. *)
BilledNever == FALSE
Billed == Here # {}

(* generateInvoicesOnTx(): look for an invoice of the fee ... *)
FindExisting(b) ==
    /\ bill[b] = "listed"
    /\ bill' = [bill EXCEPT ![b] = IF Billed THEN "idle" ELSE "creating"]
    /\ past' = [past EXCEPT !.overlap = @ \/ (~Billed /\ \E o \in Billers : bill[o] = "creating")]
    /\ UNCHANGED <<switchVars, discount, invoices, work, moneyVars, candidate, moves>>

(* applyDiscount(): a standing discount is waived as the invoice is issued. *)
Issued == [there |-> TRUE, paid |-> 0, waived |-> discount, status |-> DeriveStatus(0, discount)]

(* ... and create one. *)
CreateInvoice(b) ==
    /\ bill[b] = "creating"
    /\ Len(invoices) < MaxInvoices
    /\ invoices' = Append(invoices, Issued)
    /\ bill' = [bill EXCEPT ![b] = "idle"]
    /\ past' = [past EXCEPT !.left = IF active THEN @ ELSE @ \cup {Len(invoices) + 1}]
    /\ UNCHANGED <<switchVars, discount, work, moneyVars, candidate, moves>>

---------------------------------------------------------------------------
(* Payments and waivers. *)

(* Mutant: what was waived still counts as due. *)
MayTakeWaived(kind, a, inv) == a <= Slack + (Amount - inv.paid)

(* What a transaction may ask for; "set" names the new total of a waiver.  *)
MayTake(kind, a, inv) ==
    a <= Slack + (Amount - inv.paid - (IF kind = "set" THEN 0 ELSE inv.waived))

(* The transaction of recordPayment() or waiveInvoice() reads and checks.  *)
ReadInvoice(c, kind, i, a) ==
    /\ work[c] = None
    /\ moves < MaxMoves
    /\ i \in Here
    /\ invoices[i].status # "PAID"
    /\ MayTake(kind, a, invoices[i])
    /\ moves' = moves + 1
    /\ work' = [work EXCEPT ![c] = [at |-> "read", kind |-> kind, id |-> i, amount |-> a, snap |-> invoices[i]]]
    /\ UNCHANGED <<switchVars, discount, invoices, bill, moneyVars, candidate, past>>

Raced(w) == IF invoices[w.id] # w.snap THEN past.raced \cup {w.id} ELSE past.raced

(* The invoice was withdrawn meanwhile: everything is rolled back. *)
InvoiceGone(c) ==
    /\ work[c] # None /\ work[c].at = "read"
    /\ work[c].id \notin Here
    /\ work' = [work EXCEPT ![c] = None]
    /\ UNCHANGED <<switchVars, discount, invoices, bill, moneyVars, candidate, moves, past>>

(* Mutant: a first instalment registers. *)
RegistersEarly(status) == status # "UNPAID"
Registers(status) == status = "PAID"

RecordPayment(c) ==
    LET w == work[c]
        paid == w.snap.paid + w.amount
        status == DeriveStatus(paid, w.snap.waived)
    IN /\ w # None /\ w.at = "read" /\ w.kind = "pay"
       /\ w.id \in Here
       /\ invoices' = [invoices EXCEPT ![w.id].paid = paid, ![w.id].status = status]
       /\ payments' = [payments EXCEPT ![w.id] = @ + w.amount]
       /\ ledger' = [ledger EXCEPT ![w.id] = @ + w.amount]
       /\ work' = [work EXCEPT ![c] = IF Registers(status) THEN [w EXCEPT !.at = "register"] ELSE None]
       /\ past' = [past EXCEPT !.raced = Raced(w)]
       /\ UNCHANGED <<switchVars, discount, bill, candidate, moves>>

WaiveInvoice(c) ==
    LET w == work[c]
        waived == IF w.kind = "set" THEN w.amount ELSE w.snap.waived + w.amount
    IN /\ w # None /\ w.at = "read" /\ w.kind # "pay"
       /\ w.id \in Here
       /\ invoices' = [invoices EXCEPT ![w.id].waived = waived,
                                       ![w.id].status = DeriveStatus(w.snap.paid, waived)]
       /\ work' = [work EXCEPT ![c] = None]
       /\ past' = [past EXCEPT !.raced = Raced(w)]
       /\ UNCHANGED <<switchVars, discount, bill, moneyVars, candidate, moves>>

(* autoRegisterOnInvoicePaid(), after the commit: it may fail, or the      *)
(* process may die before it.                                              *)
Register(c) ==
    /\ work[c] # None /\ work[c].at = "register"
    /\ work' = [work EXCEPT ![c] = None]
    /\ \/ candidate' = TRUE /\ UNCHANGED past
       \/ past' = [past EXCEPT !.lapse = TRUE] /\ UNCHANGED candidate
    /\ UNCHANGED <<switchVars, discount, invoices, bill, moneyVars, moves>>

---------------------------------------------------------------------------
Next ==
    \/ SetFeeActive \/ DeactivateFee \/ WithdrawUntouchedInvoices \/ StopBilling \/ WithdrawalLost
    \/ \E b \in Billers : ListStructures(b) \/ FindExisting(b) \/ CreateInvoice(b)
    \/ \E c \in Cashiers :
          \/ \E kind \in Kinds, i \in Here, a \in 1..(Amount + Slack) : ReadInvoice(c, kind, i, a)
          \/ InvoiceGone(c) \/ RecordPayment(c) \/ WaiveInvoice(c) \/ Register(c)

Spec == Init /\ [][Next]_vars

---------------------------------------------------------------------------
(* exam-fee.service.ts:310 "collected money is never undone": what was     *)
(* entered in the accounts is a payment row of its invoice, although the   *)
(* fee is switched off while it is being paid and withdrawn invoices take  *)
(* their payments with them.                                               *)
CollectedMoneyIsKept ==
    /\ payments = ledger
    /\ \A i \in Ids : ledger[i] > 0 => i \in Here

(* fee.service.ts:942 "keeps the invoice's paidAmount/status in sync": the *)
(* invoice agrees with its payments and nobody paid more than is due - as  *)
(* long as no two transactions of the invoice overlapped, in which case    *)
(* the later commit overwrites the earlier one.                            *)
InvoiceTellsTheMoney ==
    \A i \in Here \ past.raced :
        /\ invoices[i].paid = payments[i]
        /\ payments[i] + invoices[i].waived <= Amount + Slack
        /\ invoices[i].status = DeriveStatus(payments[i], invoices[i].waived)

(* fee.service.ts:628 "never double-bills": a student has one invoice of   *)
(* the fee, however often billing runs and the fee is switched, except     *)
(* when two billers both looked before either created.                     *)
BilledOnce ==
    past.overlap \/ \A i, j \in Here : i = j

(* An invoice with a payment or a waiver, a discount included. *)
Touched(i) == payments[i] > 0 \/ invoices[i].waived > 0

(* exam-fee.service.ts:307 a fee that is off: its "not-yet-touched         *)
(* invoices are withdrawn", those "with a payment or [waiver] are kept".   *)
(* So a student may still owe the rest of an invoice that is partly paid,  *)
(* partly waived or discounted, and of an untouched one only if no         *)
(* withdrawal reached it: the fee stopped without one, it was lost, or a   *)
(* biller that had listed the fee in time created the invoice too late.    *)
OnlyUntouchedWithdrawn ==
    /\ \A i \in 1..Len(invoices) : Touched(i) => i \in Here
    /\ ~active /\ ~withdrawing => \A i \in Here \ past.left : Touched(i)

(* exam-candidate.service.ts:249 candidate "only once their invoice reaches *)
(* full PAID status (never on PARTIALLY_PAID, or a waiver)", and then      *)
(* always, unless the registration after the payment is lost.              *)
CandidateIffPaid ==
    /\ candidate => \E i \in Here : i \in past.raced \/ payments[i] + Slack >= Amount
    /\ ~candidate /\ ~past.lapse =>
          \A i \in Here \ past.raced : invoices[i].status = "PAID" =>
              \E c \in Cashiers : work[c] # None /\ work[c].at = "register" /\ work[c].id = i

---------------------------------------------------------------------------
(* The inductive invariant behind the safety properties.                   *)

(* A transaction speaks of an issued invoice and asks for some money, no   *)
(* more than it saw due.                                                   *)
WorkIsAllowed ==
    \A c \in Cashiers : work[c] # None =>
        /\ work[c].id <= Len(invoices)
        /\ work[c].amount > 0
        /\ work[c].at = "read" => MayTake(work[c].kind, work[c].amount, work[c].snap)

(* Without a payment or a waiver an invoice is as it was issued.           *)
UntouchedIsFresh ==
    \A i \in 1..Len(invoices) :
        payments[i] = 0 /\ invoices[i].waived = 0 => invoices[i].status = "UNPAID" /\ invoices[i].paid = 0

(* Until two overlap, at most one biller creates, and only the first       *)
(* invoice of the student.                                                 *)
OneCreates ==
    ~past.overlap =>
        \A a \in Billers : bill[a] = "creating" =>
            Here = {} /\ \A b \in Billers : bill[b] = "creating" => a = b

(* Who registers or is registered has paid an invoice that stays.          *)
PaidUp(i) ==
    /\ i \in Here
    /\ payments[i] > 0
    /\ i \in past.raced \/ payments[i] + Slack >= Amount
RegistersWhenPaid ==
    /\ candidate => \E i \in Ids : PaidUp(i)
    /\ \A c \in Cashiers : work[c] # None /\ work[c].at = "register" => PaidUp(work[c].id)

IInv ==
    /\ TypeOK
    /\ CollectedMoneyIsKept
    /\ InvoiceTellsTheMoney
    /\ BilledOnce
    /\ OnlyUntouchedWithdrawn
    /\ CandidateIffPaid
    /\ WorkIsAllowed
    /\ UntouchedIsFresh
    /\ OneCreates
    /\ RegistersWhenPaid
=============================================================================
