---------------------------- MODULE ExamFeeProofs ----------------------------
(***************************************************************************)
(* Proofs about ExamFee, for every number of billers and cashiers and      *)
(* every amount: the inductive invariant IInv, and from it the properties. *)
(* One lemma per action; under it one step per part of the invariant.      *)
(***************************************************************************)
EXTENDS ExamFee, TLAPS

LEMMA InitIInv == Init => IInv
<1> SUFFICES ASSUME Init PROVE IInv
  OBVIOUS
<1>1. TypeOK
  <2>1. past \in Past
    BY DEF Init, Past
  <2>2. invoices \in Seq(Invoice) /\ Len(invoices) <= MaxInvoices
    BY ExamFeeAssumption DEF Init
  <2>3. moves \in 0..MaxMoves /\ switches \in 0..MaxSwitches
    BY ExamFeeAssumption DEF Init
  <2> QED BY <2>1, <2>2, <2>3 DEF Init, TypeOK
<1>2. Here = {}
  BY DEF Init, Here
<1>3. CollectedMoneyIsKept /\ InvoiceTellsTheMoney /\ BilledOnce /\ OnlyUntouchedWithdrawn
  BY <1>2 DEF Init, CollectedMoneyIsKept, InvoiceTellsTheMoney, BilledOnce, OnlyUntouchedWithdrawn, Touched
<1>4. CandidateIffPaid /\ RegistersWhenPaid /\ WorkIsAllowed
  BY <1>2 DEF Init, CandidateIffPaid, RegistersWhenPaid, WorkIsAllowed
<1>5. UntouchedIsFresh /\ OneCreates
  BY DEF Init, UntouchedIsFresh, OneCreates
<1> QED BY <1>1, <1>3, <1>4, <1>5 DEF IInv

(* The parts of the invariant about the invoices and their money.          *)
Money ==
    /\ CollectedMoneyIsKept
    /\ InvoiceTellsTheMoney
    /\ CandidateIffPaid
    /\ WorkIsAllowed
    /\ UntouchedIsFresh
    /\ RegistersWhenPaid

(* They do not depend on the switch or the billers. *)
LEMMA MoneyStays ==
    ASSUME Money, UNCHANGED <<invoices, work, payments, ledger, candidate>>,
           past'.raced = past.raced, past'.lapse = past.lapse
    PROVE  Money'
<1>1. Here' = Here
  BY DEF Here
<1>2. CollectedMoneyIsKept' /\ InvoiceTellsTheMoney' /\ WorkIsAllowed' /\ UntouchedIsFresh'
  BY <1>1 DEF Money, CollectedMoneyIsKept, InvoiceTellsTheMoney, WorkIsAllowed, UntouchedIsFresh
<1>3. CandidateIffPaid' /\ RegistersWhenPaid'
  BY <1>1 DEF Money, CandidateIffPaid, RegistersWhenPaid, PaidUp
<1> QED BY <1>2, <1>3 DEF Money

(* What was withdrawn depends on the switch and the invoices' money. *)
LEMMA OffStays ==
    ASSUME OnlyUntouchedWithdrawn, UNCHANGED <<active, withdrawing, payments, invoices>>,
           past'.left = past.left
    PROVE  OnlyUntouchedWithdrawn'
BY DEF OnlyUntouchedWithdrawn, Touched, Here

(* The parts that do not depend on the invoices' columns. *)
LEMMA BillingStays ==
    ASSUME IInv, UNCHANGED bill, Here' = Here, past'.overlap = past.overlap
    PROVE  BilledOnce' /\ OneCreates'
BY DEF IInv, BilledOnce, OneCreates

(* The fee is switched on. *)
LEMMA SetFeeActiveStep == IInv /\ SetFeeActive => IInv'
<1> SUFFICES ASSUME IInv, SetFeeActive PROVE IInv'
  OBVIOUS
<1> USE DEF SetFeeActive, moneyVars
<1>1. TypeOK'
  BY ExamFeeAssumption DEF IInv, TypeOK
<1>2. Money'
  BY MoneyStays DEF IInv, Money
<1>3. BilledOnce' /\ OneCreates'
  BY DEF IInv, BilledOnce, OneCreates, Here
<1>4. OnlyUntouchedWithdrawn'
  BY DEF IInv, OnlyUntouchedWithdrawn, Touched, Here
<1> QED BY <1>1, <1>2, <1>3, <1>4 DEF IInv, Money

(* The rows are switched off: a withdrawal is due. *)
LEMMA DeactivateFeeStep == IInv /\ DeactivateFee => IInv'
<1> SUFFICES ASSUME IInv, DeactivateFee PROVE IInv'
  OBVIOUS
<1> USE DEF DeactivateFee, moneyVars
<1>a. switches' \in 0..MaxSwitches
  BY ExamFeeAssumption DEF IInv, TypeOK
<1>1. TypeOK'
  BY <1>a DEF IInv, TypeOK
<1>2. Money'
  BY MoneyStays DEF IInv, Money
<1>3. BilledOnce' /\ OneCreates'
  BY DEF IInv, BilledOnce, OneCreates, Here
<1>4. OnlyUntouchedWithdrawn'
  BY DEF IInv, OnlyUntouchedWithdrawn, Touched, Here
<1> QED BY <1>1, <1>2, <1>3, <1>4 DEF IInv, Money

(* The fee stops without a withdrawal, or its withdrawal is lost: no       *)
(* invoice that is there has been reached.                                 *)
LEMMA NotWithdrawnStep == IInv /\ (StopBilling \/ WithdrawalLost) => IInv'
<1> SUFFICES ASSUME IInv, StopBilling \/ WithdrawalLost PROVE IInv'
  OBVIOUS
<1>a. /\ past' = [past EXCEPT !.left = @ \cup Here]
      /\ UNCHANGED <<discount, invoices, bill, work, payments, ledger, candidate, moves>>
      /\ active' \in BOOLEAN /\ withdrawing' \in BOOLEAN /\ switches' \in 0..MaxSwitches
  <2>1. CASE StopBilling
    <3>1. switches' \in 0..MaxSwitches
      BY <2>1, ExamFeeAssumption DEF StopBilling, IInv, TypeOK
    <3> QED BY <2>1, <3>1 DEF StopBilling, moneyVars, IInv, TypeOK
  <2>2. CASE WithdrawalLost
    BY <2>2 DEF WithdrawalLost, moneyVars, IInv, TypeOK
  <2> QED BY <2>1, <2>2
<1>b. Here \subseteq Ids
  BY ExamFeeAssumption DEF IInv, TypeOK, Here, Ids
<1>c. /\ past' \in Past /\ past'.left = past.left \cup Here
      /\ past'.overlap = past.overlap /\ past'.raced = past.raced /\ past'.lapse = past.lapse
  BY <1>a, <1>b DEF IInv, TypeOK, Past
<1>1. TypeOK'
  BY <1>a, <1>c DEF IInv, TypeOK
<1>2. Money'
  BY <1>a, <1>c, MoneyStays DEF IInv, Money
<1>3. Here' = Here
  BY <1>a DEF Here
<1>4. BilledOnce' /\ OneCreates'
  BY <1>a, <1>c, <1>3, BillingStays
<1>5. OnlyUntouchedWithdrawn'
  BY <1>a, <1>c, <1>3 DEF IInv, OnlyUntouchedWithdrawn, Touched
<1> QED BY <1>1, <1>2, <1>4, <1>5 DEF IInv, Money

(* Untouched invoices are withdrawn: none of them has money or is awaited. *)
LEMMA WithdrawStep == IInv /\ WithdrawUntouchedInvoices => IInv'
<1> SUFFICES ASSUME IInv, WithdrawUntouchedInvoices PROVE IInv'
  OBVIOUS
<1> USE DEF moneyVars
<1>a. /\ Len(invoices') = Len(invoices) /\ invoices' \in Seq(Invoice)
      /\ \A i \in 1..Len(invoices) :
            invoices'[i] = [invoices[i] EXCEPT !.there = @ /\ ~Untouched(i)]
  <2>1. \A i \in 1..Len(invoices) : [invoices[i] EXCEPT !.there = @ /\ ~Untouched(i)] \in Invoice
    <3> SUFFICES ASSUME NEW i \in 1..Len(invoices)
                 PROVE  [invoices[i] EXCEPT !.there = @ /\ ~Untouched(i)] \in Invoice
      OBVIOUS
    <3> DEFINE stays == invoices[i].there /\ ~Untouched(i)
    <3>1. stays \in BOOLEAN
      OBVIOUS
    <3>2. invoices[i] \in Invoice
      BY DEF IInv, TypeOK
    <3> HIDE DEF stays
    <3>3. [invoices[i] EXCEPT !.there = stays] \in Invoice
      BY <3>1, <3>2 DEF Invoice
    <3> QED BY <3>3 DEF stays
  <2> DEFINE left(i) == [invoices[i] EXCEPT !.there = @ /\ ~Untouched(i)]
  <2>2. /\ Len(invoices) \in Nat
        /\ invoices' = [i \in 1..Len(invoices) |-> left(i)]
    BY DEF WithdrawUntouchedInvoices, IInv, TypeOK
  <2>3. \A i \in 1..Len(invoices) : left(i) \in Invoice
    BY <2>1
  <2> HIDE DEF left
  <2>4. /\ Len(invoices') = Len(invoices) /\ invoices' \in Seq(Invoice)
        /\ \A i \in 1..Len(invoices) : invoices'[i] = left(i)
    BY <2>2, <2>3
  <2> QED BY <2>4 DEF left
<1>b. \A i \in 1..Len(invoices) : invoices[i] \in Invoice
  BY DEF IInv, TypeOK
<1>c. \A i \in 1..Len(invoices) :
          /\ invoices'[i].paid = invoices[i].paid /\ invoices'[i].waived = invoices[i].waived
          /\ invoices'[i].status = invoices[i].status
          /\ invoices'[i].there <=> invoices[i].there /\ ~Untouched(i)
  BY <1>a, <1>b DEF Invoice
<1>d. Here' = {i \in Here : ~Untouched(i)}
  BY <1>a, <1>c DEF Here
<1>e. payments' = payments
  BY DEF WithdrawUntouchedInvoices, IInv, TypeOK, Untouched
<1>f. /\ past' \in Past /\ past'.left = {}
      /\ past'.overlap = past.overlap /\ past'.raced = past.raced /\ past'.lapse = past.lapse
  BY DEF WithdrawUntouchedInvoices, IInv, TypeOK, Past
<1>1. TypeOK'
  BY <1>a, <1>e, <1>f DEF IInv, TypeOK, WithdrawUntouchedInvoices
<1>2. CollectedMoneyIsKept'
  BY <1>d, <1>e DEF IInv, CollectedMoneyIsKept, WithdrawUntouchedInvoices, Untouched
<1>3. InvoiceTellsTheMoney'
  <2>1. past'.raced = past.raced
    BY <1>f
  <2> SUFFICES ASSUME NEW i \in Here \ past.raced
               PROVE  /\ invoices'[i].paid = payments'[i]
                      /\ payments'[i] + invoices'[i].waived <= Amount + Slack
                      /\ invoices'[i].status = DeriveStatus(payments'[i], invoices'[i].waived)
    BY <1>d, <2>1 DEF InvoiceTellsTheMoney
  <2>2. /\ invoices'[i].paid = invoices[i].paid /\ invoices'[i].waived = invoices[i].waived
        /\ invoices'[i].status = invoices[i].status
    BY <1>c DEF Here
  <2>3. /\ invoices[i].paid = payments[i]
        /\ payments[i] + invoices[i].waived <= Amount + Slack
        /\ invoices[i].status = DeriveStatus(payments[i], invoices[i].waived)
    BY DEF IInv, InvoiceTellsTheMoney
  <2> QED BY <1>e, <2>2, <2>3
<1>4. BilledOnce' /\ OneCreates'
  BY <1>d, <1>f DEF IInv, BilledOnce, OneCreates, WithdrawUntouchedInvoices
<1>5. OnlyUntouchedWithdrawn'
  <2>1. \A i \in 1..Len(invoices) : Touched(i)' <=> Touched(i)
    BY <1>c, <1>e DEF Touched
  <2>2. ASSUME NEW i \in 1..Len(invoices), Touched(i) PROVE i \in Here'
    BY <2>2, <1>b, <1>d DEF IInv, OnlyUntouchedWithdrawn, Touched, Untouched, TypeOK, Invoice, Sums
  <2>3. ASSUME NEW i \in Here' PROVE Touched(i)
    <3>0. i \in Here /\ ~Untouched(i) /\ i \in 1..Len(invoices)
      BY <1>d, <2>3 DEF Here
    <3>1. i \in Here /\ ~Untouched(i) /\ i \in 1..Len(invoices) /\ i \in Ids
      BY <3>0, ExamFeeAssumption DEF Ids, IInv, TypeOK
    <3>2. payments[i] \in Nat /\ invoices[i].waived \in Nat
      BY <1>b, <3>1, ExamFeeAssumption DEF IInv, TypeOK, Invoice, Sums
    <3> QED BY <3>1, <3>2 DEF IInv, UntouchedIsFresh, Untouched, Touched
  <2>4. \A i \in Here' : i \in 1..Len(invoices)
    BY <1>d DEF Here
  <2> QED BY <2>1, <2>2, <2>3, <2>4, <1>a DEF OnlyUntouchedWithdrawn
<1>6. WorkIsAllowed' /\ UntouchedIsFresh'
  BY <1>a, <1>c, <1>e DEF IInv, WorkIsAllowed, UntouchedIsFresh, WithdrawUntouchedInvoices
<1>7. \A i : PaidUp(i) => PaidUp(i)'
  BY <1>d, <1>e, <1>f DEF PaidUp, Untouched
<1>8. RegistersWhenPaid'
  BY <1>7, <1>f DEF IInv, RegistersWhenPaid, WithdrawUntouchedInvoices
<1>9. CandidateIffPaid'
  <2>1. candidate => \E i \in Here' : i \in past'.raced \/ payments'[i] + Slack >= Amount
    BY <1>8 DEF RegistersWhenPaid, PaidUp, WithdrawUntouchedInvoices
  <2>2. ASSUME ~candidate, ~past.lapse, NEW i \in Here' \ past.raced, invoices'[i].status = "PAID"
        PROVE  \E c \in Cashiers : work[c] # None /\ work[c].at = "register" /\ work[c].id = i
    <3>1. i \in Here
      BY <1>d, <2>2
    <3>2. invoices[i].status = "PAID"
      BY <1>c, <2>2, <3>1 DEF Here
    <3> QED BY <2>2, <3>1, <3>2 DEF IInv, CandidateIffPaid
  <2>3. candidate' = candidate /\ work' = work
    BY DEF WithdrawUntouchedInvoices
  <2> QED BY <2>1, <2>2, <2>3, <1>f DEF CandidateIffPaid
<1> QED BY <1>1, <1>2, <1>3, <1>4, <1>5, <1>6, <1>8, <1>9 DEF IInv

(* A biller lists the fee. *)
LEMMA ListStructuresStep ==
    ASSUME IInv, NEW b \in Billers, ListStructures(b)
    PROVE  IInv'
<1> USE DEF ListStructures, moneyVars, switchVars
<1>1. TypeOK'
  BY DEF IInv, TypeOK
<1>2. Money'
  BY MoneyStays DEF IInv, Money
<1>3. BilledOnce' /\ OneCreates'
  BY DEF IInv, TypeOK, BilledOnce, OneCreates, Here
<1>4. OnlyUntouchedWithdrawn'
  BY OffStays DEF IInv
<1> QED BY <1>1, <1>2, <1>3, <1>4 DEF IInv, Money

(* A biller that finds no invoice creates one, alone or overlapping. *)
LEMMA FindExistingStep ==
    ASSUME IInv, NEW b \in Billers, FindExisting(b)
    PROVE  IInv'
<1> DEFINE over == past.overlap \/ (~Billed /\ \E o \in Billers : bill[o] = "creating")
<1>0. past' = [past EXCEPT !.overlap = over]
  BY DEF FindExisting
<1>a. over \in BOOLEAN
  BY DEF IInv, TypeOK, Past
<1> HIDE DEF over
<1>b. /\ past' \in Past /\ past'.overlap = over /\ past'.left = past.left
      /\ past'.raced = past.raced /\ past'.lapse = past.lapse
  BY <1>0, <1>a DEF IInv, TypeOK, Past
<1> USE DEF moneyVars, switchVars
<1>1. TypeOK'
  BY <1>b DEF IInv, TypeOK, FindExisting
<1>2. Money'
  BY <1>b, MoneyStays DEF IInv, Money, FindExisting
<1>3. BilledOnce' /\ OneCreates'
  BY <1>b DEF IInv, TypeOK, BilledOnce, OneCreates, Here, FindExisting, over, Billed
<1>4. OnlyUntouchedWithdrawn'
  BY <1>b, OffStays DEF IInv, FindExisting
<1> QED BY <1>1, <1>2, <1>3, <1>4 DEF IInv, Money

(* Nobody has paid an invoice as it is issued, whatever is waived by a     *)
(* standing discount.                                                      *)
LEMMA CreateInvoiceStep ==
    ASSUME IInv, NEW b \in Billers, CreateInvoice(b)
    PROVE  IInv'
<1> USE DEF moneyVars, switchVars
<1> DEFINE n == Len(invoices) + 1
           left == IF active THEN past.left ELSE past.left \cup {n}
<1>0. discount \in Nat /\ discount <= Amount
  BY ExamFeeAssumption DEF IInv, TypeOK
<1>1a. /\ DeriveStatus(0, discount) \in Statuses /\ DeriveStatus(0, discount) # "PAID"
       /\ discount = 0 => DeriveStatus(0, discount) = "UNPAID"
  BY <1>0, ExamFeeAssumption DEF DeriveStatus, Statuses
<1>a. /\ Issued \in Invoice /\ Issued.there /\ Issued.paid = 0 /\ Issued.waived = discount
      /\ Issued.status = DeriveStatus(0, discount)
  BY <1>0, <1>1a, ExamFeeAssumption DEF Issued, Invoice, Sums
<1>b. /\ n \in Nat \ {0} /\ n <= MaxInvoices
      /\ Len(invoices') = n /\ invoices' \in Seq(Invoice)
      /\ invoices'[n] = Issued
      /\ \A i \in 1..Len(invoices) : invoices'[i] = invoices[i]
  BY <1>a, ExamFeeAssumption DEF IInv, TypeOK, CreateInvoice
<1>c. 1..n = (1..Len(invoices)) \cup {n}
  BY DEF IInv, TypeOK
<1>d. Here' = Here \cup {n} /\ n \notin Here
  BY <1>a, <1>b, <1>c DEF Here
<1>e. n \in Ids /\ payments[n] = 0
  BY <1>b, <1>d, ExamFeeAssumption DEF IInv, TypeOK, CollectedMoneyIsKept, Ids
<1> HIDE DEF n
<1>f. /\ UNCHANGED <<active, withdrawing, switches, discount, work, payments, ledger, candidate, moves>>
      /\ past' \in Past /\ past'.left = left
      /\ past'.overlap = past.overlap /\ past'.raced = past.raced /\ past'.lapse = past.lapse
  <2>1. left \in SUBSET Ids
    BY <1>e DEF IInv, TypeOK, Past
  <2>2. past' = [past EXCEPT !.left = left]
    BY DEF CreateInvoice, n
  <2> HIDE DEF left
  <2> QED BY <2>1, <2>2 DEF CreateInvoice, IInv, TypeOK, Past
<1>1. TypeOK'
  BY <1>b, <1>f DEF IInv, TypeOK, CreateInvoice
<1>2. CollectedMoneyIsKept'
  BY <1>d, <1>f DEF IInv, CollectedMoneyIsKept
<1>g. WorkIsAllowed'
  <2>1. \A c \in Cashiers : work[c] # None => work[c] \in Work
    BY DEF IInv, TypeOK
  <2>2. \A c \in Cashiers : work[c] # None => work[c].id \in Nat
    BY <2>1, ExamFeeAssumption DEF Work, Ids
  <2>3. Len(invoices) \in Nat
    BY DEF IInv, TypeOK
  <2> QED BY <1>b, <1>f, <2>2, <2>3 DEF IInv, WorkIsAllowed, MayTake, n
<1>4. InvoiceTellsTheMoney'
  <2>1. ASSUME NEW i \in Here \ past.raced
        PROVE  /\ invoices'[i].paid = payments'[i]
               /\ payments'[i] + invoices'[i].waived <= Amount + Slack
               /\ invoices'[i].status = DeriveStatus(payments'[i], invoices'[i].waived)
    BY <1>b, <1>f DEF IInv, InvoiceTellsTheMoney, Here
  <2>2. /\ invoices'[n].paid = payments'[n]
        /\ payments'[n] + invoices'[n].waived <= Amount + Slack
        /\ invoices'[n].status = DeriveStatus(payments'[n], invoices'[n].waived)
    BY <1>0, <1>a, <1>b, <1>e, <1>f, ExamFeeAssumption
  <2> QED BY <1>d, <1>f, <2>1, <2>2 DEF InvoiceTellsTheMoney, DeriveStatus
<1>5. BilledOnce' /\ OneCreates'
  BY <1>d, <1>f DEF IInv, TypeOK, BilledOnce, OneCreates, CreateInvoice
<1>6. OnlyUntouchedWithdrawn'
  <2>1. \A i \in 1..Len(invoices) : Touched(i)' <=> Touched(i)
    BY <1>b, <1>f DEF Touched
  <2>2. \A i \in Here : i \in 1..Len(invoices)
    BY DEF Here
  <2>3. ~active' => n \in past'.left
    BY <1>f
  <2>4. past.left \subseteq past'.left
    BY <1>f
  <2> HIDE DEF left
  <2> QED BY <1>b, <1>c, <1>d, <1>f, <2>1, <2>2, <2>3, <2>4 DEF IInv, OnlyUntouchedWithdrawn
<1>7. UntouchedIsFresh'
  BY <1>a, <1>1a, <1>b, <1>c, <1>f DEF IInv, UntouchedIsFresh
<1>8. RegistersWhenPaid'
  BY <1>d, <1>f DEF IInv, RegistersWhenPaid, PaidUp
<1>9. CandidateIffPaid'
  BY <1>a, <1>1a, <1>b, <1>d, <1>f DEF IInv, CandidateIffPaid, Here
<1> QED BY <1>1, <1>2, <1>4, <1>5, <1>6, <1>7, <1>8, <1>9, <1>g DEF IInv

(* A transaction reads an invoice. *)
LEMMA ReadInvoiceStep ==
    ASSUME IInv, NEW c \in Cashiers, NEW kind \in Kinds, NEW i \in Here, NEW a \in 1..(Amount + Slack),
           ReadInvoice(c, kind, i, a)
    PROVE  IInv'
<1> USE DEF moneyVars, switchVars
<1> DEFINE w == [at |-> "read", kind |-> kind, id |-> i, amount |-> a, snap |-> invoices[i]]
<1>a. i \in 1..Len(invoices) /\ i \in Ids /\ invoices[i] \in Invoice
  BY ExamFeeAssumption DEF IInv, TypeOK, Here, Ids
<1>b. w \in Work
  BY <1>a, ExamFeeAssumption DEF Work, Sums
<1>c. /\ w # None /\ w.at = "read" /\ w.id <= Len(invoices) /\ w.amount > 0
      /\ MayTake(w.kind, w.amount, w.snap)
  BY <1>a, <1>b, NoneAssumption DEF ReadInvoice, IInv, TypeOK
<1>d. work' = [work EXCEPT ![c] = w]
  BY DEF ReadInvoice
<1> HIDE DEF w
<1>e. /\ UNCHANGED <<active, withdrawing, switches, discount, invoices, bill, payments, ledger, candidate, past>>
      /\ work[c] = None /\ moves' = moves + 1 /\ moves < MaxMoves
  BY DEF ReadInvoice
<1>f. Here' = Here
  BY <1>e DEF Here
<1>1. TypeOK'
  BY <1>b, <1>d, <1>e, ExamFeeAssumption DEF IInv, TypeOK
<1>2. CollectedMoneyIsKept' /\ InvoiceTellsTheMoney' /\ UntouchedIsFresh' /\ OnlyUntouchedWithdrawn'
  BY <1>e, <1>f, OffStays DEF IInv, CollectedMoneyIsKept, InvoiceTellsTheMoney, UntouchedIsFresh
<1>3. WorkIsAllowed'
  BY <1>c, <1>d, <1>e DEF IInv, TypeOK, WorkIsAllowed, MayTake
<1>4. RegistersWhenPaid'
  BY <1>c, <1>d, <1>e, <1>f DEF IInv, TypeOK, RegistersWhenPaid, PaidUp
<1>5. CandidateIffPaid'
  BY <1>d, <1>e, <1>f DEF IInv, TypeOK, CandidateIffPaid
<1> QED BY <1>1, <1>2, <1>3, <1>4, <1>5, <1>e, <1>f, BillingStays DEF IInv

(* A transaction whose invoice is gone is rolled back. *)
LEMMA InvoiceGoneStep ==
    ASSUME IInv, NEW c \in Cashiers, InvoiceGone(c)
    PROVE  IInv'
<1> USE DEF InvoiceGone, moneyVars, switchVars
<1>a. Here' = Here
  BY DEF Here
<1>1. TypeOK'
  BY DEF IInv, TypeOK
<1>2. CollectedMoneyIsKept' /\ InvoiceTellsTheMoney' /\ UntouchedIsFresh' /\ OnlyUntouchedWithdrawn'
  BY <1>a, OffStays DEF IInv, CollectedMoneyIsKept, InvoiceTellsTheMoney, UntouchedIsFresh
<1>3. WorkIsAllowed'
  BY DEF IInv, TypeOK, WorkIsAllowed
<1>4. RegistersWhenPaid'
  BY <1>a DEF IInv, TypeOK, RegistersWhenPaid, PaidUp
<1>5. CandidateIffPaid'
  BY <1>a DEF IInv, TypeOK, CandidateIffPaid
<1> QED BY <1>1, <1>2, <1>3, <1>4, <1>5, <1>a, BillingStays DEF IInv

(* A registration that is lost excuses what follows from it. *)
LEMMA RegisterStep ==
    ASSUME IInv, NEW c \in Cashiers, Register(c)
    PROVE  IInv'
<1> USE DEF Register, moneyVars, switchVars
<1>a. Here' = Here
  BY DEF Here
<1>b. /\ past' \in Past /\ past'.overlap = past.overlap /\ past'.left = past.left
      /\ past'.raced = past.raced
      /\ \/ past'.lapse = TRUE /\ candidate' = candidate
         \/ past' = past /\ candidate' = TRUE
  <2>1. past \in Past
    BY DEF IInv, TypeOK
  <2>2. CASE candidate' = TRUE /\ past' = past
    BY <2>1, <2>2
  <2>3. CASE past' = [past EXCEPT !.lapse = TRUE] /\ candidate' = candidate
    BY <2>1, <2>3 DEF Past
  <2> QED BY <2>2, <2>3
<1>1. TypeOK'
  BY <1>b DEF IInv, TypeOK
<1>2. CollectedMoneyIsKept' /\ InvoiceTellsTheMoney' /\ UntouchedIsFresh' /\ OnlyUntouchedWithdrawn'
  BY <1>a, <1>b, OffStays DEF IInv, CollectedMoneyIsKept, InvoiceTellsTheMoney, UntouchedIsFresh
<1>3. WorkIsAllowed'
  BY DEF IInv, TypeOK, WorkIsAllowed
<1>4. RegistersWhenPaid'
  <2>1. \A i : PaidUp(i)' <=> PaidUp(i)
    BY <1>a, <1>b DEF PaidUp
  <2>2. PaidUp(work[c].id) /\ work[c].id \in Ids
    BY DEF IInv, TypeOK, RegistersWhenPaid, Work
  <2>3. candidate' => \E i \in Ids : PaidUp(i)'
    BY <2>1, <2>2 DEF IInv, RegistersWhenPaid
  <2>4. \A k \in Cashiers : work'[k] # None /\ work'[k].at = "register" => PaidUp(work[k].id) /\ work'[k] = work[k]
    BY DEF IInv, TypeOK, RegistersWhenPaid
  <2> QED BY <2>1, <2>3, <2>4, <1>a, <1>b DEF RegistersWhenPaid, PaidUp
<1>5. CandidateIffPaid'
  <2>1. candidate' => \E i \in Here' : i \in past'.raced \/ payments'[i] + Slack >= Amount
    BY <1>4 DEF RegistersWhenPaid, PaidUp
  <2> QED BY <2>1, <1>b DEF CandidateIffPaid
<1> QED BY <1>1, <1>2, <1>3, <1>4, <1>5, <1>a, <1>b, BillingStays DEF IInv

(* What a transaction about to write knows. *)
LEMMA ReadWork ==
    ASSUME IInv, NEW c \in Cashiers, work[c] # None, work[c].at = "read", work[c].id \in Here
    PROVE  /\ work[c] \in Work /\ work[c].id \in 1..Len(invoices) /\ work[c].id \in Ids
           /\ work[c].snap \in Invoice /\ invoices[work[c].id] \in Invoice
           /\ work[c].amount \in Nat /\ work[c].amount > 0
           /\ MayTake(work[c].kind, work[c].amount, work[c].snap)
           /\ past \in Past /\ Raced(work[c]) \in SUBSET Ids
           /\ past.raced \subseteq Raced(work[c])
           /\ Raced(work[c]) \subseteq past.raced \cup {work[c].id}
           /\ work[c].id \notin Raced(work[c]) => invoices[work[c].id] = work[c].snap
<1>1. work[c] \in Work /\ past \in Past
  BY DEF IInv, TypeOK
<1>2. work[c].id \in Ids /\ work[c].snap \in Invoice /\ work[c].amount \in Nat
  BY <1>1, ExamFeeAssumption DEF Work, Sums
<1>3. work[c].id \in 1..Len(invoices) /\ invoices[work[c].id] \in Invoice
  BY DEF IInv, TypeOK, Here
<1>4. work[c].amount > 0 /\ MayTake(work[c].kind, work[c].amount, work[c].snap)
  BY DEF IInv, WorkIsAllowed
<1>5. past.raced \in SUBSET Ids
  BY <1>1 DEF Past
<1>6. /\ Raced(work[c]) \in SUBSET Ids
      /\ past.raced \subseteq Raced(work[c])
      /\ Raced(work[c]) \subseteq past.raced \cup {work[c].id}
      /\ work[c].id \notin Raced(work[c]) => invoices[work[c].id] = work[c].snap
  BY <1>2, <1>5 DEF Raced
<1> QED BY <1>1, <1>2, <1>3, <1>4, <1>6

(* A payment is recorded and entered in the accounts; the last one makes   *)
(* the transaction go on to the registration.                              *)
LEMMA RecordPaymentStep ==
    ASSUME IInv, NEW c \in Cashiers, RecordPayment(c)
    PROVE  IInv'
<1> DEFINE w == work[c]
           i == w.id
           paid == w.snap.paid + w.amount
           status == DeriveStatus(paid, w.snap.waived)
<1>a. /\ w # None /\ w.at = "read" /\ w.kind = "pay" /\ i \in Here
      /\ invoices' = [invoices EXCEPT ![i].paid = paid, ![i].status = status]
      /\ payments' = [payments EXCEPT ![i] = @ + w.amount]
      /\ ledger' = [ledger EXCEPT ![i] = @ + w.amount]
      /\ work' = [work EXCEPT ![c] = IF Registers(status) THEN [w EXCEPT !.at = "register"] ELSE None]
      /\ past' = [past EXCEPT !.raced = Raced(w)]
      /\ UNCHANGED <<active, withdrawing, switches, discount, bill, candidate, moves>>
  BY DEF RecordPayment, switchVars
<1>b. /\ w \in Work /\ i \in 1..Len(invoices) /\ i \in Ids
      /\ w.snap \in Invoice /\ invoices[i] \in Invoice
      /\ w.amount \in Nat /\ w.amount > 0 /\ MayTake(w.kind, w.amount, w.snap)
      /\ past \in Past /\ Raced(w) \in SUBSET Ids /\ past.raced \subseteq Raced(w)
      /\ Raced(w) \subseteq past.raced \cup {i}
      /\ i \notin Raced(w) => invoices[i] = w.snap
  BY <1>a, ReadWork
<1>c. /\ past' \in Past /\ past'.raced = Raced(w)
      /\ past'.overlap = past.overlap /\ past'.left = past.left /\ past'.lapse = past.lapse
  BY <1>a, <1>b DEF Past
<1>d. /\ paid \in Sums /\ paid > 0 /\ w.snap.waived \in Nat /\ w.snap.paid \in Nat
      /\ paid + w.snap.waived <= Amount + Slack
  <2>1. w.snap.paid \in Sums /\ w.snap.waived \in Sums
    BY <1>b DEF Invoice
  <2>2. w.snap.paid \in Nat /\ w.snap.waived \in Nat
    BY <2>1, ExamFeeAssumption DEF Sums
  <2>3. w.amount <= Slack + (Amount - w.snap.paid - w.snap.waived)
    BY <1>a, <1>b DEF MayTake
  <2>4. w.amount \in Nat /\ w.amount > 0
    BY <1>b
  <2>5. \A p, v, m, t, s \in Nat : m <= s + (t - p - v) => p + m <= t + s /\ p + m + v <= t + s
    OBVIOUS
  <2>6. paid <= Amount + Slack /\ paid + w.snap.waived <= Amount + Slack
    BY <2>2, <2>3, <2>4, <2>5, ExamFeeAssumption
  <2>7. paid \in Nat /\ paid > 0
    BY <2>2, <2>4
  <2> HIDE DEF paid
  <2> QED BY <2>2, <2>6, <2>7, ExamFeeAssumption DEF Sums
<1>e. status \in Statuses /\ status # "UNPAID"
  BY <1>d DEF DeriveStatus, Statuses
<1>f. Registers(status) => w.snap.waived = 0 /\ paid + Slack >= Amount
  BY <1>d, ExamFeeAssumption DEF Registers, DeriveStatus, Sums
<1>g. \/ Registers(status) /\ work'[c] = [w EXCEPT !.at = "register"]
      \/ ~Registers(status) /\ work'[c] = None
  BY <1>a DEF IInv, TypeOK
<1>h. Registers(status) <=> status = "PAID"
  BY DEF Registers
<1>i. [w EXCEPT !.at = "register"] \in Work /\ [w EXCEPT !.at = "register"] # None
  BY <1>b, NoneAssumption DEF Work
<1>j. i \notin Raced(w) => status = DeriveStatus(paid, invoices[i].waived) /\ invoices[i] = w.snap
  BY <1>b
<1> HIDE DEF status, paid
<1> DEFINE new == [invoices[i] EXCEPT !.paid = paid, !.status = status]
<1>k. /\ new \in Invoice /\ new.there = invoices[i].there /\ new.paid = paid
      /\ new.waived = invoices[i].waived /\ new.status = status
  BY <1>b, <1>d, <1>e DEF Invoice
<1>r. invoices' = [invoices EXCEPT ![i] = new]
  BY <1>a, <1>b DEF IInv, TypeOK
<1> HIDE DEF new
<1>l. /\ invoices' \in Seq(Invoice) /\ Len(invoices') = Len(invoices)
      /\ invoices'[i].there = invoices[i].there /\ invoices'[i].paid = paid
      /\ invoices'[i].waived = invoices[i].waived /\ invoices'[i].status = status
      /\ \A j \in 1..Len(invoices) : j # i => invoices'[j] = invoices[j]
  BY <1>b, <1>k, <1>r DEF IInv, TypeOK
<1>m. Here' = Here
  BY <1>l DEF Here
<1>n. /\ payments' \in [Ids -> Nat] /\ ledger' \in [Ids -> Nat]
      /\ payments'[i] = payments[i] + w.amount /\ ledger'[i] = ledger[i] + w.amount
      /\ \A j \in Ids : j # i => payments'[j] = payments[j] /\ ledger'[j] = ledger[j]
      /\ payments \in [Ids -> Nat]
  BY <1>a, <1>b DEF IInv, TypeOK
<1>o. \A k \in Cashiers : k # c => work'[k] = work[k]
  BY <1>a DEF IInv, TypeOK
<1>1. TypeOK'
  <2>1. work' \in [Cashiers -> Work \cup {None}]
    BY <1>a, <1>i DEF IInv, TypeOK
  <2> QED BY <2>1, <1>a, <1>c, <1>l, <1>n DEF IInv, TypeOK
<1>2. CollectedMoneyIsKept'
  BY <1>a, <1>m, <1>n DEF IInv, CollectedMoneyIsKept
<1>3. InvoiceTellsTheMoney'
  <2> SUFFICES ASSUME NEW j \in Here, j \notin Raced(w)
               PROVE  /\ invoices'[j].paid = payments'[j]
                      /\ payments'[j] + invoices'[j].waived <= Amount + Slack
                      /\ invoices'[j].status = DeriveStatus(payments'[j], invoices'[j].waived)
    BY <1>c, <1>m DEF InvoiceTellsTheMoney, DeriveStatus
  <2>1. j \notin past.raced /\ j \in Ids /\ j \in 1..Len(invoices)
    <3>1. j \notin past.raced /\ j \in 1..Len(invoices)
      BY <1>b DEF Here
    <3> QED BY <3>1, ExamFeeAssumption DEF IInv, TypeOK, Ids
  <2>2. /\ invoices[j].paid = payments[j]
        /\ payments[j] + invoices[j].waived <= Amount + Slack
        /\ invoices[j].status = DeriveStatus(payments[j], invoices[j].waived)
    BY <2>1 DEF IInv, InvoiceTellsTheMoney
  <2>3. CASE j # i
    BY <2>1, <2>2, <2>3, <1>l, <1>n
  <2>4. CASE j = i
    <3>1. payments'[i] = paid /\ invoices'[i].waived = w.snap.waived
      BY <2>2, <2>4, <1>j, <1>l, <1>n DEF paid
    <3> QED BY <3>1, <2>4, <1>d, <1>j, <1>l
  <2> QED BY <2>3, <2>4
<1>4. OnlyUntouchedWithdrawn'
  <2>1. \A j \in 1..Len(invoices) : j \in Ids
    BY ExamFeeAssumption DEF IInv, TypeOK, Ids
  <2>2. ASSUME NEW j \in 1..Len(invoices), Touched(j)
        PROVE  payments'[j] > 0 \/ invoices'[j].waived > 0
    <3>1. CASE j = i
      BY <3>1, <1>b, <1>n
    <3>2. CASE j # i
      BY <2>1, <2>2, <3>2, <1>l, <1>n DEF Touched
    <3> QED BY <3>1, <3>2
  <2>3. ASSUME NEW j \in 1..Len(invoices), payments'[j] > 0 \/ invoices'[j].waived > 0
        PROVE  j \in Here
    <3>1. CASE j = i
      BY <3>1, <1>a
    <3>2. CASE j # i
      BY <2>1, <2>3, <3>2, <1>l, <1>n DEF Touched, IInv, OnlyUntouchedWithdrawn
    <3> QED BY <3>1, <3>2
  <2>4. \A j \in Here : j \in 1..Len(invoices)
    BY DEF Here
  <2> QED BY <2>2, <2>3, <2>4, <1>a, <1>c, <1>l, <1>m DEF IInv, OnlyUntouchedWithdrawn, Touched
<1>5. WorkIsAllowed'
  <2> SUFFICES ASSUME NEW k \in Cashiers, work'[k] # None
               PROVE  /\ work'[k].id <= Len(invoices) /\ work'[k].amount > 0
                      /\ work'[k].at = "read" => MayTake(work'[k].kind, work'[k].amount, work'[k].snap)
    BY <1>l DEF WorkIsAllowed, MayTake
  <2>1. CASE k # c
    BY <2>1, <1>o DEF IInv, WorkIsAllowed
  <2>2. CASE k = c
    BY <2>2, <1>b, <1>g DEF Work, IInv, WorkIsAllowed
  <2> QED BY <2>1, <2>2
<1>6. UntouchedIsFresh'
  <2>1. \A j \in 1..Len(invoices) : j \in Ids
    BY ExamFeeAssumption DEF IInv, TypeOK, Ids
  <2>2. payments'[i] > 0
    BY <1>b, <1>n
  <2>3. \A j \in 1..Len(invoices) : j # i => payments'[j] = payments[j] /\ invoices'[j] = invoices[j]
    BY <2>1, <1>l, <1>n
  <2>4. payments'[i] # 0
    BY <2>2
  <2> QED BY <2>3, <2>4, <1>l DEF IInv, UntouchedIsFresh
<1> DEFINE PaidThen(j) == /\ j \in Here /\ payments'[j] > 0
                          /\ j \in Raced(w) \/ payments'[j] + Slack >= Amount
<1>p. \A j \in Ids : PaidUp(j) => PaidThen(j)
  <2> SUFFICES ASSUME NEW j \in Ids, PaidUp(j) PROVE PaidThen(j)
    OBVIOUS
  <2>1. payments'[j] >= payments[j] /\ payments[j] \in Nat /\ payments'[j] \in Nat
    <3>1. w.amount \in Nat
      BY <1>b
    <3>2. payments[j] \in Nat /\ payments'[j] \in Nat
      BY <1>n
    <3>3. payments'[j] = payments[j] \/ payments'[j] = payments[j] + w.amount
      BY <1>n
    <3> QED BY <3>1, <3>2, <3>3
  <2> QED BY <2>1, <1>b, ExamFeeAssumption DEF PaidUp
<1>q. Registers(status) => PaidThen(i)
  <2> SUFFICES ASSUME Registers(status) PROVE PaidThen(i)
    OBVIOUS
  <2>1. payments'[i] > 0
    BY <1>b, <1>n
  <2>2. i \notin Raced(w) => payments'[i] = paid
    BY <1>a, <1>b, <1>j, <1>n DEF IInv, InvoiceTellsTheMoney, paid
  <2> QED BY <2>1, <2>2, <1>a, <1>f
<1> HIDE DEF PaidThen
<1>s. ASSUME NEW k \in Cashiers, work'[k] # None, work'[k].at = "register"
      PROVE  PaidThen(work'[k].id)
  <2>1. CASE k = c
    BY <2>1, <1>b, <1>g, <1>q, <1>s DEF Work
  <2>2. CASE k # c
    <3>1. work'[k] = work[k]
      BY <2>2, <1>o
    <3>2. PaidUp(work[k].id) /\ work[k].id \in Ids
      BY <3>1, <1>s DEF IInv, TypeOK, RegistersWhenPaid, Work
    <3> QED BY <3>1, <3>2, <1>p
  <2> QED BY <2>1, <2>2
<1>7. RegistersWhenPaid'
  <2>1. candidate' => \E j \in Ids : PaidThen(j)
    BY <1>a, <1>p DEF IInv, RegistersWhenPaid
  <2> QED BY <2>1, <1>c, <1>m, <1>s DEF RegistersWhenPaid, PaidUp, PaidThen
<1>8. CandidateIffPaid'
  <2>1. candidate' => \E j \in Here' : j \in past'.raced \/ payments'[j] + Slack >= Amount
    BY <1>7 DEF RegistersWhenPaid, PaidUp
  <2>2. ASSUME ~candidate', ~past'.lapse, NEW j \in Here \ Raced(w), invoices'[j].status = "PAID"
        PROVE  \E k \in Cashiers : work'[k] # None /\ work'[k].at = "register" /\ work'[k].id = j
    <3>1. CASE j = i
      BY <2>2, <3>1, <1>b, <1>g, <1>h, <1>i, <1>l DEF Work
    <3>2. CASE j # i
      <4>1. invoices[j].status = "PAID" /\ j \in Here \ past.raced
        BY <2>2, <3>2, <1>b, <1>l DEF Here
      <4>2. PICK k \in Cashiers : work[k] # None /\ work[k].at = "register" /\ work[k].id = j
        BY <2>2, <4>1, <1>a, <1>c DEF IInv, CandidateIffPaid
      <4>3. work'[k] = work[k]
        BY <4>2, <1>a, <1>o
      <4> QED BY <4>2, <4>3
    <3> QED BY <3>1, <3>2
  <2> QED BY <2>1, <2>2, <1>c, <1>m DEF CandidateIffPaid
<1> QED BY <1>1, <1>2, <1>3, <1>4, <1>5, <1>6, <1>7, <1>8, <1>a, <1>c, <1>m, BillingStays DEF IInv

(* A waiver leaves the money alone and never makes an invoice PAID. *)
LEMMA WaiveInvoiceStep ==
    ASSUME IInv, NEW c \in Cashiers, WaiveInvoice(c)
    PROVE  IInv'
<1> DEFINE w == work[c]
           i == w.id
           waived == IF w.kind = "set" THEN w.amount ELSE w.snap.waived + w.amount
           status == DeriveStatus(w.snap.paid, waived)
<1>a. /\ w # None /\ w.at = "read" /\ w.kind # "pay" /\ i \in Here
      /\ invoices' = [invoices EXCEPT ![i].waived = waived, ![i].status = status]
      /\ work' = [work EXCEPT ![c] = None]
      /\ past' = [past EXCEPT !.raced = Raced(w)]
      /\ UNCHANGED <<active, withdrawing, switches, discount, bill, payments, ledger, candidate, moves>>
  BY DEF WaiveInvoice, switchVars, moneyVars
<1>b. /\ w \in Work /\ i \in 1..Len(invoices) /\ i \in Ids
      /\ w.snap \in Invoice /\ invoices[i] \in Invoice
      /\ w.amount \in Nat /\ w.amount > 0 /\ MayTake(w.kind, w.amount, w.snap)
      /\ past \in Past /\ Raced(w) \in SUBSET Ids /\ past.raced \subseteq Raced(w)
      /\ Raced(w) \subseteq past.raced \cup {i}
      /\ i \notin Raced(w) => invoices[i] = w.snap
  BY <1>a, ReadWork
<1>c. /\ past' \in Past /\ past'.raced = Raced(w)
      /\ past'.overlap = past.overlap /\ past'.left = past.left /\ past'.lapse = past.lapse
  BY <1>a, <1>b DEF Past
<1>d. waived \in Sums /\ waived > 0 /\ w.snap.paid + waived <= Amount + Slack
  <2>1. w.snap.paid \in Sums /\ w.snap.waived \in Sums
    BY <1>b DEF Invoice
  <2>2. w.snap.paid \in Nat /\ w.snap.waived \in Nat
    BY <2>1, ExamFeeAssumption DEF Sums
  <2>3. w.amount <= Slack + (Amount - w.snap.paid - (IF w.kind = "set" THEN 0 ELSE w.snap.waived))
    BY <1>b DEF MayTake
  <2>4. w.amount \in Nat /\ w.amount > 0
    BY <1>b
  <2>5. waived \in Nat /\ waived > 0 /\ w.snap.paid + waived <= Amount + Slack
    BY <2>2, <2>3, <2>4, ExamFeeAssumption
  <2> HIDE DEF waived
  <2> QED BY <2>2, <2>5, ExamFeeAssumption DEF Sums
<1>e. status \in Statuses /\ status # "PAID"
  <2>1. waived > 0
    BY <1>d
  <2> HIDE DEF waived
  <2> QED BY <2>1 DEF DeriveStatus, Statuses
<1>j. i \notin Raced(w) => status = DeriveStatus(invoices[i].paid, waived) /\ invoices[i] = w.snap
  BY <1>b
<1> HIDE DEF status, waived
<1> DEFINE new == [invoices[i] EXCEPT !.waived = waived, !.status = status]
<1>k. /\ new \in Invoice /\ new.there = invoices[i].there /\ new.paid = invoices[i].paid
      /\ new.waived = waived /\ new.status = status
  BY <1>b, <1>d, <1>e DEF Invoice
<1>r. invoices' = [invoices EXCEPT ![i] = new]
  BY <1>a, <1>b DEF IInv, TypeOK
<1> HIDE DEF new
<1>l. /\ invoices' \in Seq(Invoice) /\ Len(invoices') = Len(invoices)
      /\ invoices'[i].there = invoices[i].there /\ invoices'[i].paid = invoices[i].paid
      /\ invoices'[i].waived = waived /\ invoices'[i].status = status
      /\ \A j \in 1..Len(invoices) : j # i => invoices'[j] = invoices[j]
  BY <1>b, <1>k, <1>r DEF IInv, TypeOK
<1>m. Here' = Here
  BY <1>l DEF Here
<1>o. \A k \in Cashiers : k # c => work'[k] = work[k]
  BY <1>a DEF IInv, TypeOK
<1>t. work'[c] = None
  BY <1>a DEF IInv, TypeOK
<1>1. TypeOK'
  BY <1>a, <1>c, <1>l DEF IInv, TypeOK
<1>2. CollectedMoneyIsKept'
  BY <1>a, <1>m DEF IInv, CollectedMoneyIsKept
<1>3. InvoiceTellsTheMoney'
  <2> SUFFICES ASSUME NEW j \in Here, j \notin Raced(w)
               PROVE  /\ invoices'[j].paid = payments[j]
                      /\ payments[j] + invoices'[j].waived <= Amount + Slack
                      /\ invoices'[j].status = DeriveStatus(payments[j], invoices'[j].waived)
    BY <1>a, <1>c, <1>m DEF InvoiceTellsTheMoney, DeriveStatus
  <2>1. j \notin past.raced /\ j \in 1..Len(invoices)
    BY <1>b DEF Here
  <2>2. /\ invoices[j].paid = payments[j]
        /\ payments[j] + invoices[j].waived <= Amount + Slack
        /\ invoices[j].status = DeriveStatus(payments[j], invoices[j].waived)
    BY <2>1 DEF IInv, InvoiceTellsTheMoney
  <2>3. CASE j # i
    BY <2>1, <2>2, <2>3, <1>l
  <2>4. CASE j = i
    BY <2>2, <2>4, <1>d, <1>j, <1>l
  <2> QED BY <2>3, <2>4
<1>4. OnlyUntouchedWithdrawn'
  <2>1. invoices'[i].waived > 0
    BY <1>d, <1>l
  <2>2. \A j \in 1..Len(invoices) : j # i => invoices'[j] = invoices[j]
    BY <1>l
  <2>3. \A j \in Here : j \in 1..Len(invoices)
    BY DEF Here
  <2> QED BY <2>1, <2>2, <2>3, <1>a, <1>c, <1>l, <1>m DEF IInv, OnlyUntouchedWithdrawn, Touched
<1>5. WorkIsAllowed'
  BY <1>l, <1>o, <1>t DEF IInv, WorkIsAllowed, MayTake
<1>6. UntouchedIsFresh'
  <2>1. invoices'[i].waived # 0
    BY <1>d, <1>l
  <2> QED BY <2>1, <1>a, <1>l DEF IInv, UntouchedIsFresh
<1>7. RegistersWhenPaid'
  BY <1>a, <1>b, <1>c, <1>m, <1>o, <1>t DEF IInv, RegistersWhenPaid, PaidUp
<1>8. CandidateIffPaid'
  <2>1. candidate' => \E j \in Here' : j \in past'.raced \/ payments'[j] + Slack >= Amount
    BY <1>7 DEF RegistersWhenPaid, PaidUp
  <2>2. ASSUME ~candidate', ~past'.lapse, NEW j \in Here \ Raced(w), invoices'[j].status = "PAID"
        PROVE  \E k \in Cashiers : work'[k] # None /\ work'[k].at = "register" /\ work'[k].id = j
    <3>1. j # i
      BY <2>2, <1>e, <1>l
    <3>2. invoices[j].status = "PAID" /\ j \in Here \ past.raced
      BY <2>2, <3>1, <1>b, <1>l DEF Here
    <3>3. PICK k \in Cashiers : work[k] # None /\ work[k].at = "register" /\ work[k].id = j
      BY <2>2, <3>2, <1>a, <1>c DEF IInv, CandidateIffPaid
    <3>4. work'[k] = work[k]
      BY <3>3, <1>a, <1>o
    <3> QED BY <3>3, <3>4
  <2> QED BY <2>1, <2>2, <1>c, <1>m DEF CandidateIffPaid
<1> QED BY <1>1, <1>2, <1>3, <1>4, <1>5, <1>6, <1>7, <1>8, <1>a, <1>c, <1>m, BillingStays DEF IInv

(* A step that changes nothing keeps the invariant. *)
LEMMA StutterStep == IInv /\ UNCHANGED vars => IInv'
<1> SUFFICES ASSUME IInv, UNCHANGED vars PROVE IInv'
  OBVIOUS
<1> USE DEF vars, switchVars, moneyVars
<1>1. Here' = Here
  BY DEF Here
<1>2. TypeOK'
  BY DEF IInv, TypeOK
<1>3. Money'
  BY MoneyStays DEF IInv, Money
<1>4. BilledOnce' /\ OneCreates' /\ OnlyUntouchedWithdrawn'
  BY <1>1, OffStays DEF IInv, BilledOnce, OneCreates
<1> QED BY <1>2, <1>3, <1>4 DEF IInv, Money

(* The invariant holds of every step of every behaviour. *)
THEOREM Invariance == Spec => []IInv
<1>1. Init => IInv
  BY InitIInv
<1>2. IInv /\ [Next]_vars => IInv'
  <2> SUFFICES ASSUME IInv, [Next]_vars PROVE IInv'
    OBVIOUS
  <2>1. CASE SetFeeActive \/ DeactivateFee \/ WithdrawUntouchedInvoices \/ StopBilling \/ WithdrawalLost
    BY <2>1, SetFeeActiveStep, DeactivateFeeStep, WithdrawStep, NotWithdrawnStep
  <2>2. CASE \E b \in Billers : ListStructures(b) \/ FindExisting(b) \/ CreateInvoice(b)
    BY <2>2, ListStructuresStep, FindExistingStep, CreateInvoiceStep
  <2>3. ASSUME NEW c \in Cashiers,
               \E kind \in Kinds, i \in Here, a \in 1..(Amount + Slack) : ReadInvoice(c, kind, i, a)
        PROVE  IInv'
    BY <2>3, ReadInvoiceStep
  <2>4. ASSUME NEW c \in Cashiers,
               InvoiceGone(c) \/ RecordPayment(c) \/ WaiveInvoice(c) \/ Register(c)
        PROVE  IInv'
    BY <2>4, InvoiceGoneStep, RecordPaymentStep, WaiveInvoiceStep, RegisterStep
  <2>5. CASE UNCHANGED vars
    BY <2>5, StutterStep
  <2> QED BY <2>1, <2>2, <2>3, <2>4, <2>5 DEF Next
<1> QED BY <1>1, <1>2, PTL DEF Spec

(* Every state has its type: no invoice is paid or waived beyond the fee   *)
(* and the slack, whatever overlaps.                                       *)
THEOREM TypesHold == Spec => []TypeOK
BY Invariance, PTL DEF IInv

(* Switching the fee off never undoes collected money.                     *)
THEOREM MoneyIsKept == Spec => []CollectedMoneyIsKept
BY Invariance, PTL DEF IInv

(* An invoice whose transactions did not overlap agrees with its payments. *)
THEOREM InvoicesAgree == Spec => []InvoiceTellsTheMoney
BY Invariance, PTL DEF IInv

(* A student is billed twice only by two overlapping billers.              *)
THEOREM NoDoubleBill == Spec => []BilledOnce
BY Invariance, PTL DEF IInv

(* Every invoice with a payment, a waiver or a discount is kept, and once  *)
(* a fee is off only these and invoices no withdrawal reached remain.      *)
THEOREM WithdrawnExactly == Spec => []OnlyUntouchedWithdrawn
BY Invariance, PTL DEF IInv

(* Who is registered has paid, and who has paid is registered.             *)
THEOREM PaidAreCandidates == Spec => []CandidateIffPaid
BY Invariance, PTL DEF IInv

---------------------------------------------------------------------------
(* What the exceptions cost: with one payment or waiver at a time no       *)
(* invoice is ever overwritten, with one biller at a time none is billed   *)
(* twice - although the fee is switched and withdrawn in between.          *)

(* What a lone cashier read is what it will overwrite: only a withdrawal   *)
(* comes between, and that takes the invoice away.                         *)
SnapIsFresh ==
    /\ past.raced = {}
    /\ \A c \in Cashiers :
         work[c] # None /\ work[c].at = "read" /\ work[c].id \in Here => invoices[work[c].id] = work[c].snap

LEMMA SnapStays ==
    ASSUME \A c, d \in Cashiers : c = d, IInv, SnapIsFresh, [Next]_vars
    PROVE  SnapIsFresh'
<1>1. /\ past \in Past /\ invoices \in Seq(Invoice) /\ work \in [Cashiers -> Work \cup {None}]
  BY DEF IInv, TypeOK
<1>2. ASSUME NEW o \in BOOLEAN, NEW f \in SUBSET Ids
      PROVE  [past EXCEPT !.overlap = o].raced = past.raced
             /\ [past EXCEPT !.left = f].raced = past.raced
             /\ [past EXCEPT !.lapse = o].raced = past.raced
  BY <1>1 DEF Past
<1>3. CASE UNCHANGED <<invoices, work>> /\ past'.raced = past.raced
  BY <1>3 DEF SnapIsFresh, Here
<1>4. CASE WithdrawUntouchedInvoices
  <2>1. \A i \in 1..Len(invoices) :
           invoices'[i] = [invoices[i] EXCEPT !.there = @ /\ ~Untouched(i)]
    BY <1>4 DEF WithdrawUntouchedInvoices
  <2>2. Len(invoices') = Len(invoices) /\ UNCHANGED work /\ past'.raced = past.raced
    BY <1>1, <1>4 DEF WithdrawUntouchedInvoices, Past
  <2>3. ASSUME NEW i \in Here' PROVE i \in Here /\ invoices'[i] = invoices[i]
    <3>1. i \in 1..Len(invoices) /\ invoices'[i].there
      BY <2>2 DEF Here
    <3>2. invoices[i] \in Invoice
      BY <1>1, <3>1
    <3>3. invoices[i].there /\ ~Untouched(i)
      BY <2>1, <3>1, <3>2 DEF Invoice
    <3> QED BY <2>1, <3>1, <3>2, <3>3 DEF Here, Invoice
  <2> QED BY <2>2, <2>3 DEF SnapIsFresh
<1>5. ASSUME NEW b \in Billers, CreateInvoice(b) PROVE SnapIsFresh'
  <2>1. \A i \in 1..Len(invoices) : invoices'[i] = invoices[i]
    BY <1>1, <1>5 DEF CreateInvoice
  <2>2. UNCHANGED work /\ past'.raced = past.raced
    BY <1>1, <1>5 DEF CreateInvoice, Past
  <2>3. ASSUME NEW c \in Cashiers, work[c] # None, work[c].id \in Here'
        PROVE  work[c].id \in Here /\ invoices'[work[c].id] = invoices[work[c].id]
    <3>1. work[c].id \in 1..Len(invoices)
      BY <1>1, <2>3 DEF IInv, WorkIsAllowed, Work, Ids
    <3> QED BY <2>1, <2>3, <3>1 DEF Here
  <2> QED BY <2>2, <2>3 DEF SnapIsFresh
<1>6. ASSUME NEW c \in Cashiers,
             \E kind \in Kinds, i \in Here, a \in 1..(Amount + Slack) : ReadInvoice(c, kind, i, a)
      PROVE  SnapIsFresh'
  <2>1. PICK kind \in Kinds, i \in Here, a \in 1..(Amount + Slack) : ReadInvoice(c, kind, i, a)
    BY <1>6
  <2>2. work'[c] = [at |-> "read", kind |-> kind, id |-> i, amount |-> a, snap |-> invoices[i]]
        /\ UNCHANGED <<invoices, past>>
    BY <1>1, <2>1 DEF ReadInvoice
  <2>3. work'[c].id = i /\ work'[c].snap = invoices[i]
    BY <2>2
  <2> QED BY <2>2, <2>3 DEF SnapIsFresh
<1>7. ASSUME NEW c \in Cashiers, InvoiceGone(c) \/ Register(c) PROVE SnapIsFresh'
  <2>1. work'[c] = None /\ past'.raced = past.raced
    BY <1>1, <1>2, <1>7 DEF InvoiceGone, Register
  <2> QED BY <2>1 DEF SnapIsFresh
<1>8. ASSUME NEW c \in Cashiers, RecordPayment(c) \/ WaiveInvoice(c) PROVE SnapIsFresh'
  <2>1. work[c] # None /\ work[c].at = "read" /\ work[c].id \in Here
        /\ past' = [past EXCEPT !.raced = Raced(work[c])]
    BY <1>8 DEF RecordPayment, WaiveInvoice
  <2>2. Raced(work[c]) = past.raced
    BY <2>1 DEF SnapIsFresh, Raced
  <2>3. past'.raced = {}
    BY <1>1, <2>1, <2>2 DEF Past, SnapIsFresh
  <2>4. work'[c] = None \/ work'[c].at = "register"
    BY <1>1, <1>8, <2>1 DEF RecordPayment, WaiveInvoice, Work
  <2> QED BY <2>3, <2>4 DEF SnapIsFresh
<1>9. CASE SetFeeActive \/ DeactivateFee \/ StopBilling \/ WithdrawalLost \/ UNCHANGED vars
  <2>1. UNCHANGED <<invoices, work>> /\ past'.raced = past.raced
    BY <1>1, <1>9 DEF SetFeeActive, DeactivateFee, StopBilling, WithdrawalLost, vars, Past
  <2> QED BY <2>1, <1>3
<1>10. ASSUME NEW b \in Billers, ListStructures(b) \/ FindExisting(b) PROVE SnapIsFresh'
  <2>1. UNCHANGED <<invoices, work>> /\ past'.raced = past.raced
    BY <1>1, <1>2, <1>10 DEF ListStructures, FindExisting
  <2> QED BY <2>1, <1>3
<1> QED BY <1>4, <1>5, <1>6, <1>7, <1>8, <1>9, <1>10 DEF Next

LEMMA AloneNeverRaces ==
    (\A c, d \in Cashiers : c = d) => (Spec => [](past.raced = {}))
<1> SUFFICES ASSUME \A c, d \in Cashiers : c = d PROVE Spec => [](past.raced = {})
  OBVIOUS
<1>1. Init => SnapIsFresh
  BY DEF Init, SnapIsFresh
<1>2. IInv /\ SnapIsFresh /\ [Next]_vars => SnapIsFresh'
  BY SnapStays
<1>3. SnapIsFresh => past.raced = {}
  BY DEF SnapIsFresh
<1> QED BY <1>1, <1>2, <1>3, Invariance, PTL DEF Spec

(* recordPayment(), waiveInvoice(): one at a time, every invoice agrees    *)
(* with its payments ("keeps the invoice's paidAmount/status in sync") ... *)
THEOREM InvoicesAgreeAlone ==
    (\A c, d \in Cashiers : c = d) =>
        (Spec => [](\A i \in Here :
                      /\ invoices[i].paid = payments[i]
                      /\ payments[i] + invoices[i].waived <= Amount + Slack
                      /\ invoices[i].status = DeriveStatus(payments[i], invoices[i].waived)))
<1>1. IInv /\ past.raced = {} =>
        \A i \in Here : /\ invoices[i].paid = payments[i]
                        /\ payments[i] + invoices[i].waived <= Amount + Slack
                        /\ invoices[i].status = DeriveStatus(payments[i], invoices[i].waived)
  BY DEF IInv, InvoiceTellsTheMoney
<1> SUFFICES ASSUME \A c, d \in Cashiers : c = d
             PROVE  Spec => [](\A i \in Here :
                      /\ invoices[i].paid = payments[i]
                      /\ payments[i] + invoices[i].waived <= Amount + Slack
                      /\ invoices[i].status = DeriveStatus(payments[i], invoices[i].waived))
  OBVIOUS
<1>2. Spec => [](past.raced = {})
  BY AloneNeverRaces
<1> QED BY <1>1, <1>2, Invariance, PTL

(* ... and nobody is registered for the exam without having paid           *)
(* (autoRegisterOnInvoicePaid).                                            *)
THEOREM CandidatesPaidAlone ==
    (\A c, d \in Cashiers : c = d) =>
        (Spec => [](candidate => \E i \in Here : payments[i] + Slack >= Amount))
<1>1. IInv /\ past.raced = {} => (candidate => \E i \in Here : payments[i] + Slack >= Amount)
  BY DEF IInv, CandidateIffPaid
<1> SUFFICES ASSUME \A c, d \in Cashiers : c = d
             PROVE  Spec => [](candidate => \E i \in Here : payments[i] + Slack >= Amount)
  OBVIOUS
<1>2. Spec => [](past.raced = {})
  BY AloneNeverRaces
<1> QED BY <1>1, <1>2, Invariance, PTL

(* No two billers ever overlapped. *)
NoOverlap == past.overlap = FALSE

(* generateInvoicesOnTx(): one biller at a time never bills twice, however *)
(* often the fee is switched, withdrawn and billed again.                  *)
THEOREM BilledOnceAlone ==
    (\A a, b \in Billers : a = b) => (Spec => [](\A i, j \in Here : i = j))
<1> SUFFICES ASSUME \A a, b \in Billers : a = b PROVE Spec => [](\A i, j \in Here : i = j)
  OBVIOUS
<1>1. Init => NoOverlap
  BY DEF NoOverlap, Init
<1>2. TypeOK /\ NoOverlap /\ [Next]_vars => NoOverlap'
  <2> SUFFICES ASSUME TypeOK, past.overlap = FALSE, [Next]_vars PROVE past'.overlap = FALSE
    BY DEF NoOverlap
  <2>1. past \in Past
    BY DEF TypeOK
  <2>2. ASSUME NEW b \in Billers, FindExisting(b) PROVE past'.overlap = FALSE
    <3>1. ~\E o \in Billers : bill[o] = "creating"
      BY <2>2 DEF FindExisting
    <3> QED BY <2>1, <2>2, <3>1 DEF FindExisting, Past
  <2>3. ASSUME ~\E b \in Billers : FindExisting(b) PROVE past'.overlap = past.overlap
    BY <2>1, <2>3 DEF Next, SetFeeActive, DeactivateFee, StopBilling, WithdrawalLost,
       WithdrawUntouchedInvoices, ListStructures,
       CreateInvoice, ReadInvoice, InvoiceGone, RecordPayment, WaiveInvoice, Register, vars, Past
  <2> QED BY <2>2, <2>3
<1>3. IInv /\ NoOverlap => \A i, j \in Here : i = j
  BY DEF NoOverlap, IInv, BilledOnce
<1> QED BY <1>1, <1>2, <1>3, Invariance, TypesHold, PTL DEF Spec
=============================================================================
