------------------------ MODULE MessageBillingProofs ------------------------
(***************************************************************************)
(* The wallet's accounts are right for every set of sends, requests and    *)
(* admin sessions, every price and package, and every combination of the   *)
(* faults.                                                                 *)
(***************************************************************************)
EXTENDS MessageBilling, TLAPS

USE BillingAssumption DEF sendVars, adminVars

(* A wallet with other figures is a wallet. *)
Figures(w, t, u, r) == [w EXCEPT !.total = t, !.used = u, !.remaining = r]

LEMMA FiguresType ==
    ASSUME NEW w \in Wallet, NEW t \in Int, NEW u \in Int, NEW r \in Int
    PROVE  Figures(w, t, u, r) \in Wallet
BY DEF Figures, Wallet

(* What the two elementary changes do to a wallet. *)
LEMMA SpentWallet ==
    ASSUME NEW w \in Wallet, NEW n \in Int
    PROVE  /\ Spent(w, n) \in Wallet
           /\ Spent(w, n).total = w.total
           /\ Spent(w, n).used = w.used + n
           /\ Spent(w, n).remaining = w.remaining - n
<1>1. w.total \in Int /\ w.used + n \in Int /\ w.remaining - n \in Int
  BY DEF Wallet
<1>2. Spent(w, n) = Figures(w, w.total, w.used + n, w.remaining - n)
  BY DEF Spent, Figures, Wallet
<1>3. Spent(w, n) \in Wallet
  BY <1>1, <1>2, FiguresType
<1>4. /\ Spent(w, n).total = w.total /\ Spent(w, n).used = w.used + n
      /\ Spent(w, n).remaining = w.remaining - n
  BY DEF Spent, Wallet
<1> QED BY <1>3, <1>4

LEMMA AddedWallet ==
    ASSUME NEW w \in Wallet, NEW n \in Int
    PROVE  /\ Added(w, n) \in Wallet
           /\ Added(w, n).total = w.total + n
           /\ Added(w, n).used = w.used
           /\ Added(w, n).remaining = w.remaining + n
<1>1. w.total + n \in Int /\ w.used \in Int /\ w.remaining + n \in Int
  BY DEF Wallet
<1>2. Added(w, n) = Figures(w, w.total + n, w.used, w.remaining + n)
  BY DEF Added, Figures, Wallet
<1>3. Added(w, n) \in Wallet
  BY <1>1, <1>2, FiguresType
<1>4. /\ Added(w, n).total = w.total + n /\ Added(w, n).used = w.used
      /\ Added(w, n).remaining = w.remaining + n
  BY DEF Added, Wallet
<1> QED BY <1>3, <1>4

(* What the accounts say of the wallet and of the last ledger row. *)
Accounts == wallet \in Wallet /\ balance \in Int /\ Balanced /\ LedgerAgrees /\ NoOverdraft

LEMMA AccountsKept ==
    ASSUME Accounts, UNCHANGED <<wallet, balance>>
    PROVE  Accounts'
BY DEF Accounts, Balanced, LedgerAgrees, NoOverdraft

(* A posted wallet is in order when its columns are. *)
LEMMA AccountsPosted ==
    ASSUME NEW w \in Wallet, Post(w), w.total = w.used + w.remaining,
           (\A d \in Deltas : d > 0) => w.remaining >= 0
    PROVE  Accounts'
BY DEF Accounts, Post, Balanced, LedgerAgrees, NoOverdraft, Wallet

(* A refund gives back what was reserved. *)
LEMMA RefundAccounts ==
    ASSUME Accounts, NEW s \in Sends, Refund(s)
    PROVE  Accounts'
<1> DEFINE w == Spent(wallet, -Units[s])
<1>1. /\ w \in Wallet /\ w.total = wallet.total
      /\ w.used = wallet.used - Units[s] /\ w.remaining = wallet.remaining + Units[s]
  <2>1. Units[s] \in Nat /\ -Units[s] \in Int /\ wallet \in Wallet
    BY DEF Accounts
  <2>2. /\ w \in Wallet /\ w.total = wallet.total
        /\ w.used = wallet.used + (-Units[s]) /\ w.remaining = wallet.remaining - (-Units[s])
    BY <2>1, SpentWallet
  <2> HIDE DEF w
  <2> QED BY <2>1, <2>2 DEF Wallet
<1>2. wallet.total = wallet.used + wallet.remaining /\ wallet \in Wallet
  BY DEF Accounts, Balanced
<1>3. w.total = w.used + w.remaining
  BY <1>1, <1>2 DEF Wallet
<1>4. (\A d \in Deltas : d > 0) => w.remaining >= 0
  BY <1>1, <1>2 DEF Accounts, NoOverdraft, Wallet
<1>5. Post(w)
  BY DEF Refund
<1> HIDE DEF w
<1> QED BY <1>1, <1>3, <1>4, <1>5, AccountsPosted

LEMMA InitIInv == Init => IInv
<1> SUFFICES ASSUME Init PROVE IInv
    OBVIOUS
<1>1. TypeOK
  BY DEF Init, TypeOK, Wallet, NoWallet, Places, Tasks
<1>2. Balanced /\ LedgerAgrees /\ NoOverdraft
  BY DEF Init, NoWallet, Balanced, LedgerAgrees, NoOverdraft
<1>3. UsageIsTrue /\ RefundedOnce /\ RefundedWasRejected /\ NeverSilentlyDeducted /\ SendsInOrder
  BY DEF Init, UsageIsTrue, RefundedOnce, RefundedWasRejected, NeverSilentlyDeducted, SendsInOrder
<1>4. GrantedOnce /\ ApprovalsAreOwned
  BY DEF Init, GrantedOnce, ApprovalsAreOwned, Granting
<1> QED BY <1>1, <1>2, <1>3, <1>4 DEF IInv

---------------------------------------------------------------------------
(* The invariant in three parts, each disturbed by its own actions.        *)

(* The sends ... *)
SendInv ==
    /\ at \in [Sends -> Places]
    /\ usage \in [Sends -> {"none", "PENDING", "SENT", "FAILED"}]
    /\ accepted \in [Sends -> BOOLEAN]
    /\ refunds \in [Sends -> Nat]
    /\ mishaps \in [Sends -> SUBSET (Places \X {"db", "commit", "reply"})]
    /\ UsageIsTrue /\ RefundedOnce /\ RefundedWasRejected /\ NeverSilentlyDeducted
    /\ SendsInOrder

(* ... and the super admins with their requests. *)
AdminInv ==
    /\ request \in [Requests -> {"none", "PENDING", "APPROVED", "REJECTED"}]
    /\ granted \in [Requests -> Nat]
    /\ desk \in [Admins -> Tasks]
    /\ job \in [Admins -> Requests \cup {None}]
    /\ seen \in [Admins -> Wallet]
    /\ delta \in [Admins -> Deltas \cup {0}]
    /\ changes \in Nat
    /\ GrantedOnce /\ ApprovalsAreOwned

LEMMA Parts == IInv <=> Accounts /\ now \in Nat /\ SendInv /\ AdminInv
<1>1. TypeOK <=> /\ wallet \in Wallet /\ balance \in Int /\ now \in Nat
                 /\ at \in [Sends -> Places]
                 /\ usage \in [Sends -> {"none", "PENDING", "SENT", "FAILED"}]
                 /\ accepted \in [Sends -> BOOLEAN]
                 /\ refunds \in [Sends -> Nat]
                 /\ mishaps \in [Sends -> SUBSET (Places \X {"db", "commit", "reply"})]
                 /\ request \in [Requests -> {"none", "PENDING", "APPROVED", "REJECTED"}]
                 /\ granted \in [Requests -> Nat]
                 /\ desk \in [Admins -> Tasks]
                 /\ job \in [Admins -> Requests \cup {None}]
                 /\ seen \in [Admins -> Wallet]
                 /\ delta \in [Admins -> Deltas \cup {0}]
                 /\ changes \in Nat
  BY Zenon DEF TypeOK
<1> QED BY <1>1, Zenon DEF IInv, Accounts, SendInv, AdminInv

LEMMA Together ==
    ASSUME Accounts', now' \in Nat, SendInv', AdminInv'
    PROVE  IInv'
BY Zenon DEF IInv, TypeOK, Accounts, SendInv, AdminInv

LEMMA SendsKept ==
    ASSUME SendInv, UNCHANGED sendVars
    PROVE  SendInv'
BY DEF SendInv, UsageIsTrue, RefundedOnce, RefundedWasRejected, NeverSilentlyDeducted,
       SendsInOrder, AcceptanceUnknown, NotReleased

LEMMA AdminsKept ==
    ASSUME AdminInv, UNCHANGED adminVars
    PROVE  AdminInv'
BY DEF AdminInv, GrantedOnce, ApprovalsAreOwned, Granting

(* What holds of one delivery: its place, its usage row, whether the        *)
(* provider took it, its refunds and its mishaps.                           *)
Usages == {"none", "PENDING", "SENT", "FAILED"}
Mishaps == SUBSET (Places \X {"db", "commit", "reply"})
Delivery(here, row, took, n, met) ==
    /\ (row = "FAILED") <=> (n > 0)
    /\ row = "SENT" => took
    /\ n <= 1 \/ <<"rejected", "commit">> \in met
    /\ n > 0 /\ took => <<"charged", "reply">> \in met \/ <<"accepted", "db">> \in met
    /\ here = "done" /\ ~took =>
         row = "none" \/ n > 0 \/ <<"failing", "db">> \in met \/ <<"checked", "commit">> \in met
    /\ here \in {"new", "checked"} => row = "none" /\ n = 0 /\ ~took
    /\ here \in {"charged", "accepted", "rejected"} => row = "PENDING" /\ n = 0
    /\ here = "charged" => ~took
    /\ here = "accepted" => took
    /\ here \in {"rejected", "failing"} /\ took =>
         <<"charged", "reply">> \in met \/ <<"accepted", "db">> \in met
    /\ here = "failing" /\ n > 0 => <<"rejected", "commit">> \in met
    /\ here = "done" /\ row = "PENDING" =>
         <<"failing", "db">> \in met \/ <<"checked", "commit">> \in met

(* The properties of the sends are properties of each delivery. *)
LEMMA DeliveryOf ==
    ASSUME SendInv, NEW s \in Sends
    PROVE  /\ at[s] \in Places /\ usage[s] \in Usages /\ accepted[s] \in BOOLEAN
           /\ refunds[s] \in Nat /\ mishaps[s] \in Mishaps
           /\ Delivery(at[s], usage[s], accepted[s], refunds[s], mishaps[s])
<1>1. /\ at[s] \in Places /\ usage[s] \in Usages /\ accepted[s] \in BOOLEAN
      /\ refunds[s] \in Nat /\ mishaps[s] \in Mishaps
  BY DEF SendInv, Usages, Mishaps
<1>2. Delivery(at[s], usage[s], accepted[s], refunds[s], mishaps[s])
  BY DEF SendInv, Delivery, UsageIsTrue, RefundedOnce, RefundedWasRejected,
         NeverSilentlyDeducted, SendsInOrder, AcceptanceUnknown, NotReleased
<1> QED BY <1>1, <1>2

(* A step that moves this send only, and leaves its columns well typed.     *)
Only(s) ==
    /\ at' = [at EXCEPT ![s] = at'[s]] /\ at'[s] \in Places
    /\ usage' = [usage EXCEPT ![s] = usage'[s]] /\ usage'[s] \in Usages
    /\ accepted' = [accepted EXCEPT ![s] = accepted'[s]] /\ accepted'[s] \in BOOLEAN
    /\ refunds' = [refunds EXCEPT ![s] = refunds'[s]] /\ refunds'[s] \in Nat
    /\ mishaps' = [mishaps EXCEPT ![s] = mishaps'[s]] /\ mishaps'[s] \in Mishaps

(* A send that moves to a place where its delivery is in order keeps them.  *)
LEMMA SendMoves ==
    ASSUME SendInv, NEW s \in Sends, Only(s),
           Delivery(at'[s], usage'[s], accepted'[s], refunds'[s], mishaps'[s])
    PROVE  SendInv'
<1>1. /\ at' \in [Sends -> Places] /\ usage' \in [Sends -> Usages]
      /\ accepted' \in [Sends -> BOOLEAN] /\ refunds' \in [Sends -> Nat]
      /\ mishaps' \in [Sends -> Mishaps]
  BY DEF SendInv, Only, Usages, Mishaps
<1>2. ASSUME NEW r \in Sends
      PROVE  Delivery(at'[r], usage'[r], accepted'[r], refunds'[r], mishaps'[r])
  <2>1. CASE r = s
    BY <2>1
  <2>2. CASE r # s
    <3>1. /\ at'[r] = at[r] /\ usage'[r] = usage[r] /\ accepted'[r] = accepted[r]
          /\ refunds'[r] = refunds[r] /\ mishaps'[r] = mishaps[r]
      BY <2>2 DEF Only, SendInv
    <3> QED BY <3>1, DeliveryOf
  <2> QED BY <2>1, <2>2
<1>3. UsageIsTrue' /\ RefundedOnce' /\ RefundedWasRejected' /\ NeverSilentlyDeducted'
  BY <1>2 DEF Delivery, UsageIsTrue, RefundedOnce, RefundedWasRejected,
              NeverSilentlyDeducted, AcceptanceUnknown, NotReleased
<1>4. SendsInOrder'
  BY <1>2 DEF Delivery, SendsInOrder, AcceptanceUnknown, NotReleased
<1> QED BY <1>1, <1>3, <1>4 DEF SendInv, Usages, Mishaps

(* The faults a delivery has met after a step. *)
LEMMA MishapsAfter ==
    ASSUME SendInv, NEW s \in Sends,
           NEW fault \in {"db", "commit", "reply"}, Meets(s, fault)
    PROVE  /\ mishaps[s] \cup {<<at[s], fault>>} \in Mishaps
           /\ mishaps' = [mishaps EXCEPT ![s] = mishaps[s] \cup {<<at[s], fault>>}]
BY DeliveryOf DEF Meets, Mishaps

(* What a step leaves alone it sets to what it was. *)
LEMMA Kept ==
    ASSUME SendInv, NEW s \in Sends
    PROVE  /\ usage = [usage EXCEPT ![s] = usage[s]]
           /\ accepted = [accepted EXCEPT ![s] = accepted[s]]
           /\ refunds = [refunds EXCEPT ![s] = refunds[s]]
           /\ mishaps = [mishaps EXCEPT ![s] = mishaps[s]]
BY DEF SendInv

(* A session that ends owns nothing any more. *)
LEMMA AdminLeaves ==
    ASSUME AdminInv, NEW a \in Admins, Leave(a), UNCHANGED <<request, changes>>,
           \/ UNCHANGED granted
           \/ Granting(a) /\ granted' = [granted EXCEPT ![job[a]] = @ + 1]
    PROVE  AdminInv'
<1> USE DEF AdminInv
<1>1. /\ desk' \in [Admins -> Tasks] /\ job' \in [Admins -> Requests \cup {None}]
      /\ seen' \in [Admins -> Wallet] /\ delta' \in [Admins -> Deltas \cup {0}]
      /\ request' = request /\ changes' = changes
      /\ desk'[a] = "idle"
      /\ \A b \in Admins \ {a} : desk'[b] = desk[b] /\ job'[b] = job[b]
  BY DEF Leave, Tasks, NoWallet, Wallet
<1>2. CASE UNCHANGED granted
  <2>1. GrantedOnce'
    BY <1>1, <1>2 DEF GrantedOnce
  <2>2. ApprovalsAreOwned'
    BY <1>1, <1>2 DEF ApprovalsAreOwned, Granting
  <2> QED BY <1>1, <1>2, <2>1, <2>2
<1>3. CASE Granting(a) /\ granted' = [granted EXCEPT ![job[a]] = @ + 1]
  <2>1. job[a] \in Requests /\ request[job[a]] = "APPROVED" /\ granted[job[a]] = 0
    BY <1>3 DEF ApprovalsAreOwned
  <2>2. /\ granted' \in [Requests -> Nat] /\ granted'[job[a]] = 1
        /\ \A q \in Requests \ {job[a]} : granted'[q] = granted[q]
    BY <1>3, <2>1
  <2>3. GrantedOnce'
    BY <1>1, <2>1, <2>2 DEF GrantedOnce
  <2>4. ApprovalsAreOwned'
    BY <1>1, <1>3, <2>1, <2>2 DEF ApprovalsAreOwned, Granting
  <2> QED BY <1>1, <2>2, <2>3, <2>4
<1> QED BY <1>2, <1>3

---------------------------------------------------------------------------
(* Each action preserves the invariant. *)

(* The advisory check writes nothing.                                      *)
LEMMA CheckStep ==
    ASSUME IInv, NEW s \in Sends, Check(s)
    PROVE  IInv'
<1>1. Accounts /\ now \in Nat /\ SendInv /\ AdminInv
  BY Parts
<1>2. Accounts' /\ AdminInv' /\ now' \in Nat
  BY <1>1, AccountsKept, AdminsKept DEF Check
<1>3. PICK here \in {"checked", "done"} : at' = [at EXCEPT ![s] = here]
  BY DEF Check, Step
<1>4. Delivery(here, usage[s], accepted[s], refunds[s], mishaps[s])
  BY <1>1, DeliveryOf DEF Check, Delivery
<1>5. SendInv'
  <2>1. /\ at'[s] = here /\ usage'[s] = usage[s] /\ accepted'[s] = accepted[s]
        /\ refunds'[s] = refunds[s] /\ mishaps'[s] = mishaps[s] /\ Only(s)
    BY <1>1, <1>3, <1>4, DeliveryOf, Kept
       DEF Check, Places, Only, SendInv
  <2> QED BY <1>1, <1>4, <2>1, SendMoves
<1> QED BY <1>2, <1>5, Together

(* Credit is reserved only while there is enough of it.                    *)
LEMMA ChargeStep ==
    ASSUME IInv, NEW s \in Sends, Charge(s)
    PROVE  IInv'
<1>1. Accounts /\ now \in Nat /\ SendInv /\ AdminInv
  BY Parts
<1>2. AdminInv' /\ now' \in Nat
  BY <1>1, AdminsKept DEF Charge
<1>3. at[s] = "checked" /\ UNCHANGED <<accepted, refunds>>
  BY DEF Charge
<1>4. CASE CanCharge(s) /\ Reserve(s)
  <2> DEFINE w == Spent(wallet, Units[s])
  <2>1. /\ w \in Wallet /\ w.total = wallet.total
        /\ w.used = wallet.used + Units[s] /\ w.remaining = wallet.remaining - Units[s]
    BY <1>1, SpentWallet DEF Accounts
  <2>2. w.total = w.used + w.remaining /\ w.remaining >= 0
    BY <1>1, <1>4, <2>1 DEF Accounts, Balanced, Wallet, CanCharge
  <2>3. Post(w)
    BY <1>4 DEF Reserve
  <2>4. Accounts'
    <3> HIDE DEF w
    <3> QED BY <2>1, <2>2, <2>3, AccountsPosted
  <2>5. usage' = [usage EXCEPT ![s] = "PENDING"]
    BY <1>4 DEF Reserve
  <2>6. CASE Smoothly /\ Step(s, "charged")
    <3>1. Delivery("charged", "PENDING", accepted[s], refunds[s], mishaps[s])
      BY <1>1, <1>3, DeliveryOf DEF Delivery
    <3>2. SendInv'
      <4>1. /\ at'[s] = "charged" /\ usage'[s] = "PENDING" /\ accepted'[s] = accepted[s]
            /\ refunds'[s] = refunds[s] /\ mishaps'[s] = mishaps[s] /\ Only(s)
        BY <1>1, <1>3, <2>5, <2>6, <3>1, DeliveryOf, Kept
           DEF Step, Smoothly, Places, Usages, Only, SendInv
      <4> QED BY <1>1, <3>1, <4>1, SendMoves
    <3> QED BY <1>2, <2>4, <3>2, Together
  <2>7. CASE Meets(s, "commit") /\ Step(s, "done")
    <3> DEFINE met == mishaps[s] \cup {<<at[s], "commit">>}
    <3>1. met \in Mishaps /\ mishaps' = [mishaps EXCEPT ![s] = met]
      BY <1>1, <2>7, MishapsAfter
    <3>2. Delivery("done", "PENDING", accepted[s], refunds[s], met)
      BY <1>1, <1>3, DeliveryOf DEF Delivery
    <3> HIDE DEF met
    <3>3. SendInv'
      <4>1. /\ at'[s] = "done" /\ usage'[s] = "PENDING" /\ accepted'[s] = accepted[s]
            /\ refunds'[s] = refunds[s] /\ mishaps'[s] = met /\ Only(s)
        BY <1>1, <1>3, <2>5, <2>7, <3>1, <3>2, DeliveryOf, Kept
           DEF Step, Places, Usages, Only, SendInv
      <4> QED BY <1>1, <3>2, <4>1, SendMoves
    <3> QED BY <1>2, <2>4, <3>3, Together
  <2>8. CASE Step(s, "done") /\ UNCHANGED <<wallet, balance, usage>>
    BY <1>1, <1>3, <2>5, <2>8, DeliveryOf DEF Delivery, SendInv
  <2> QED BY <1>4, <2>6, <2>7, <2>8 DEF Charge
<1>5. CASE (Smoothly \/ Meets(s, "db")) /\ Step(s, "done") /\ UNCHANGED <<wallet, balance, usage>>
  <2>1. Accounts'
    BY <1>1, <1>5, AccountsKept
  <2>2. PICK met \in Mishaps : mishaps' = [mishaps EXCEPT ![s] = met] /\ mishaps[s] \subseteq met
    <3>1. CASE Smoothly
      BY <1>1, <3>1, Kept, DeliveryOf DEF Smoothly
    <3>2. CASE Meets(s, "db")
      BY <1>1, <3>2, MishapsAfter
    <3> QED BY <1>5, <3>1, <3>2
  <2>3. Delivery("done", usage[s], accepted[s], refunds[s], met)
    BY <1>1, <1>3, DeliveryOf DEF Delivery
  <2>4. SendInv'
    <3>1. /\ at'[s] = "done" /\ usage'[s] = usage[s] /\ accepted'[s] = accepted[s]
          /\ refunds'[s] = refunds[s] /\ mishaps'[s] = met /\ Only(s)
      BY <1>1, <1>3, <1>5, <2>2, <2>3, DeliveryOf, Kept
         DEF Step, Places, Only, SendInv
    <3> QED BY <1>1, <2>3, <3>1, SendMoves
  <2> QED BY <1>2, <2>1, <2>4, Together
<1> QED BY <1>4, <1>5 DEF Charge

(* The call to the provider leaves the credit alone.                       *)
LEMMA CallProviderStep ==
    ASSUME IInv, NEW s \in Sends, CallProvider(s)
    PROVE  IInv'
<1>1. Accounts /\ now \in Nat /\ SendInv /\ AdminInv
  BY Parts
<1>2. Accounts' /\ AdminInv' /\ now' \in Nat
  BY <1>1, AccountsKept, AdminsKept DEF CallProvider
<1>3. at[s] = "charged" /\ UNCHANGED <<usage, refunds>>
  BY DEF CallProvider
<1>4. CASE Accept(s) /\ Smoothly /\ Step(s, "accepted")
  <2>1. Delivery("accepted", usage[s], TRUE, refunds[s], mishaps[s])
    BY <1>1, <1>3, DeliveryOf DEF Delivery
  <2>2. SendInv'
    <3>1. /\ at'[s] = "accepted" /\ usage'[s] = usage[s] /\ accepted'[s] = TRUE
          /\ refunds'[s] = refunds[s] /\ mishaps'[s] = mishaps[s] /\ Only(s)
      BY <1>1, <1>3, <1>4, <2>1, DeliveryOf, Kept
         DEF Step, Smoothly, Accept, Places, Only, SendInv
    <3> QED BY <1>1, <2>1, <3>1, SendMoves
  <2> QED BY <1>2, <2>2, Together
<1>5. CASE Accept(s) /\ Meets(s, "reply") /\ Step(s, "rejected")
  <2> DEFINE met == mishaps[s] \cup {<<at[s], "reply">>}
  <2>1. met \in Mishaps /\ mishaps' = [mishaps EXCEPT ![s] = met]
    BY <1>1, <1>5, MishapsAfter
  <2>2. Delivery("rejected", usage[s], TRUE, refunds[s], met)
    BY <1>1, <1>3, DeliveryOf DEF Delivery
  <2> HIDE DEF met
  <2>3. SendInv'
    <3>1. /\ at'[s] = "rejected" /\ usage'[s] = usage[s] /\ accepted'[s] = TRUE
          /\ refunds'[s] = refunds[s] /\ mishaps'[s] = met /\ Only(s)
      BY <1>1, <1>3, <1>5, <2>1, <2>2, DeliveryOf, Kept
         DEF Step, Accept, Places, Only, SendInv
    <3> QED BY <1>1, <2>2, <3>1, SendMoves
  <2> QED BY <1>2, <2>3, Together
<1>6. CASE UNCHANGED accepted /\ Smoothly /\ Step(s, "rejected")
  <2>1. Delivery("rejected", usage[s], accepted[s], refunds[s], mishaps[s])
    BY <1>1, <1>3, DeliveryOf DEF Delivery
  <2>2. SendInv'
    <3>1. /\ at'[s] = "rejected" /\ usage'[s] = usage[s] /\ accepted'[s] = accepted[s]
          /\ refunds'[s] = refunds[s] /\ mishaps'[s] = mishaps[s] /\ Only(s)
      BY <1>1, <1>3, <1>6, <2>1, DeliveryOf, Kept
         DEF Step, Smoothly, Places, Only, SendInv
    <3> QED BY <1>1, <2>1, <3>1, SendMoves
  <2> QED BY <1>2, <2>2, Together
<1>7. CASE UNCHANGED accepted /\ Meets(s, "db") /\ Step(s, "failing")
  <2> DEFINE met == mishaps[s] \cup {<<at[s], "db">>}
  <2>1. met \in Mishaps /\ mishaps' = [mishaps EXCEPT ![s] = met]
    BY <1>1, <1>7, MishapsAfter
  <2>2. Delivery("failing", usage[s], accepted[s], refunds[s], met)
    BY <1>1, <1>3, DeliveryOf DEF Delivery
  <2> HIDE DEF met
  <2>3. SendInv'
    <3>1. /\ at'[s] = "failing" /\ usage'[s] = usage[s] /\ accepted'[s] = accepted[s]
          /\ refunds'[s] = refunds[s] /\ mishaps'[s] = met /\ Only(s)
      BY <1>1, <1>3, <1>7, <2>1, <2>2, DeliveryOf, Kept
         DEF Step, Places, Only, SendInv
    <3> QED BY <1>1, <2>2, <3>1, SendMoves
  <2> QED BY <1>2, <2>3, Together
<1> QED BY <1>4, <1>5, <1>6, <1>7 DEF CallProvider

(* Neither does the closing of an accepted delivery.                       *)
LEMMA FinalizeStep ==
    ASSUME IInv, NEW s \in Sends, Finalize(s)
    PROVE  IInv'
<1>1. Accounts /\ now \in Nat /\ SendInv /\ AdminInv
  BY Parts
<1>2. Accounts' /\ AdminInv' /\ now' \in Nat
  BY <1>1, AccountsKept, AdminsKept DEF Finalize
<1>3. at[s] = "accepted" /\ UNCHANGED <<accepted, refunds>>
  BY DEF Finalize
<1>4. PICK row \in {usage[s], "SENT"} : usage' = [usage EXCEPT ![s] = row]
  BY <1>1, Kept DEF Finalize
<1>5. row \in Usages
  BY <1>1, DeliveryOf DEF Usages
<1>6. CASE usage' = [usage EXCEPT ![s] = "SENT"] /\ Smoothly /\ Step(s, "done")
  <2>1. Delivery("done", "SENT", accepted[s], refunds[s], mishaps[s])
    BY <1>1, <1>3, DeliveryOf DEF Delivery
  <2>2. SendInv'
    <3>1. /\ at'[s] = "done" /\ usage'[s] = "SENT" /\ accepted'[s] = accepted[s]
          /\ refunds'[s] = refunds[s] /\ mishaps'[s] = mishaps[s] /\ Only(s)
      BY <1>1, <1>3, <1>6, <2>1, DeliveryOf, Kept
         DEF Step, Smoothly, Places, Usages, Only, SendInv
    <3> QED BY <1>1, <2>1, <3>1, SendMoves
  <2> QED BY <1>2, <2>2, Together
<1>7. CASE Meets(s, "db") /\ Step(s, "failing")
  <2> DEFINE met == mishaps[s] \cup {<<at[s], "db">>}
  <2>1. met \in Mishaps /\ mishaps' = [mishaps EXCEPT ![s] = met]
    BY <1>1, <1>7, MishapsAfter
  <2>2. Delivery("failing", row, accepted[s], refunds[s], met)
    BY <1>1, <1>3, <1>4, DeliveryOf DEF Delivery
  <2> HIDE DEF met
  <2>3. SendInv'
    <3>1. /\ at'[s] = "failing" /\ usage'[s] = row /\ accepted'[s] = accepted[s]
          /\ refunds'[s] = refunds[s] /\ mishaps'[s] = met /\ Only(s)
      BY <1>1, <1>3, <1>4, <1>5, <1>7, <2>1, <2>2, DeliveryOf, Kept
         DEF Step, Places, Only, SendInv
    <3> QED BY <1>1, <2>2, <3>1, SendMoves
  <2> QED BY <1>2, <2>3, Together
<1> QED BY <1>6, <1>7 DEF Finalize

(* Nor the death of the process.                                           *)
LEMMA DieStep ==
    ASSUME IInv, NEW s \in Sends, Die(s)
    PROVE  IInv'
<1>1. Accounts /\ now \in Nat /\ SendInv /\ AdminInv
  BY Parts
<1>2. Accounts' /\ AdminInv' /\ now' \in Nat
  BY <1>1, AccountsKept, AdminsKept DEF Die
<1>3. Delivery("dead", usage[s], accepted[s], refunds[s], mishaps[s])
  BY <1>1, DeliveryOf DEF Delivery
<1>4. SendInv'
  <2>1. /\ at'[s] = "dead" /\ usage'[s] = usage[s] /\ accepted'[s] = accepted[s]
        /\ refunds'[s] = refunds[s] /\ mishaps'[s] = mishaps[s] /\ Only(s)
    BY <1>1, <1>3, DeliveryOf, Kept
       DEF Die, Step, Places, Only, SendInv
  <2> QED BY <1>1, <1>3, <2>1, SendMoves
<1> QED BY <1>2, <1>4, Together

(* A reservation is given back with its usage row and its ledger row.      *)
LEMMA ReleaseStep ==
    ASSUME IInv, NEW s \in Sends, Release(s)
    PROVE  IInv'
<1>1. Accounts /\ now \in Nat /\ SendInv /\ AdminInv
  BY Parts
<1>2. AdminInv' /\ now' \in Nat
  BY <1>1, AdminsKept DEF Release
<1> DEFINE onError == IF at[s] = "rejected" THEN "failing" ELSE "done"
           n == refunds[s] + 1
<1>3. at[s] \in {"rejected", "failing"} /\ UNCHANGED accepted
  BY DEF Release
<1>4. ASSUME Refund(s) PROVE Accounts' /\ usage' = [usage EXCEPT ![s] = "FAILED"]
                             /\ refunds' = [refunds EXCEPT ![s] = n] /\ n \in Nat
  <2>1. Accounts'
    BY <1>1, <1>4, RefundAccounts
  <2> QED BY <1>1, <1>4, <2>1, DeliveryOf DEF Refund
<1>5. CASE Refund(s) /\ Smoothly /\ Step(s, "done")
  <2>1. Delivery("done", "FAILED", accepted[s], n, mishaps[s])
    BY <1>1, <1>3, DeliveryOf DEF Delivery
  <2> HIDE DEF n
  <2>2. SendInv'
    <3>1. /\ at'[s] = "done" /\ usage'[s] = "FAILED" /\ accepted'[s] = accepted[s]
          /\ refunds'[s] = n /\ mishaps'[s] = mishaps[s] /\ Only(s)
      BY <1>1, <1>3, <1>4, <1>5, <2>1, DeliveryOf, Kept
         DEF Step, Smoothly, Places, Usages, Only, SendInv
    <3> QED BY <1>1, <2>1, <3>1, SendMoves
  <2> QED BY <1>2, <1>4, <1>5, <2>2, Together
<1>6. CASE Refund(s) /\ Meets(s, "commit") /\ Step(s, onError)
  <2> DEFINE met == mishaps[s] \cup {<<at[s], "commit">>}
  <2>1. met \in Mishaps /\ mishaps' = [mishaps EXCEPT ![s] = met]
    BY <1>1, <1>6, MishapsAfter
  <2>2. Delivery(onError, "FAILED", accepted[s], n, met)
    BY <1>1, <1>3, DeliveryOf DEF Delivery
  <2>3. onError \in Places
    BY DEF Places
  <2> HIDE DEF met, n, onError
  <2>4. SendInv'
    <3>1. /\ at'[s] = onError /\ usage'[s] = "FAILED" /\ accepted'[s] = accepted[s]
          /\ refunds'[s] = n /\ mishaps'[s] = met /\ Only(s)
      BY <1>1, <1>3, <1>4, <1>6, <2>1, <2>2, <2>3, DeliveryOf, Kept
         DEF Step, Usages, Only, SendInv
    <3> QED BY <1>1, <2>2, <3>1, SendMoves
  <2> QED BY <1>2, <1>4, <1>6, <2>4, Together
<1>7. CASE Meets(s, "db") /\ Step(s, onError) /\ UNCHANGED <<wallet, balance, usage, refunds>>
  <2> DEFINE met == mishaps[s] \cup {<<at[s], "db">>}
  <2>1. met \in Mishaps /\ mishaps' = [mishaps EXCEPT ![s] = met]
    BY <1>1, <1>7, MishapsAfter
  <2>2. Delivery(onError, usage[s], accepted[s], refunds[s], met)
    BY <1>1, <1>3, DeliveryOf DEF Delivery
  <2>3. onError \in Places
    BY DEF Places
  <2> HIDE DEF met, onError
  <2>4. SendInv'
    <3>1. /\ at'[s] = onError /\ usage'[s] = usage[s] /\ accepted'[s] = accepted[s]
          /\ refunds'[s] = refunds[s] /\ mishaps'[s] = met /\ Only(s)
      BY <1>1, <1>3, <1>7, <2>1, <2>2, <2>3, DeliveryOf, Kept
         DEF Step, Only, SendInv
    <3> QED BY <1>1, <2>2, <3>1, SendMoves
  <2>5. Accounts'
    BY <1>1, <1>7, AccountsKept
  <2> QED BY <1>2, <2>4, <2>5, Together
<1> QED BY <1>5, <1>6, <1>7 DEF Release

(* Requests come and go; only a PENDING one is approved, by one session.   *)
LEMMA RequestStep ==
    ASSUME IInv, NEW q \in Requests, CreateRequest(q) \/ RejectRequest(q)
    PROVE  IInv'
<1>1. Accounts /\ now \in Nat /\ SendInv /\ AdminInv
  BY Parts
<1>2. Accounts' /\ SendInv' /\ now' \in Nat
  BY <1>1, AccountsKept, SendsKept DEF CreateRequest, RejectRequest
<1>3. AdminInv'
  BY <1>1 DEF CreateRequest, RejectRequest, AdminInv, GrantedOnce, ApprovalsAreOwned, Granting
<1> QED BY <1>2, <1>3, Together

LEMMA OpenRequestStep ==
    ASSUME IInv, NEW a \in Admins, NEW q \in Requests, OpenRequest(a, q)
    PROVE  IInv'
<1>1. Accounts /\ now \in Nat /\ SendInv /\ AdminInv
  BY Parts
<1>2. Accounts' /\ SendInv' /\ now' \in Nat
  BY <1>1, AccountsKept, SendsKept DEF OpenRequest
<1>3. AdminInv'
  BY <1>1 DEF OpenRequest, AdminInv, GrantedOnce, ApprovalsAreOwned, Granting, Tasks
<1> QED BY <1>2, <1>3, Together

LEMMA ApproveStep ==
    ASSUME IInv, NEW a \in Admins, Approve(a)
    PROVE  IInv'
<1>1. Accounts /\ now \in Nat /\ SendInv /\ AdminInv
  BY Parts
<1>2. Accounts' /\ SendInv' /\ now' \in Nat
  BY <1>1, AccountsKept, SendsKept DEF Approve
<1>3. CASE Leave(a) /\ UNCHANGED request
  <2>1. AdminInv'
    BY <1>1, <1>3, AdminLeaves DEF Approve
  <2> QED BY <1>2, <2>1, Together
<1>4. CASE /\ StillPending(job[a])
           /\ request' = [request EXCEPT ![job[a]] = "APPROVED"]
           /\ desk' = [desk EXCEPT ![a] = "approved"]
           /\ UNCHANGED <<job, seen, delta>>
  <2> USE DEF AdminInv
  <2>1. job[a] \in Requests /\ request[job[a]] = "PENDING" /\ granted[job[a]] = 0
    BY <1>1, <1>4 DEF Approve, ApprovalsAreOwned, StillPending, GrantedOnce
  <2>2. UNCHANGED <<granted, changes>>
    BY DEF Approve
  <2>3. GrantedOnce'
    BY <1>1, <1>4, <2>1, <2>2 DEF GrantedOnce
  <2>4. ApprovalsAreOwned'
    BY <1>1, <1>4, <2>1, <2>2 DEF ApprovalsAreOwned, Granting
  <2>5. AdminInv'
    BY <1>1, <1>4, <2>2, <2>3, <2>4 DEF Tasks
  <2> QED BY <1>2, <2>5, Together
<1> QED BY <1>3, <1>4 DEF Approve

(* The reads before a write.                                               *)
LEMMA ReadStep ==
    ASSUME IInv, NEW a \in Admins, ReadWallet(a) \/ \E d \in Deltas : ReadForChange(a, d)
    PROVE  IInv'
<1>1. Accounts /\ now \in Nat /\ SendInv /\ AdminInv
  BY Parts
<1>2. Accounts' /\ SendInv' /\ now' \in Nat
  BY <1>1, AccountsKept, SendsKept DEF ReadWallet, ReadForChange
<1>3. wallet \in Wallet /\ Judged(wallet) \in Wallet
  BY <1>1 DEF Accounts, Judged, Wallet
<1>4. CASE ReadWallet(a)
  <2>1. AdminInv'
    BY <1>1, <1>3, <1>4 DEF ReadWallet, AdminInv, GrantedOnce, ApprovalsAreOwned, Granting, Tasks
  <2> QED BY <1>2, <2>1, Together
<1>5. CASE \E d \in Deltas : ReadForChange(a, d)
  <2>1. AdminInv'
    BY <1>1, <1>3, <1>5 DEF ReadForChange, AdminInv, GrantedOnce, ApprovalsAreOwned, Granting, Tasks
  <2> QED BY <1>2, <2>1, Together
<1> QED BY <1>4, <1>5

(* A package is applied by the session that approved it.                   *)
LEMMA ApplyPackageStep ==
    ASSUME IInv, NEW a \in Admins, ApplyPackage(a)
    PROVE  IInv'
<1> DEFINE q == job[a]
<1>1. Accounts /\ now \in Nat /\ SendInv /\ AdminInv
  BY Parts
<1>2. SendInv' /\ now' \in Nat
  BY <1>1, SendsKept DEF ApplyPackage
<1>3. AdminInv'
  BY <1>1, AdminLeaves DEF ApplyPackage, Granting
<1>4. q \in Requests /\ Credit[q] \in Nat /\ Validity[q] \in Nat /\ seen[a] \in Wallet
  BY <1>1 DEF ApplyPackage, AdminInv, ApprovalsAreOwned, Granting
<1>5. wallet \in Wallet /\ wallet.total = wallet.used + wallet.remaining
      /\ ((\A d \in Deltas : d > 0) => wallet.remaining >= 0)
  BY <1>1 DEF Accounts, Balanced, NoOverdraft
<1>6. /\ Added(wallet, Credit[q]) \in Wallet
      /\ Added(wallet, Credit[q]).total = wallet.total + Credit[q]
      /\ Added(wallet, Credit[q]).used = wallet.used
      /\ Added(wallet, Credit[q]).remaining = wallet.remaining + Credit[q]
  BY <1>4, <1>5, AddedWallet
<1>7. PICK w \in Wallet :
        Post(w) /\ w.total = w.used + w.remaining
        /\ ((\A d \in Deltas : d > 0) => w.remaining >= 0)
  <2>1. CASE Post(Recharged(q))
    <3> DEFINE v == Added(wallet, Credit[q])
    <3>1. v.total = v.used + v.remaining /\ ((\A d \in Deltas : d > 0) => v.remaining >= 0)
      BY <1>4, <1>5, <1>6 DEF Wallet
    <3>2. v \in Wallet /\ Post(v)
      BY <1>6, <2>1 DEF Recharged
    <3> HIDE DEF v
    <3> QED BY <3>1, <3>2
  <2>2. CASE Post(Renewed(seen[a], q))
    <3> DEFINE v == Renewed(seen[a], q)
    <3>1. /\ v \in Wallet /\ v.total = Added(wallet, Credit[q]).total
          /\ v.used = Added(wallet, Credit[q]).used
          /\ v.remaining = Added(wallet, Credit[q]).remaining
      BY <1>4, <1>6 DEF Renewed, Wallet
    <3>2. v.total = v.used + v.remaining /\ ((\A d \in Deltas : d > 0) => v.remaining >= 0)
      BY <1>4, <1>5, <1>6, <3>1 DEF Wallet
    <3> HIDE DEF v
    <3> QED BY <2>2, <3>1, <3>2 DEF v
  <2>3. CASE Post(Purchased(seen[a], q))
    <3> DEFINE v == Purchased(seen[a], q)
    <3>1. v \in Wallet /\ v.total = v.used + v.remaining /\ v.remaining >= 0
      BY <1>4 DEF Purchased, Wallet
    <3> HIDE DEF v
    <3> QED BY <2>3, <3>1 DEF v
  <2> QED BY <2>1, <2>2, <2>3 DEF ApplyPackage
<1>8. Accounts'
  BY <1>7, AccountsPosted
<1> QED BY <1>2, <1>3, <1>8, Together

(* A change by hand is an increment, or the first row.                     *)
LEMMA WriteChangeStep ==
    ASSUME IInv, NEW a \in Admins, WriteChange(a)
    PROVE  IInv'
<1> DEFINE d == delta[a]
<1>1. Accounts /\ now \in Nat /\ SendInv /\ AdminInv
  BY Parts
<1>2. SendInv' /\ now' \in Nat
  BY <1>1, SendsKept DEF WriteChange
<1>3. AdminInv'
  BY <1>1, AdminLeaves DEF WriteChange
<1>4. d \in Int /\ d \in Deltas \cup {0}
  <2>1. d \in Deltas \cup {0}
    BY <1>1 DEF AdminInv
  <2> HIDE DEF d
  <2> QED BY <2>1
<1>5. wallet \in Wallet /\ wallet.total = wallet.used + wallet.remaining
      /\ ((\A e \in Deltas : e > 0) => wallet.remaining >= 0)
  BY <1>1 DEF Accounts, Balanced, NoOverdraft
<1>6. CASE UNCHANGED <<wallet, balance>>
  BY <1>1, <1>2, <1>3, <1>6, AccountsKept, Together
<1>7. CASE Post(Changed(d))
  <2> DEFINE v == Changed(d)
  <2>1. v \in Wallet /\ v.total = v.used + v.remaining /\ v.remaining = wallet.remaining + d
    <3>1. CASE d > 0
      <4>1. v = Added(wallet, d)
        BY <3>1 DEF Changed
      <4>2. v \in Wallet /\ v.total = wallet.total + d /\ v.used = wallet.used
            /\ v.remaining = wallet.remaining + d
        BY <1>4, <1>5, <4>1, AddedWallet
      <4> HIDE DEF v
      <4> QED BY <1>4, <1>5, <4>2 DEF Wallet
    <3>2. CASE ~(d > 0)
      <4>1. -d \in Int /\ v = Spent(wallet, -d)
        BY <1>4, <3>2 DEF Changed
      <4>2. v \in Wallet /\ v.total = wallet.total /\ v.used = wallet.used + (-d)
            /\ v.remaining = wallet.remaining - (-d)
        BY <1>5, <4>1, SpentWallet
      <4> HIDE DEF v
      <4> QED BY <1>4, <1>5, <4>2 DEF Wallet
    <3> QED BY <3>1, <3>2
  <2>2. (\A e \in Deltas : e > 0) => v.remaining >= 0
    <3> HIDE DEF v
    <3> QED BY <1>4, <1>5, <2>1 DEF Wallet
  <2> HIDE DEF v
  <2>3. Accounts'
    BY <1>7, <2>1, <2>2, AccountsPosted DEF v
  <2> QED BY <1>2, <1>3, <2>3, Together
<1>8. CASE Post([status |-> "ACTIVE", expiry |-> now + GrantDays,
                 total |-> d, used |-> 0, remaining |-> d])
  <2> DEFINE v == [status |-> "ACTIVE", expiry |-> now + GrantDays,
                   total |-> d, used |-> 0, remaining |-> d]
  <2>1. v \in Wallet /\ v.total = v.used + v.remaining
        /\ ((\A e \in Deltas : e > 0) => v.remaining >= 0)
    BY <1>1, <1>4 DEF Wallet
  <2> HIDE DEF v
  <2>2. Accounts'
    BY <1>8, <2>1, AccountsPosted DEF v
  <2> QED BY <1>2, <1>3, <2>2, Together
<1> QED BY <1>6, <1>7, <1>8 DEF WriteChange

LEMMA FailStep ==
    ASSUME IInv, NEW a \in Admins, Fail(a)
    PROVE  IInv'
<1>1. Accounts /\ now \in Nat /\ SendInv /\ AdminInv
  BY Parts
<1>2. Accounts' /\ SendInv' /\ now' \in Nat
  BY <1>1, AccountsKept, SendsKept DEF Fail
<1>3. AdminInv'
  BY <1>1, AdminLeaves DEF Fail
<1> QED BY <1>2, <1>3, Together

(* The clock and the hourly job change no credit.                          *)
LEMMA TimeStep ==
    ASSUME IInv, Tick \/ SyncExpired
    PROVE  IInv'
<1>1. Accounts /\ now \in Nat /\ SendInv /\ AdminInv
  BY Parts
<1>2. SendInv' /\ AdminInv' /\ now' \in Nat
  BY <1>1, SendsKept, AdminsKept DEF Tick, SyncExpired
<1>3. Accounts'
  BY <1>1 DEF Tick, SyncExpired, Accounts, Balanced, LedgerAgrees, NoOverdraft, Wallet
<1> QED BY <1>2, <1>3, Together

---------------------------------------------------------------------------
(* The invariant holds for every price list, every number of concurrent    *)
(* sends and sessions, and every combination of faults (message billing).  *)
THEOREM Invariance == Spec => []IInv
<1>1. Init => IInv
  BY InitIInv
<1>2. IInv /\ [Next]_vars => IInv'
  <2> SUFFICES ASSUME IInv, [Next]_vars PROVE IInv'
    OBVIOUS
  <2>1. CASE \E s \in Sends : Send(s)
    BY <2>1, CheckStep, ChargeStep, CallProviderStep, FinalizeStep, DieStep, ReleaseStep
       DEF Send
  <2>2. CASE \E q \in Requests : CreateRequest(q) \/ RejectRequest(q)
    BY <2>2, RequestStep
  <2>3. CASE \E a \in Admins : Review(a)
    BY <2>3, OpenRequestStep, ApproveStep, ReadStep, ApplyPackageStep, WriteChangeStep, FailStep
       DEF Review
  <2>4. CASE Tick \/ SyncExpired
    BY <2>4, TimeStep
  <2>5. CASE UNCHANGED vars
    BY <2>5, Parts, AccountsKept, SendsKept, AdminsKept, Together DEF vars
  <2> QED BY <2>1, <2>2, <2>3, <2>4, <2>5 DEF Next
<1> QED BY <1>1, <1>2, PTL DEF Spec

(* Type correctness of wallet, sends and reviews (billing).                *)
THEOREM TypesHold == Spec => []TypeOK
BY Invariance, PTL DEF IInv

(* The last ledger row always says what the wallet holds                   *)
(* (billing.repository.ts:62).                                             *)
THEOREM LedgerNeverDiverges == Spec => []LedgerAgrees
BY Invariance, PTL DEF IInv

(* Total credit is what was used and what remains.                         *)
THEOREM ColumnsBalance == Spec => []Balanced
BY Invariance, PTL DEF IInv

(* However many sends race, and whatever fails, no credit is spent that    *)
(* was not there (tryDeductCredit, chargeForSend).                         *)
THEOREM NeverOverdrawn == Spec => []NoOverdraft
BY Invariance, PTL DEF IInv

(* However many sessions review a request, it is granted once at most.     *)
THEOREM GrantsAreUnique == Spec => []GrantedOnce
BY Invariance, PTL DEF IInv

(* The usage log tells what happened to the credit and to the message.     *)
THEOREM UsageTellsTheTruth == Spec => []UsageIsTrue
BY Invariance, PTL DEF IInv

(* A reservation is given back once at most, unless the commit of the first *)
(* release goes unanswered.                                                 *)
THEOREM RefundsAreUnique == Spec => []RefundedOnce
BY Invariance, PTL DEF IInv

(* Only a message whose acceptance was not learnt or not recorded is both   *)
(* delivered and given back.                                                *)
THEOREM RefundsAreForRejections == Spec => []RefundedWasRejected
BY Invariance, PTL DEF IInv

(* The credit of an undelivered message is back, whatever failed, except    *)
(* the release in the catch itself or the answer to the charge.             *)
THEOREM NothingSilentlyDeducted == Spec => []NeverSilentlyDeducted
BY Invariance, PTL DEF IInv

---------------------------------------------------------------------------
(* What the exceptions of the properties cost: without the fault they name *)
(* the property holds without them.                                        *)

(* Only faults that may happen are met. *)
MishapsHappen == \A s \in Sends : \A m \in mishaps[s] : m[2] \in Faults

LEMMA OnlyFaults == Spec => []MishapsHappen
<1>1. Init => MishapsHappen
  BY DEF Init, MishapsHappen
<1>2. TypeOK /\ MishapsHappen /\ [Next]_vars => MishapsHappen'
  <2> SUFFICES ASSUME TypeOK, MishapsHappen, [Next]_vars PROVE MishapsHappen'
    OBVIOUS
  <2>1. ASSUME NEW s \in Sends, NEW f, Meets(s, f)
        PROVE  MishapsHappen'
    <3>1. mishaps' = [mishaps EXCEPT ![s] = @ \cup {<<at[s], f>>}] /\ f \in Faults
      BY <2>1 DEF Meets
    <3> QED BY <3>1 DEF MishapsHappen, TypeOK
  <2>2. CASE UNCHANGED mishaps
    BY <2>2 DEF MishapsHappen
  <2>3. CASE \E s \in Sends : Send(s)
    BY <2>1, <2>2, <2>3 DEF Send, Check, Charge, CallProvider, Finalize, Release, Die, Smoothly
  <2>4. CASE ~\E s \in Sends : Send(s)
    <3>1. UNCHANGED mishaps
      BY <2>4 DEF Next, CreateRequest, RejectRequest, Review, OpenRequest, Approve, ReadWallet,
         ApplyPackage, ReadForChange, WriteChange, Fail, Tick, SyncExpired, vars
    <3> QED BY <2>2, <3>1
  <2> QED BY <2>3, <2>4
<1> QED BY <1>1, <1>2, TypesHold, PTL DEF Spec

(* When no commit goes unanswered, a reservation is never given back twice *)
(* (releaseSendFailure), whatever else fails.                              *)
THEOREM RefundedOnceStrictly ==
    "commit" \notin Faults => (Spec => [](\A s \in Sends : refunds[s] <= 1))
<1> SUFFICES ASSUME "commit" \notin Faults PROVE Spec => [](\A s \in Sends : refunds[s] <= 1)
  OBVIOUS
<1>1. RefundedOnce /\ MishapsHappen => \A s \in Sends : refunds[s] <= 1
  BY DEF RefundedOnce, MishapsHappen
<1> QED BY <1>1, RefundsAreUnique, OnlyFaults, PTL

(* When the provider's answers arrive and the database works, nobody gets  *)
(* a message and the credit for it (finalizeSendSuccess,                   *)
(* releaseSendFailure), although processes die and commits go unanswered.  *)
THEOREM RefundedOrDelivered ==
    Faults \cap {"db", "reply"} = {} =>
        (Spec => [](\A s \in Sends : ~(refunds[s] > 0 /\ accepted[s])))
<1> SUFFICES ASSUME Faults \cap {"db", "reply"} = {}
             PROVE  Spec => [](\A s \in Sends : ~(refunds[s] > 0 /\ accepted[s]))
  OBVIOUS
<1>1. RefundedWasRejected /\ MishapsHappen => \A s \in Sends : ~(refunds[s] > 0 /\ accepted[s])
  BY DEF RefundedWasRejected, MishapsHappen, AcceptanceUnknown
<1> QED BY <1>1, RefundsAreForRejections, OnlyFaults, PTL

(* When the database works and its answers arrive, a send that ended       *)
(* undelivered has its credit back (billing.service.ts:233).               *)
THEOREM NothingDeducted ==
    Faults \cap {"db", "commit"} = {} =>
        (Spec => [](\A s \in Sends :
                      at[s] = "done" /\ ~accepted[s] => usage[s] = "none" \/ refunds[s] > 0))
<1> SUFFICES ASSUME Faults \cap {"db", "commit"} = {}
             PROVE  Spec => [](\A s \in Sends :
                      at[s] = "done" /\ ~accepted[s] => usage[s] = "none" \/ refunds[s] > 0)
  OBVIOUS
<1>1. NeverSilentlyDeducted /\ MishapsHappen
        => \A s \in Sends : at[s] = "done" /\ ~accepted[s] => usage[s] = "none" \/ refunds[s] > 0
  BY DEF NeverSilentlyDeducted, MishapsHappen, NotReleased
<1> QED BY <1>1, NothingSilentlyDeducted, OnlyFaults, PTL

---------------------------------------------------------------------------
(* NeverLost, which two overlapping sessions break, holds when the super   *)
(* admins work one after the other.                                        *)

(* The wallet a session is about to renew is the one it read: sends change *)
(* neither status nor expiry, and time only ever ends it.                  *)
ReadIsFresh ==
    \A a \in Admins : desk[a] = "applying" /\ Active(wallet) =>
        seen[a].status = "ACTIVE" /\ seen[a].expiry = wallet.expiry

LEMMA WalletsDates ==
    ASSUME wallet \in Wallet, NEW n \in Int
    PROVE  Spent(wallet, n).status = wallet.status /\ Spent(wallet, n).expiry = wallet.expiry
BY DEF Spent, Wallet

LEMMA SendKeepsDates ==
    ASSUME TypeOK, NEW s \in Sends, Send(s)
    PROVE  wallet'.status = wallet.status /\ wallet'.expiry = wallet.expiry /\ now' = now
           /\ UNCHANGED <<desk, seen>>
<1>1. wallet \in Wallet /\ Units[s] \in Int /\ -Units[s] \in Int
  BY DEF TypeOK
<1>2. wallet' \in {wallet, Spent(wallet, Units[s]), Spent(wallet, -Units[s])}
  BY DEF Send, Check, Charge, CallProvider, Finalize, Release, Die, Reserve, Refund, Post
<1>3. UNCHANGED <<now, desk, seen>>
  BY DEF Send, Check, Charge, CallProvider, Finalize, Release, Die
<1> QED BY <1>1, <1>2, <1>3, WalletsDates

LEMMA ReadsStayFresh ==
    ASSUME \A a, b \in Admins : a = b, TypeOK, ReadIsFresh, [Next]_vars
    PROVE  ReadIsFresh'
<1> SUFFICES ASSUME NEW a \in Admins, desk'[a] = "applying", Active(wallet)'
             PROVE  seen'[a].status = "ACTIVE" /\ seen'[a].expiry = wallet'.expiry
  BY DEF ReadIsFresh
<1>1. wallet \in Wallet /\ now \in Nat /\ desk \in [Admins -> Tasks] /\ seen \in [Admins -> Wallet]
  BY DEF TypeOK
<1>2. CASE \E s \in Sends : Send(s)
  BY <1>2, SendKeepsDates DEF ReadIsFresh, Active
<1>3. CASE \E q \in Requests : CreateRequest(q) \/ RejectRequest(q)
  BY <1>3 DEF CreateRequest, RejectRequest, ReadIsFresh, Active
<1>4. CASE Tick \/ SyncExpired
  <2>1. CASE Tick
    BY <1>1, <2>1 DEF Tick, ReadIsFresh, Active, Wallet
  <2>2. CASE SyncExpired
    BY <1>1, <2>2 DEF SyncExpired, Active, Wallet
  <2> QED BY <1>4, <2>1, <2>2
<1>5. CASE \E b \in Admins : Review(b)
  <2>1. Review(a)
    BY <1>5
  <2>2. CASE ReadWallet(a)
    <3>1. seen'[a] = Judged(wallet) /\ wallet' = wallet /\ now' = now
      BY <1>1, <2>2 DEF ReadWallet
    <3> QED BY <3>1 DEF Judged, Active
  <2>3. ASSUME ~ReadWallet(a)
        PROVE  desk'[a] # "applying"
    BY <1>1, <2>1, <2>3 DEF Review, OpenRequest, Approve, ApplyPackage, ReadForChange, WriteChange,
       Fail, Leave
  <2> QED BY <2>2, <2>3
<1>6. CASE UNCHANGED vars
  BY <1>6 DEF vars, ReadIsFresh, Active
<1> QED BY <1>2, <1>3, <1>4, <1>5, <1>6 DEF Next

LEMMA FreshWrites ==
    ASSUME IInv, ReadIsFresh, [Next]_vars,
           NEW q \in Requests, granted'[q] > granted[q], Active(wallet)
    PROVE  /\ wallet'.remaining = wallet.remaining + Credit[q]
           /\ wallet'.expiry = wallet.expiry + IF Type[q] = "PACKAGE" THEN Validity[q] ELSE 0
<1>1. /\ wallet \in Wallet /\ granted \in [Requests -> Nat]
      /\ Credit[q] \in Int /\ Validity[q] \in Nat /\ Type[q] \in {"PACKAGE", "RECHARGE"}
  BY DEF IInv, TypeOK
<1>2. granted' # granted
  BY <1>1
<1>3. PICK a \in Admins : ApplyPackage(a)
  BY <1>2 DEF Next, Send, Check, Charge, CallProvider, Finalize, Release, Die, Review, OpenRequest,
     Approve, ReadWallet, ReadForChange, WriteChange, Fail, CreateRequest, RejectRequest, Tick,
     SyncExpired, vars
<1>4. job[a] = q
  BY <1>1, <1>3 DEF ApplyPackage
<1>5. seen[a].status = "ACTIVE" /\ seen[a].expiry = wallet.expiry
  BY <1>3 DEF ApplyPackage, ReadIsFresh
<1> DEFINE more == Added(wallet, Credit[q])
<1>6. more \in Wallet /\ more.remaining = wallet.remaining + Credit[q] /\ more.expiry = wallet.expiry
  <2>1. more \in Wallet /\ more.remaining = wallet.remaining + Credit[q]
    BY <1>1, AddedWallet
  <2>2. more.expiry = wallet.expiry
    BY <1>1 DEF Added, Wallet
  <2> QED BY <2>1, <2>2
<1>7. CASE Type[q] = "RECHARGE"
  <2>1. wallet' = more
    BY <1>3, <1>4, <1>7 DEF ApplyPackage, Recharged, Post
  <2> HIDE DEF more
  <2>2. wallet.expiry + 0 = wallet.expiry
    BY <1>1 DEF Wallet
  <2> QED BY <1>6, <1>7, <2>1, <2>2
<1>8. CASE Type[q] = "PACKAGE"
  <2>1. wallet' = [more EXCEPT !.expiry = wallet.expiry + Validity[q]]
    BY <1>3, <1>4, <1>5, <1>8 DEF ApplyPackage, Renewed, Post
  <2> HIDE DEF more
  <2> QED BY <1>6, <1>8, <2>1 DEF Wallet
<1> QED BY <1>1, <1>7, <1>8

(* applyPackageToSubscription "unused validity/credit is never lost", for  *)
(* one session at a time, although sends and the clock race with it.       *)
THEOREM NeverLostAlone == (\A a, b \in Admins : a = b) => (Spec => NeverLost)
<1> SUFFICES ASSUME \A a, b \in Admins : a = b PROVE Spec => NeverLost
  OBVIOUS
<1>1. Init => ReadIsFresh
  BY DEF Init, ReadIsFresh
<1>2. TypeOK /\ ReadIsFresh /\ [Next]_vars => ReadIsFresh'
  BY ReadsStayFresh
<1>3. IInv /\ ReadIsFresh /\ [Next]_vars
        => [\A q \in Requests :
              granted'[q] > granted[q] /\ Active(wallet) =>
                 /\ wallet'.remaining = wallet.remaining + Credit[q]
                 /\ wallet'.expiry =
                      wallet.expiry + IF Type[q] = "PACKAGE" THEN Validity[q] ELSE 0]_vars
  BY FreshWrites
<1> QED BY <1>1, <1>2, <1>3, Invariance, TypesHold, PTL DEF Spec, NeverLost
=============================================================================
