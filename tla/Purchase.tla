------------------------------ MODULE Purchase ------------------------------
(***************************************************************************)
(* backend/src/purchase/purchase.service.ts with the services it calls:    *)
(* a purchase is initiated, its contract signed, its QPay invoice created, *)
(* and QPay's webhook completes it, credits the wallet (Wallet) and brings *)
(* the membership level up to date (Membership).                           *)
(*                                                                         *)
(* Every handler is a sequence of awaits; a step below is what it does     *)
(* between two of them.  Nothing locks a purchase, so handlers of one      *)
(* purchase interleave, fail at any await and vanish in a crash.  QPay is  *)
(* outside the repository: it issues invoices, takes payments and delivers *)
(* its callback until a delivery is answered.                              *)
(***************************************************************************)
EXTENDS Integers, Sequences, Functions

CONSTANTS
    Users,       \* user ids, KYC verified
    Slots,       \* request handlers that can be in flight at the same time
    Refs,        \* reference ids of wallet transactions
    Purchases,   \* purchase ids
    Invoices,    \* QPay's invoice ids
    Grams,       \* amounts users ask for, in half grams
    Levels, NORMAL, Thresholds,  \* membership levels and their minGrams
    Nil,
    MaxCalls,    \* bound: how many wallet calls are ever started
    MaxFaults    \* bound: how many failures and crashes happen

ASSUME PurchaseAssumption ==
    /\ Purchases \subseteq Refs
    /\ Grams \subseteq Int
    /\ NORMAL \in Levels
    /\ Nil \notin Users \cup Refs \cup Invoices
    /\ MaxCalls \in Nat
    /\ MaxFaults \in Nat

VARIABLES
    purchase,   \* purchase[p]: the Purchase row
    job         \* job[t]: the purchase handler running in slot t

(* The wallet service (see Wallet) and the membership service.             *)
VARIABLES opened, wallet, ledger, call, calls, credited, debited, crossed, contended, torn
VARIABLES level, check

(* QPay.                                                                   *)
VARIABLES
    invoiceOf,  \* invoiceOf[i]: the purchase invoice i was issued for
    shown,      \* invoices whose QR code reached the user
    paid,       \* invoices the user has paid
    answered    \* invoices whose callback was answered with success

(* History variables: no counterpart in the code.                          *)
VARIABLES
    creditedFor,  \* creditedFor[p]: addGrams writes made for purchase p
    raced,        \* purchases with two sign or invoice requests in flight at once
    overlapped,   \* purchases with two webhooks in flight at once
    disturbed,    \* users with a webhook that overlapped, was repeated or broke off
    faults        \* failures and crashes so far, for MaxFaults

W == INSTANCE Wallet
M == INSTANCE Membership WITH
         Editors <- {}, Defaults <- <<>>, config <- Thresholds, edits <- <<>>,
         total <- [u \in Users |-> wallet[u].purchased]

walletVars == <<opened, wallet, ledger, call, calls, credited, debited, crossed, contended, torn>>
memberVars == <<level, check>>
qpayVars == <<invoiceOf, shown, paid, answered>>
historyVars == <<creditedFor, raced, overlapped, disturbed, faults>>
vars == <<purchase, job, walletVars, memberVars, qpayVars, historyVars>>

Status == {"NONE", "PENDING", "CONTRACT_SIGNED", "PAYMENT_PENDING", "COMPLETED"}
PurchaseRow == [status: Status, user: Users \cup {Nil}, grams: Int, contract: BOOLEAN,
                invoice: Invoices \cup {Nil}, qpay: {"PENDING", "PAID"}]
NoPurchase == [status |-> "NONE", user |-> Nil, grams |-> 0, contract |-> FALSE,
               invoice |-> Nil, qpay |-> "PENDING"]

JobPc == {"idle", "signing", "invoicing", "invoiced", "checking", "unpaid", "paid",
          "crediting", "levelling"}
Job == [pc: JobPc, p: Purchases \cup {Nil}, inv: Invoices \cup {Nil}]
IdleJob == [pc |-> "idle", p |-> Nil, inv |-> Nil]

Goto(t, pc) == job' = [job EXCEPT ![t].pc = pc]
EndJob(t) == job' = [job EXCEPT ![t] = IdleJob]

(* Sign and invoice requests past their status check; webhooks past their  *)
(* lookup; webhooks that found a payment of u.                             *)
Preparing(p) == {t \in Slots : job[t].p = p /\ job[t].pc \in {"signing", "invoicing", "invoiced"}}
Confirming(p) == {t \in Slots : job[t].p = p /\
                      job[t].pc \in {"checking", "unpaid", "paid", "crediting", "levelling"}}
Settling(u) == {t \in Slots : job[t].pc \in {"paid", "crediting", "levelling"}
                                /\ purchase[job[t].p].user = u}
-----------------------------------------------------------------------------
Init ==
    /\ purchase = [p \in Purchases |-> NoPurchase]
    /\ job = [t \in Slots |-> IdleJob]
    /\ W!Init
    /\ M!ServiceInit
    /\ invoiceOf = [i \in Invoices |-> Nil]
    /\ shown = {} /\ paid = {} /\ answered = {}
    /\ creditedFor = [p \in Purchases |-> 0]
    /\ raced = {} /\ overlapped = {} /\ disturbed = {}
    /\ faults = 0

(* AuthService.register creates the wallet of u, if it gets that far.      *)
OpenWallet(u) ==
    /\ W!CreateWallet(u)
    /\ UNCHANGED <<purchase, job, memberVars, qpayVars, historyVars>>

(* validatePurchaseAmount: half a gram to ten grams in steps of half a gram. *)
ValidAmount(g) == g \in 1..20

(* The insert that ends initiatePurchase.                                  *)
InitiatePurchase(p, u, g) ==
    /\ purchase[p].status = "NONE"
    /\ ValidAmount(g)
    /\ purchase' = [purchase EXCEPT ![p] =
                     [status |-> "PENDING", user |-> u, grams |-> g, contract |-> FALSE,
                      invoice |-> Nil, qpay |-> "PENDING"]]
    /\ UNCHANGED <<job, walletVars, memberVars, qpayVars, historyVars>>

(* A sign or invoice request passes its status check and goes on to the    *)
(* contract's files or to QPay.                                            *)
Prepare(t, p, status, pc) ==
    /\ job[t].pc = "idle"
    /\ purchase[p].status = status
    /\ job' = [job EXCEPT ![t] = [pc |-> pc, p |-> p, inv |-> Nil]]
    /\ raced' = IF Preparing(p) # {} THEN raced \cup {p} ELSE raced
    /\ UNCHANGED <<purchase, walletVars, memberVars, qpayVars,
                   creditedFor, overlapped, disturbed, faults>>

SignContract(t, p) == Prepare(t, p, "PENDING", "signing")

(* The PDF and the QR code are on disk; the row gets them.                 *)
WriteContract(t) ==
    /\ job[t].pc = "signing"
    /\ purchase' = [purchase EXCEPT ![job[t].p].contract = TRUE,
                                    ![job[t].p].status = "CONTRACT_SIGNED"]
    /\ EndJob(t)
    /\ UNCHANGED <<walletVars, memberVars, qpayVars, historyVars>>

(* MUTANT of CreateQpayInvoice: the contract need not be signed.            *)
CreateQpayInvoiceUnsigned(t, p) ==
    \/ Prepare(t, p, "PENDING", "invoicing")
    \/ Prepare(t, p, "CONTRACT_SIGNED", "invoicing")

(* MUTANT of CreateQpayInvoice: a purchase that waits for its payment can   *)
(* be given another invoice.                                               *)
CreateQpayInvoiceAgain(t, p) ==
    \/ Prepare(t, p, "CONTRACT_SIGNED", "invoicing")
    \/ Prepare(t, p, "PAYMENT_PENDING", "invoicing")

CreateQpayInvoice(t, p) == Prepare(t, p, "CONTRACT_SIGNED", "invoicing")

(* QPay issues an invoice for the purchase; its answer may still be lost.  *)
IssueInvoice(t) ==
    /\ job[t].pc = "invoicing"
    /\ \E i \in Invoices :
          /\ invoiceOf[i] = Nil
          /\ invoiceOf' = [invoiceOf EXCEPT ![i] = job[t].p]
          /\ job' = [job EXCEPT ![t] = [pc |-> "invoiced", p |-> job[t].p, inv |-> i]]
    /\ UNCHANGED <<purchase, walletVars, memberVars, shown, paid, answered, historyVars>>

(* The row gets the invoice and the response takes its QR code to the user. *)
WriteInvoice(t) ==
    /\ job[t].pc = "invoiced"
    /\ purchase' = [purchase EXCEPT ![job[t].p].invoice = job[t].inv,
                                    ![job[t].p].status = "PAYMENT_PENDING"]
    /\ shown' = shown \cup {job[t].inv}
    /\ EndJob(t)
    /\ UNCHANGED <<walletVars, memberVars, invoiceOf, paid, answered, historyVars>>

(* The user pays the invoice in a banking app.                             *)
PayInvoice(i) ==
    /\ i \in shown \ paid
    /\ paid' = paid \cup {i}
    /\ UNCHANGED <<purchase, job, walletVars, memberVars, invoiceOf, shown, answered, historyVars>>

(* MUTANT of HandleQpayWebhook: a COMPLETED purchase is not looked at again. *)
HandleQpayWebhookOnce(t, p, i) ==
    /\ job[t].pc = "idle"
    /\ i \notin answered
    /\ purchase[p].invoice = i /\ purchase[p].status # "COMPLETED"
    /\ job' = [job EXCEPT ![t] = [pc |-> "checking", p |-> p, inv |-> i]]
    /\ overlapped' = IF Confirming(p) # {} THEN overlapped \cup {p} ELSE overlapped
    /\ UNCHANGED <<purchase, walletVars, memberVars, qpayVars,
                   creditedFor, raced, disturbed, faults>>

(* A callback for invoice i that is the invoice of a purchase; for any     *)
(* other the answer is 404.  It may arrive before the payment is visible,  *)
(* again while an earlier delivery is still running, and again after it    *)
(* when that was not answered.                                             *)
HandleQpayWebhook(t, p, i) ==
    /\ job[t].pc = "idle"
    /\ i \notin answered
    /\ purchase[p].invoice = i
    /\ job' = [job EXCEPT ![t] = [pc |-> "checking", p |-> p, inv |-> i]]
    /\ overlapped' = IF Confirming(p) # {} THEN overlapped \cup {p} ELSE overlapped
    /\ UNCHANGED <<purchase, walletVars, memberVars, qpayVars,
                   creditedFor, raced, disturbed, faults>>

(* MUTANT of CheckPayment: any answer of QPay counts as paid.               *)
CheckPaymentAlways(t) ==
    LET p == job[t].p
        u == purchase[p].user
    IN  /\ job[t].pc = "checking"
        /\ Goto(t, "paid")
        /\ disturbed' = IF purchase[p].status = "COMPLETED" \/ Settling(u) # {}
                        THEN disturbed \cup {u} ELSE disturbed
        /\ UNCHANGED <<purchase, walletVars, memberVars, qpayVars,
                       creditedFor, raced, overlapped, faults>>

(* checkPayment.  The user is disturbed when the purchase is already       *)
(* settled or another payment of the user is being settled.                *)
CheckPayment(t) ==
    LET p == job[t].p
        u == purchase[p].user
        isPaid == job[t].inv \in paid
    IN  /\ job[t].pc = "checking"
        /\ Goto(t, IF isPaid THEN "paid" ELSE "unpaid")
        /\ disturbed' = IF isPaid /\ (purchase[p].status = "COMPLETED" \/ Settling(u) # {})
                        THEN disturbed \cup {u} ELSE disturbed
        /\ UNCHANGED <<purchase, walletVars, memberVars, qpayVars,
                       creditedFor, raced, overlapped, faults>>

(* MUTANT of WriteUnpaid: the status goes back to waiting as well.          *)
WriteUnpaidReset(t) ==
    /\ job[t].pc = "unpaid"
    /\ purchase' = [purchase EXCEPT ![job[t].p].qpay = "PENDING",
                                    ![job[t].p].status = "PAYMENT_PENDING"]
    /\ EndJob(t)
    /\ UNCHANGED <<walletVars, memberVars, qpayVars, historyVars>>

WriteUnpaid(t) ==
    /\ job[t].pc = "unpaid"
    /\ purchase' = [purchase EXCEPT ![job[t].p].qpay = "PENDING"]
    /\ EndJob(t)
    /\ UNCHANGED <<walletVars, memberVars, qpayVars, historyVars>>

(* MUTANT of WritePaid: a status the schema does not have.                  *)
WritePaidStatus(t) ==
    LET p == job[t].p IN
    /\ job[t].pc = "paid"
    /\ purchase' = [purchase EXCEPT ![p].qpay = "PAID", ![p].status = "PAID"]
    /\ W!AddGrams(t, purchase[p].user, purchase[p].grams, p)
    /\ Goto(t, "crediting")
    /\ UNCHANGED <<memberVars, qpayVars, historyVars>>

(* MUTANT of WritePaid: qpayStatus is forgotten.                            *)
WritePaidUnmarked(t) ==
    LET p == job[t].p IN
    /\ job[t].pc = "paid"
    /\ purchase' = [purchase EXCEPT ![p].status = "COMPLETED"]
    /\ W!AddGrams(t, purchase[p].user, purchase[p].grams, p)
    /\ Goto(t, "crediting")
    /\ UNCHANGED <<memberVars, qpayVars, historyVars>>

(* MUTANT of WritePaid: the update that completes the purchase adds the     *)
(* grams to the wallet row, without addGrams and its ledger.               *)
WritePaidInline(t) ==
    LET p == job[t].p IN
    /\ job[t].pc = "paid"
    /\ purchase' = [purchase EXCEPT ![p].qpay = "PAID", ![p].status = "COMPLETED"]
    /\ wallet' = [wallet EXCEPT ![purchase[p].user].balance = @ + purchase[p].grams,
                                ![purchase[p].user].purchased = @ + purchase[p].grams]
    /\ EndJob(t)
    /\ UNCHANGED <<opened, ledger, call, calls, credited, debited, crossed, contended, torn,
                   memberVars, qpayVars, historyVars>>

(* The purchase is COMPLETED and only then addGrams starts.                *)
WritePaid(t) ==
    LET p == job[t].p IN
    /\ job[t].pc = "paid"
    /\ purchase' = [purchase EXCEPT ![p].qpay = "PAID", ![p].status = "COMPLETED"]
    /\ W!AddGrams(t, purchase[p].user, purchase[p].grams, p)
    /\ Goto(t, "crediting")
    /\ UNCHANGED <<memberVars, qpayVars, historyVars>>

(* The steps of addGrams.                                                  *)
Credit(t) ==
    /\ job[t].pc = "crediting"
    /\ W!Step(t)
    /\ creditedFor' = IF W!WriteAdd(t) THEN [creditedFor EXCEPT ![job[t].p] = @ + 1]
                      ELSE creditedFor
    /\ UNCHANGED <<purchase, job, memberVars, qpayVars, raced, overlapped, disturbed, faults>>

(* MUTANT of Credited: the level is not looked at.                          *)
CreditedUnlevelled(t) ==
    /\ job[t].pc = "crediting"
    /\ call[t].pc = "done"
    /\ W!Return(t)
    /\ answered' = answered \cup {job[t].inv}
    /\ EndJob(t)
    /\ UNCHANGED <<purchase, memberVars, invoiceOf, shown, paid, historyVars>>

(* addGrams returned: on to checkAndUpdateMembership.                      *)
Credited(t) ==
    /\ job[t].pc = "crediting"
    /\ call[t].pc = "done"
    /\ W!Return(t)
    /\ M!StartCheck(t, purchase[job[t].p].user)
    /\ Goto(t, "levelling")
    /\ UNCHANGED <<purchase, qpayVars, historyVars>>

(* The steps of checkAndUpdateMembership.                                  *)
Level(t) ==
    /\ job[t].pc = "levelling"
    /\ M!StepCheck(t)
    /\ UNCHANGED <<purchase, job, walletVars, qpayVars, historyVars>>

(* The webhook is answered with success.                                   *)
Answer(t) ==
    /\ job[t].pc = "levelling"
    /\ check[t].pc = "done"
    /\ M!ReturnCheck(t)
    /\ answered' = answered \cup {job[t].inv}
    /\ EndJob(t)
    /\ UNCHANGED <<purchase, walletVars, invoiceOf, shown, paid, historyVars>>

Fault == faults < MaxFaults /\ faults' = faults + 1

(* An await of the handler itself rejects (database, files, QPay's login   *)
(* or request), or QPay does not get the answer.  What the await did may   *)
(* have been done: then the step was taken and the next one is not.        *)
FailJob(t) ==
    /\ Fault
    /\ \/ /\ job[t].pc \in {"signing", "invoicing", "invoiced", "checking", "unpaid", "paid"}
          /\ UNCHANGED <<walletVars, memberVars>>
       \/ /\ job[t].pc = "levelling" /\ check[t].pc = "done"
          /\ M!ReturnCheck(t)
          /\ UNCHANGED walletVars
    /\ disturbed' = IF job[t].pc \in {"paid", "levelling"}
                    THEN disturbed \cup {purchase[job[t].p].user} ELSE disturbed
    /\ EndJob(t)
    /\ UNCHANGED <<purchase, qpayVars, creditedFor, raced, overlapped>>

(* The invoice is stored but the response with its QR code is lost.        *)
LoseInvoice(t) ==
    /\ Fault
    /\ job[t].pc = "invoiced"
    /\ purchase' = [purchase EXCEPT ![job[t].p].invoice = job[t].inv,
                                    ![job[t].p].status = "PAYMENT_PENDING"]
    /\ EndJob(t)
    /\ UNCHANGED <<walletVars, memberVars, qpayVars, creditedFor, raced, overlapped, disturbed>>

(* A database call of addGrams or of checkAndUpdateMembership rejects ...  *)
FailService(t) ==
    /\ Fault
    /\ \/ job[t].pc = "crediting" /\ W!Fail(t) /\ UNCHANGED memberVars
       \/ job[t].pc = "levelling" /\ M!FailCheck(t) /\ UNCHANGED walletVars
    /\ disturbed' = disturbed \cup {purchase[job[t].p].user}
    /\ UNCHANGED <<purchase, job, qpayVars, creditedFor, raced, overlapped>>

(* ... and the webhook fails with it.                                      *)
Abandon(t) ==
    /\ \/ job[t].pc = "crediting" /\ call[t].pc = "failed" /\ W!Return(t) /\ UNCHANGED memberVars
       \/ job[t].pc = "levelling" /\ check[t].pc = "failed" /\ M!ReturnCheck(t)
                                  /\ UNCHANGED walletVars
    /\ EndJob(t)
    /\ UNCHANGED <<purchase, qpayVars, historyVars>>

(* The backend process dies and is restarted.                              *)
Crash ==
    /\ Fault
    /\ W!Crash
    /\ M!ForgetChecks /\ UNCHANGED level
    /\ job' = [t \in Slots |-> IdleJob]
    /\ disturbed' = disturbed \cup {u \in Users : Settling(u) # {}}
    /\ UNCHANGED <<purchase, qpayVars, creditedFor, raced, overlapped>>

(* One step of the handler in slot t.                                      *)
Run(t) ==
    \/ WriteContract(t) \/ IssueInvoice(t) \/ WriteInvoice(t)
    \/ CheckPayment(t) \/ WriteUnpaid(t) \/ WritePaid(t)
    \/ Credit(t) \/ Credited(t) \/ Level(t) \/ Answer(t) \/ Abandon(t)

Deliver(i) == \E t \in Slots, p \in Purchases : HandleQpayWebhook(t, p, i)

Next ==
    \/ \E u \in Users : OpenWallet(u)
    \/ \E p \in Purchases, u \in Users, g \in Grams : InitiatePurchase(p, u, g)
    \/ \E t \in Slots, p \in Purchases : SignContract(t, p) \/ CreateQpayInvoice(t, p)
    \/ \E i \in Invoices : PayInvoice(i) \/ Deliver(i)
    \/ \E t \in Slots : Run(t) \/ FailJob(t) \/ LoseInvoice(t) \/ FailService(t)
    \/ Crash

Spec == Init /\ [][Next]_vars

(* The process goes on running its handlers, and QPay goes on delivering   *)
(* the callback of an invoice that was paid until it is answered.          *)
Fairness ==
    /\ \A t \in Slots : WF_vars(Run(t))
    /\ \A i \in Invoices : SF_vars(i \in paid /\ Deliver(i))

FairSpec == Spec /\ Fairness
-----------------------------------------------------------------------------
TypeOK ==
    /\ purchase \in [Purchases -> PurchaseRow]
    /\ job \in [Slots -> Job]
    /\ W!TypeOK
    /\ M!ServiceTypeOK
    /\ invoiceOf \in [Invoices -> Purchases \cup {Nil}]
    /\ shown \in SUBSET Invoices /\ paid \in SUBSET Invoices /\ answered \in SUBSET Invoices
    /\ creditedFor \in [Purchases -> Nat]
    /\ raced \in SUBSET Purchases /\ overlapped \in SUBSET Purchases
    /\ disturbed \in SUBSET Users
    /\ faults \in Nat

PaidFor(p) == \E i \in paid : invoiceOf[i] = p

(* Gold is never given away: a purchase is COMPLETED, marked PAID or       *)
(* credited to a wallet only if an invoice issued for it was paid, however *)
(* callbacks, stale requests and restarts interleave.                      *)
NothingWithoutPayment ==
    \A p \in Purchases :
        purchase[p].status = "COMPLETED" \/ purchase[p].qpay = "PAID" \/ creditedFor[p] > 0
            => PaidFor(p)

(* No user can owe money on a purchase without a contract: an invoice      *)
(* exists only for a purchase whose contract is stored, and the statuses   *)
(* after PENDING have what they stand for (compare hasContract and         *)
(* hasQpayInvoice in seed.ts).  And a payment finds its purchase: unless   *)
(* sign or invoice requests of the purchase overlapped, every invoice a    *)
(* user was shown for it is still the one its row names, so the callback   *)
(* of that invoice is not answered 404.                                    *)
InvoiceInOrder ==
    /\ \A i \in Invoices : invoiceOf[i] # Nil => purchase[invoiceOf[i]].contract
    /\ \A p \in Purchases :
         /\ purchase[p].status \in {"CONTRACT_SIGNED", "PAYMENT_PENDING", "COMPLETED"}
                => purchase[p].contract
         /\ purchase[p].status \in {"PAYMENT_PENDING", "COMPLETED"} => purchase[p].invoice # Nil
    /\ \A i \in shown : invoiceOf[i] \notin raced => purchase[invoiceOf[i]].invoice = i

(* A completed purchase stays completed unless sign or invoice requests of *)
(* it overlapped: late and repeated callbacks do not take it back.         *)
SettledStaysSettled ==
    [][\A p \in Purchases \ raced :
          purchase[p].status = "COMPLETED" => purchase'[p].status = "COMPLETED"]_vars

(* status COMPLETED and qpayStatus PAID tell the same story on a purchase  *)
(* whose requests and whose callbacks never overlapped.                    *)
SettlementAgrees ==
    \A p \in Purchases \ (raced \cup overlapped) :
        purchase[p].status = "COMPLETED" <=> purchase[p].qpay = "PAID"

Bought(u) == {p \in Purchases : purchase[p].user = u /\ purchase[p].status = "COMPLETED"}
GramsOf == [p \in Purchases |-> purchase[p].grams]

(* The books agree end to end: when no payment of u is being settled, and  *)
(* none was settled twice, together with another, or only in part, u's     *)
(* wallet holds exactly the grams of u's completed purchases and u has     *)
(* the level those grams give.                                             *)
WalletEqualsCompleted ==
    \A u \in Users \ disturbed :
        /\ Settling(u) = {}
        /\ \A p \in Purchases : purchase[p].user = u => p \notin raced
        => LET g == SumFunctionOnSet(GramsOf, Bought(u)) IN
           /\ wallet[u].balance = g /\ wallet[u].purchased = g
           /\ level[u] \in M!LevelsFor(Thresholds, g)

(* Every step of the purchase handlers is a step of the wallet service, so *)
(* what Wallet and its proofs say holds here.                              *)
WalletSpec == W!Spec

(* A paid invoice that its purchase names gets the gold credited, through  *)
(* failures, a crash and unanswered callbacks, because QPay delivers again *)
(* and a repeated callback credits again.                                  *)
PaidIsCredited ==
    \A i \in Invoices, p \in Purchases :
        (i \in paid /\ purchase[p].invoice = i) ~> (creditedFor[p] > 0 \/ p \in raced)

(* The contract of a purchase is about one amount of gold.                 *)
CreditedOnce == \A p \in Purchases : creditedFor[p] <= 1
=============================================================================
