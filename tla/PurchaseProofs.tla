--------------------------- MODULE PurchaseProofs ---------------------------
(* Theorems about Purchase, for every number of users, purchases, handlers *)
(* and invoices.                                                           *)
EXTENDS Purchase, FiniteSetTheorems, TLAPS

(* The theorems about the wallet service, for the wallet of this module.   *)
WP == INSTANCE WalletProofs

-----------------------------------------------------------------------------
(***************************************************************************)
(* Every handler in flight works on a purchase that was initiated, and a   *)
(* purchase that was initiated has a user and an amount.                   *)
(***************************************************************************)
Initiated(p) ==
    p \in Purchases /\ purchase[p].user \in Users /\ purchase[p].grams \in Grams

Known ==
    /\ purchase \in [Purchases -> PurchaseRow]
    /\ job \in [Slots -> Job]
    /\ \A p \in Purchases : purchase[p].status # "NONE" => Initiated(p)
    /\ \A p \in Purchases : purchase[p].status = "NONE" => purchase[p].invoice = Nil
    /\ \A t \in Slots : job[t].pc # "idle" =>
         job[t].p \in Purchases /\ purchase[job[t].p].status # "NONE"

LEMMA KnownInit == Init => Known
BY PurchaseAssumption
   DEF Init, Known, Initiated, NoPurchase, PurchaseRow, Status, IdleJob, Job, JobPc

(* The forms in which a step changes the row of p: user and amount stay,   *)
(* and so do the rows of other purchases.                                  *)
KeepsRow(new, p, st) ==
    /\ new \in [Purchases -> PurchaseRow]
    /\ \A q \in Purchases \ {p} : new[q] = purchase[q]
    /\ new[p].user = purchase[p].user
    /\ new[p].grams = purchase[p].grams
    /\ new[p].status = st

LEMMA RowSet ==
    ASSUME purchase \in [Purchases -> PurchaseRow], NEW p \in Purchases,
           NEW st \in Status, NEW c \in BOOLEAN, NEW i \in Invoices \cup {Nil},
           NEW q \in {"PENDING", "PAID"}
    PROVE  /\ KeepsRow([purchase EXCEPT ![p].contract = c, ![p].status = st], p, st)
           /\ KeepsRow([purchase EXCEPT ![p].invoice = i, ![p].status = st], p, st)
           /\ KeepsRow([purchase EXCEPT ![p].qpay = q, ![p].status = st], p, st)
           /\ KeepsRow([purchase EXCEPT ![p].qpay = q], p, purchase[p].status)
<1>1. KeepsRow([purchase EXCEPT ![p].contract = c, ![p].status = st], p, st)
  BY DEF PurchaseRow, KeepsRow
<1>2. KeepsRow([purchase EXCEPT ![p].invoice = i, ![p].status = st], p, st)
  BY DEF PurchaseRow, KeepsRow
<1>3. KeepsRow([purchase EXCEPT ![p].qpay = q, ![p].status = st], p, st)
  BY DEF PurchaseRow, KeepsRow
<1>4. KeepsRow([purchase EXCEPT ![p].qpay = q], p, purchase[p].status)
  BY DEF PurchaseRow, KeepsRow
<1>5. QED
  BY <1>1, <1>2, <1>3, <1>4

(* A handler that ends, or moves on with the purchase it works on.         *)
LEMMA JobMoves ==
    ASSUME Known, purchase' = purchase, NEW t \in Slots,
           \/ EndJob(t)
           \/ \E pc \in JobPc \ {"idle"} : Goto(t, pc) /\ job[t].pc # "idle"
           \/ \E pc \in JobPc \ {"idle"}, p \in Purchases, i \in Invoices \cup {Nil} :
                 /\ job' = [job EXCEPT ![t] = [pc |-> pc, p |-> p, inv |-> i]]
                 /\ purchase[p].status # "NONE"
           \/ UNCHANGED job
    PROVE  Known'
<1>1. CASE EndJob(t)
  BY <1>1 DEF Known, Initiated, EndJob, IdleJob, Job, JobPc
<1>2. ASSUME NEW pc \in JobPc \ {"idle"}, Goto(t, pc), job[t].pc # "idle" PROVE Known'
  BY <1>2 DEF Known, Initiated, Goto, Job, JobPc
<1>3. ASSUME NEW pc \in JobPc \ {"idle"}, NEW p \in Purchases, NEW i \in Invoices \cup {Nil},
             job' = [job EXCEPT ![t] = [pc |-> pc, p |-> p, inv |-> i]],
             purchase[p].status # "NONE"
      PROVE  Known'
  <2>1. [pc |-> pc, p |-> p, inv |-> i] \in Job
    BY DEF Job
  <2>2. QED
    BY <1>3, <2>1 DEF Known, Initiated
<1>4. CASE UNCHANGED job
  BY <1>4 DEF Known, Initiated
<1>5. QED
  BY <1>1, <1>2, <1>3, <1>4

(* A handler that writes the row of its purchase and ends or goes on.      *)
LEMMA RowMoves ==
    ASSUME Known, NEW t \in Slots, NEW p \in Purchases, p = job[t].p, job[t].pc # "idle",
           NEW st \in Status \ {"NONE"}, KeepsRow(purchase', p, st),
           EndJob(t) \/ Goto(t, "crediting")
    PROVE  Known'
<1> USE DEF KeepsRow
<1>1. job' \in [Slots -> Job] /\ \A s \in Slots \ {t} : job'[s] = job[s]
  BY DEF Known, EndJob, Goto, IdleJob, Job, JobPc
<1>2. job'[t] = IdleJob \/ (job'[t].p = p /\ job'[t].pc = "crediting")
  BY DEF Known, EndJob, Goto, Job
<1>3. \A q \in Purchases : purchase'[q].status # "NONE" => Initiated(q)'
  BY DEF Known, Initiated
<1>4. \A q \in Purchases : purchase'[q].status = "NONE" => purchase'[q].invoice = Nil
  BY DEF Known
<1>5. \A s \in Slots : job'[s].pc # "idle" =>
         job'[s].p \in Purchases /\ purchase'[job'[s].p].status # "NONE"
  BY <1>1, <1>2 DEF Known, IdleJob
<1>6. QED
  BY <1>1, <1>3, <1>4, <1>5 DEF Known

LEMMA KnownStep == Known /\ [Next]_vars => Known'
<1> SUFFICES ASSUME Known, [Next]_vars PROVE Known'
  OBVIOUS
<1>1. ASSUME NEW p \in Purchases, NEW u \in Users, NEW g \in Grams, InitiatePurchase(p, u, g)
      PROVE  Known'
  <2>1. [status |-> "PENDING", user |-> u, grams |-> g, contract |-> FALSE,
             invoice |-> Nil, qpay |-> "PENDING"] \in PurchaseRow
    BY PurchaseAssumption DEF PurchaseRow, Status
  <2>2. QED
    BY <1>1, <2>1 DEF InitiatePurchase, Known, Initiated
<1>2. ASSUME NEW t \in Slots, NEW p \in Purchases,
             SignContract(t, p) \/ CreateQpayInvoice(t, p)
      PROVE  Known'
  BY <1>2, JobMoves DEF SignContract, CreateQpayInvoice, Prepare, JobPc
<1>3. ASSUME NEW t \in Slots, NEW p \in Purchases, NEW i \in Invoices, HandleQpayWebhook(t, p, i)
      PROVE  Known'
  <2>1. purchase[p].status # "NONE"
    BY <1>3, PurchaseAssumption DEF HandleQpayWebhook, Known
  <2>2. QED
    BY <1>3, <2>1, JobMoves DEF HandleQpayWebhook, JobPc
<1>4. ASSUME NEW i \in Invoices, PayInvoice(i) PROVE Known'
  BY <1>4 DEF PayInvoice, Known, Initiated
<1>5. ASSUME NEW t \in Slots, WriteContract(t) PROVE Known'
  <2>1. job[t].p \in Purchases /\ KeepsRow(purchase', job[t].p, "CONTRACT_SIGNED")
    BY <1>5, RowSet DEF WriteContract, Known, Status
  <2>2. QED
    BY <1>5, <2>1, RowMoves DEF WriteContract, Status
<1>6. ASSUME NEW t \in Slots, IssueInvoice(t) PROVE Known'
  <2>1. /\ job[t].p \in Purchases /\ purchase[job[t].p].status # "NONE"
        /\ purchase' = purchase
    BY <1>6 DEF IssueInvoice, Known
  <2>2. PICK i \in Invoices :
           job' = [job EXCEPT ![t] = [pc |-> "invoiced", p |-> job[t].p, inv |-> i]]
    BY <1>6 DEF IssueInvoice
  <2>3. \E pc \in JobPc \ {"idle"}, p \in Purchases, j \in Invoices \cup {Nil} :
           /\ job' = [job EXCEPT ![t] = [pc |-> pc, p |-> p, inv |-> j]]
           /\ purchase[p].status # "NONE"
    BY <2>1, <2>2 DEF JobPc
  <2>4. QED
    BY <2>1, <2>3, JobMoves
<1>7. ASSUME NEW t \in Slots, WriteInvoice(t) \/ LoseInvoice(t) PROVE Known'
  <2>1. job[t].p \in Purchases /\ job[t].inv \in Invoices \cup {Nil}
    BY <1>7 DEF WriteInvoice, LoseInvoice, Known, Job
  <2>2. KeepsRow(purchase', job[t].p, "PAYMENT_PENDING")
    <3>1. purchase' = [purchase EXCEPT ![job[t].p].invoice = job[t].inv,
                                       ![job[t].p].status = "PAYMENT_PENDING"]
      BY <1>7 DEF WriteInvoice, LoseInvoice
    <3>2. purchase \in [Purchases -> PurchaseRow] /\ "PAYMENT_PENDING" \in Status
      BY DEF Known, Status
    <3>3. QED
      BY <2>1, <3>1, <3>2, RowSet
  <2>3. QED
    BY <1>7, <2>1, <2>2, RowMoves DEF WriteInvoice, LoseInvoice, Status
<1>8. ASSUME NEW t \in Slots, CheckPayment(t) PROVE Known'
  BY <1>8, JobMoves DEF CheckPayment, JobPc
<1>9. ASSUME NEW t \in Slots, WriteUnpaid(t) PROVE Known'
  <2>1. /\ job[t].p \in Purchases
        /\ purchase[job[t].p].status \in Status \ {"NONE"}
    BY <1>9 DEF WriteUnpaid, Known, PurchaseRow
  <2>2. KeepsRow(purchase', job[t].p, purchase[job[t].p].status)
    BY <1>9, <2>1, RowSet DEF WriteUnpaid, Known
  <2>3. QED
    BY <1>9, <2>1, <2>2, RowMoves DEF WriteUnpaid
<1>10. ASSUME NEW t \in Slots, WritePaid(t) PROVE Known'
  <2>1. job[t].p \in Purchases /\ KeepsRow(purchase', job[t].p, "COMPLETED")
    BY <1>10, RowSet DEF WritePaid, Known, Status
  <2>2. QED
    BY <1>10, <2>1, RowMoves DEF WritePaid, Status
<1>11. ASSUME NEW t \in Slots, Credit(t) \/ Level(t) \/ FailService(t) PROVE Known'
  BY <1>11 DEF Credit, Level, FailService, Known, Initiated
<1>12. ASSUME NEW t \in Slots, Credited(t) PROVE Known'
  BY <1>12, JobMoves DEF Credited, JobPc
<1>13. ASSUME NEW t \in Slots, Answer(t) \/ FailJob(t) \/ Abandon(t) PROVE Known'
  BY <1>13, JobMoves DEF Answer, FailJob, Abandon
<1>14. ASSUME Crash PROVE Known'
  BY <1>14, PurchaseAssumption DEF Crash, Known, Initiated, IdleJob, Job, JobPc
<1>15. ASSUME UNCHANGED vars PROVE Known'
  BY <1>15 DEF vars, Known, Initiated
<1>16. ASSUME NEW u \in Users, OpenWallet(u) PROVE Known'
  BY <1>16 DEF OpenWallet, Known, Initiated
<1>17. QED
  BY <1>1, <1>2, <1>3, <1>4, <1>5, <1>6, <1>7, <1>8, <1>9, <1>10, <1>11, <1>12, <1>13,
     <1>14, <1>15, <1>16 DEF Next, Run, Deliver
-----------------------------------------------------------------------------
(***************************************************************************)
(* Refinement: each step of the handlers is a step of the wallet service   *)
(* or leaves the wallet alone.                                             *)
(***************************************************************************)
LEMMA WalletStep == Known /\ [Next]_vars => [W!Next]_(W!vars)
<1> SUFFICES ASSUME Known, [Next]_vars PROVE [W!Next]_(W!vars)
  OBVIOUS
<1>0. UNCHANGED walletVars \/ W!Next => [W!Next]_(W!vars)
  BY DEF W!vars, W!walletVars, W!historyVars, walletVars
<1>1. ASSUME NEW p \in Purchases, NEW u \in Users, NEW g \in Grams, InitiatePurchase(p, u, g)
      PROVE  UNCHANGED walletVars
  BY <1>1 DEF InitiatePurchase
<1>2. ASSUME NEW t \in Slots, NEW p \in Purchases,
             \/ SignContract(t, p) \/ CreateQpayInvoice(t, p)
             \/ \E i \in Invoices : HandleQpayWebhook(t, p, i)
      PROVE  UNCHANGED walletVars
  BY <1>2 DEF SignContract, CreateQpayInvoice, Prepare, HandleQpayWebhook
<1>3. ASSUME NEW i \in Invoices, PayInvoice(i) PROVE UNCHANGED walletVars
  BY <1>3 DEF PayInvoice
<1>4. ASSUME NEW t \in Slots,
             \/ WriteContract(t) \/ IssueInvoice(t) \/ WriteInvoice(t) \/ LoseInvoice(t)
             \/ CheckPayment(t) \/ WriteUnpaid(t) \/ Level(t) \/ Answer(t) \/ FailJob(t)
      PROVE  UNCHANGED walletVars
  BY <1>4 DEF WriteContract, IssueInvoice, WriteInvoice, LoseInvoice, CheckPayment,
              WriteUnpaid, Level, Answer, FailJob
<1>5. ASSUME NEW t \in Slots, WritePaid(t) PROVE W!Next
  <2>1. /\ job[t].p \in Refs
        /\ purchase[job[t].p].user \in Users /\ purchase[job[t].p].grams \in Grams
    BY <1>5, PurchaseAssumption DEF WritePaid, Known, Initiated
  <2>2. QED
    BY <1>5, <2>1 DEF WritePaid, W!Next
<1>6. ASSUME NEW t \in Slots, Credit(t) PROVE W!Next
  BY <1>6 DEF Credit, W!Next
<1>7. ASSUME NEW t \in Slots, Credited(t) PROVE W!Next
  BY <1>7 DEF Credited, W!Next
<1>8. ASSUME NEW t \in Slots, FailService(t) \/ Abandon(t)
      PROVE  UNCHANGED walletVars \/ W!Next
  <2>1. UNCHANGED walletVars \/ W!Fail(t) \/ W!Return(t)
    BY <1>8 DEF FailService, Abandon
  <2>2. W!Fail(t) \/ W!Return(t) => W!Next
    BY DEF W!Next
  <2>3. QED
    BY <2>1, <2>2
<1>9. ASSUME Crash PROVE W!Next
  BY <1>9 DEF Crash, W!Next
<1>10. ASSUME UNCHANGED vars PROVE UNCHANGED walletVars
  BY <1>10 DEF vars
<1>11. ASSUME NEW u \in Users, OpenWallet(u) PROVE W!Next
  BY <1>11 DEF OpenWallet, W!Next
<1>12. UNCHANGED walletVars \/ W!Next
  BY <1>1, <1>2, <1>3, <1>4, <1>5, <1>6, <1>7, <1>8, <1>9, <1>10, <1>11 DEF Next, Run, Deliver
<1>13. QED
  BY <1>0, <1>12

(* The purchase handlers use the wallet only through its service: every    *)
(* behaviour of Purchase is a behaviour of Wallet.                         *)
THEOREM ImplementsWallet == Spec => WalletSpec
<1>1. Init => W!Init
  BY DEF Init
<1>2. QED
  BY <1>1, KnownInit, KnownStep, WalletStep, PTL DEF Spec, WalletSpec, W!Spec
-----------------------------------------------------------------------------
(***************************************************************************)
(* Money before gold.  A row's invoice and a handler's invoice were issued *)
(* for the purchase they stand with, and a webhook past its payment check  *)
(* holds a paid one; neither an invoice's purchase nor its payment is ever *)
(* taken back.                                                             *)
(***************************************************************************)
QpayOK ==
    /\ invoiceOf \in [Invoices -> Purchases \cup {Nil}]
    /\ paid \in SUBSET Invoices
    /\ creditedFor \in [Purchases -> Nat]

RowsTraced ==
    \A p \in Purchases : purchase[p].invoice # Nil =>
        purchase[p].invoice \in Invoices /\ invoiceOf[purchase[p].invoice] = p

HoldsInvoice(t) == job[t].inv \in Invoices /\ invoiceOf[job[t].inv] = job[t].p
HasPaid(t) == job[t].pc \in {"paid", "crediting", "levelling"}

JobsTraced ==
    \A t \in Slots :
        /\ job[t].pc \in {"invoiced", "checking", "unpaid"} \/ HasPaid(t) => HoldsInvoice(t)
        /\ HasPaid(t) => job[t].inv \in paid

Traced == QpayOK /\ RowsTraced /\ JobsTraced /\ NothingWithoutPayment

LEMMA TracedInit == Init => Traced
BY PurchaseAssumption
   DEF Init, Traced, QpayOK, RowsTraced, JobsTraced, HoldsInvoice, HasPaid,
       NothingWithoutPayment, NoPurchase, IdleJob

(* A step that leaves rows, credits and QPay alone, and starts no handler  *)
(* that has to hold an invoice.                                            *)
LEMMA TracedKept ==
    ASSUME Known, Traced,
           UNCHANGED <<purchase, invoiceOf, paid, creditedFor>>,
           \A t \in Slots : \/ job'[t] = job[t]
                            \/ job'[t].pc \in {"idle", "signing", "invoicing"}
                            \/ /\ job'[t].inv = job[t].inv /\ job'[t].p = job[t].p
                               /\ job[t].pc = "checking" \/ HasPaid(t)
                               /\ HasPaid(t)' => job[t].inv \in paid
                            \/ /\ job'[t].pc = "checking"
                               /\ job'[t].p \in Purchases /\ job'[t].inv # Nil
                               /\ purchase[job'[t].p].invoice = job'[t].inv
    PROVE  Traced'
<1>1. QpayOK' /\ RowsTraced' /\ NothingWithoutPayment'
  BY DEF Traced, QpayOK, RowsTraced, NothingWithoutPayment, PaidFor
<1>2. JobsTraced'
  BY DEF Traced, RowsTraced, JobsTraced, HoldsInvoice, HasPaid
<1>3. QED
  BY <1>1, <1>2 DEF Traced

(* A step that writes the row of p and ends the handler or completes p.    *)
LEMMA TracedWrite ==
    ASSUME Known, Traced, NEW t \in Slots, NEW p \in Purchases,
           UNCHANGED <<invoiceOf, paid, creditedFor>>,
           \A q \in Purchases \ {p} : purchase'[q] = purchase[q],
           purchase'[p].invoice = purchase[p].invoice
             \/ (purchase'[p].invoice \in Invoices /\ invoiceOf[purchase'[p].invoice] = p),
           purchase'[p].status = "COMPLETED" \/ purchase'[p].qpay = "PAID"
             => PaidFor(p),
           EndJob(t) \/ (Goto(t, "crediting") /\ job[t].pc = "paid")
    PROVE  Traced'
<1>1. QpayOK'
  BY DEF Traced, QpayOK
<1>2. RowsTraced'
  BY DEF Traced, RowsTraced
<1>3. NothingWithoutPayment'
  BY DEF Traced, NothingWithoutPayment, PaidFor
<1>4. JobsTraced'
  <2>1. \A s \in Slots : job'[s] = job[s] \/ job'[s].pc = "idle"
            \/ (s = t /\ job'[s].pc = "crediting" /\ job[s].pc = "paid"
                  /\ job'[s].inv = job[s].inv /\ job'[s].p = job[s].p)
    BY DEF EndJob, Goto, IdleJob, Known, Job
  <2>2. QED
    BY <2>1 DEF Traced, JobsTraced, HoldsInvoice, HasPaid
<1>5. QED
  BY <1>1, <1>2, <1>3, <1>4 DEF Traced

LEMMA TracedStep == Known /\ Traced /\ [Next]_vars => Traced'
<1> SUFFICES ASSUME Known, Traced, [Next]_vars PROVE Traced'
  OBVIOUS
<1>1. ASSUME NEW p \in Purchases, NEW u \in Users, NEW g \in Grams, InitiatePurchase(p, u, g)
      PROVE  Traced'
  BY <1>1, PurchaseAssumption
     DEF InitiatePurchase, Known, Traced, QpayOK, RowsTraced, JobsTraced, HoldsInvoice,
         HasPaid, NothingWithoutPayment, PaidFor, qpayVars, historyVars
<1>2. ASSUME NEW t \in Slots, NEW p \in Purchases,
             \/ SignContract(t, p) \/ CreateQpayInvoice(t, p)
             \/ \E i \in Invoices : HandleQpayWebhook(t, p, i)
      PROVE  Traced'
  BY <1>2, TracedKept, PurchaseAssumption
     DEF SignContract, CreateQpayInvoice, Prepare, HandleQpayWebhook, Known, qpayVars
<1>3. ASSUME NEW i \in Invoices, PayInvoice(i) PROVE Traced'
  BY <1>3 DEF PayInvoice, Traced, QpayOK, RowsTraced, JobsTraced, HoldsInvoice, HasPaid,
              NothingWithoutPayment, PaidFor, historyVars
<1>4. ASSUME NEW t \in Slots, WriteContract(t) PROVE Traced'
  <2>1. /\ job[t].p \in Purchases
        /\ purchase'[job[t].p].invoice = purchase[job[t].p].invoice
        /\ purchase'[job[t].p].qpay = purchase[job[t].p].qpay
        /\ purchase'[job[t].p].status = "CONTRACT_SIGNED"
        /\ \A q \in Purchases \ {job[t].p} : purchase'[q] = purchase[q]
    BY <1>4 DEF WriteContract, Known, PurchaseRow
  <2>2. QED
    BY <1>4, <2>1, TracedWrite
       DEF WriteContract, qpayVars, historyVars, Traced, NothingWithoutPayment
<1>5. ASSUME NEW t \in Slots, IssueInvoice(t) PROVE Traced'
  <2>1. PICK i \in Invoices :
           /\ invoiceOf[i] = Nil
           /\ invoiceOf' = [invoiceOf EXCEPT ![i] = job[t].p]
           /\ job' = [job EXCEPT ![t] = [pc |-> "invoiced", p |-> job[t].p, inv |-> i]]
    BY <1>5 DEF IssueInvoice
  <2>2. job[t].p \in Purchases /\ UNCHANGED <<purchase, paid, creditedFor>>
    BY <1>5 DEF IssueInvoice, Known, historyVars
  <2>3. /\ invoiceOf'[i] = job[t].p
        /\ \A j \in Invoices : invoiceOf[j] \in Purchases => invoiceOf'[j] = invoiceOf[j]
        /\ invoiceOf' \in [Invoices -> Purchases \cup {Nil}]
    BY <2>1, <2>2, PurchaseAssumption DEF Traced, QpayOK
  <2>4. QpayOK' /\ RowsTraced'
    BY <2>2, <2>3 DEF Traced, QpayOK, RowsTraced
  <2>5. JobsTraced'
    BY <2>1, <2>2, <2>3 DEF Traced, JobsTraced, HoldsInvoice, HasPaid, Known
  <2>6. NothingWithoutPayment'
    BY <2>2, <2>3 DEF Traced, NothingWithoutPayment, PaidFor, QpayOK
  <2>7. QED
    BY <2>4, <2>5, <2>6 DEF Traced
<1>6. ASSUME NEW t \in Slots, WriteInvoice(t) \/ LoseInvoice(t) PROVE Traced'
  <2>1. /\ job[t].p \in Purchases /\ HoldsInvoice(t)
        /\ UNCHANGED <<invoiceOf, paid, creditedFor>>
    BY <1>6 DEF WriteInvoice, LoseInvoice, Known, Traced, JobsTraced, qpayVars, historyVars
  <2>2. purchase' = [purchase EXCEPT ![job[t].p].invoice = job[t].inv,
                                     ![job[t].p].status = "PAYMENT_PENDING"]
    BY <1>6 DEF WriteInvoice, LoseInvoice
  <2>3. /\ purchase'[job[t].p].invoice = job[t].inv
        /\ purchase'[job[t].p].qpay = purchase[job[t].p].qpay
        /\ purchase'[job[t].p].status = "PAYMENT_PENDING"
        /\ \A q \in Purchases \ {job[t].p} : purchase'[q] = purchase[q]
    BY <2>1, <2>2 DEF Known, PurchaseRow
  <2>4. QED
    BY <1>6, <2>1, <2>3, TracedWrite
       DEF WriteInvoice, LoseInvoice, HoldsInvoice, Traced, NothingWithoutPayment
<1>7. ASSUME NEW t \in Slots, CheckPayment(t) PROVE Traced'
  <2>1. /\ job[t].pc = "checking"
        /\ job' = [job EXCEPT ![t].pc = IF job[t].inv \in paid THEN "paid" ELSE "unpaid"]
        /\ UNCHANGED <<purchase, invoiceOf, paid, creditedFor>>
    BY <1>7 DEF CheckPayment, Goto, qpayVars
  <2>2. QED
    BY <2>1, TracedKept DEF Known, Job, HasPaid
<1>8. ASSUME NEW t \in Slots, WriteUnpaid(t) PROVE Traced'
  <2>1. /\ job[t].p \in Purchases
        /\ purchase'[job[t].p].invoice = purchase[job[t].p].invoice
        /\ purchase'[job[t].p].qpay = "PENDING"
        /\ purchase'[job[t].p].status = purchase[job[t].p].status
        /\ \A q \in Purchases \ {job[t].p} : purchase'[q] = purchase[q]
    BY <1>8 DEF WriteUnpaid, Known, PurchaseRow
  <2>2. QED
    BY <1>8, <2>1, TracedWrite
       DEF WriteUnpaid, qpayVars, historyVars, Traced, NothingWithoutPayment
<1>9. ASSUME NEW t \in Slots, WritePaid(t) PROVE Traced'
  <2>1. /\ job[t].p \in Purchases
        /\ purchase'[job[t].p].invoice = purchase[job[t].p].invoice
        /\ \A q \in Purchases \ {job[t].p} : purchase'[q] = purchase[q]
    BY <1>9 DEF WritePaid, Known, PurchaseRow
  <2>2. PaidFor(job[t].p)
    BY <1>9 DEF WritePaid, Traced, JobsTraced, HoldsInvoice, HasPaid, PaidFor
  <2>3. QED
    BY <1>9, <2>1, <2>2, TracedWrite DEF WritePaid, qpayVars, historyVars
<1>10. ASSUME NEW t \in Slots, Credit(t) PROVE Traced'
  <2>1. /\ job[t].p \in Purchases /\ PaidFor(job[t].p)
        /\ UNCHANGED <<purchase, job, invoiceOf, paid>>
    BY <1>10 DEF Credit, Known, Traced, JobsTraced, HoldsInvoice, HasPaid, PaidFor, qpayVars
  <2>2. creditedFor' \in [Purchases -> Nat]
        /\ \A q \in Purchases \ {job[t].p} : creditedFor'[q] = creditedFor[q]
    BY <1>10, <2>1 DEF Credit, Traced, QpayOK
  <2>3. QED
    BY <2>1, <2>2 DEF Traced, QpayOK, RowsTraced, JobsTraced, HoldsInvoice, HasPaid,
                      NothingWithoutPayment, PaidFor
<1>11. ASSUME NEW t \in Slots, Level(t) \/ FailService(t) PROVE Traced'
  BY <1>11, TracedKept DEF Level, FailService, qpayVars, historyVars
<1>12. ASSUME NEW t \in Slots, Credited(t) PROVE Traced'
  <2>1. /\ job[t].pc = "crediting"
        /\ job' = [job EXCEPT ![t].pc = "levelling"]
        /\ UNCHANGED <<purchase, invoiceOf, paid, creditedFor>>
    BY <1>12 DEF Credited, Goto, qpayVars, historyVars
  <2>2. HasPaid(t) /\ job[t].inv \in paid
    BY <2>1 DEF Traced, JobsTraced, HasPaid
  <2>3. QED
    BY <2>1, <2>2, TracedKept DEF Known, Job
<1>13. ASSUME NEW t \in Slots, Answer(t) \/ FailJob(t) \/ Abandon(t) PROVE Traced'
  <2>1. EndJob(t) /\ UNCHANGED <<purchase, invoiceOf, paid, creditedFor>>
    BY <1>13 DEF Answer, FailJob, Abandon, qpayVars, historyVars
  <2>2. QED
    BY <2>1, TracedKept DEF EndJob, IdleJob, Known
<1>14. ASSUME Crash PROVE Traced'
  BY <1>14, TracedKept DEF Crash, IdleJob, qpayVars
<1>15. ASSUME UNCHANGED vars PROVE Traced'
  BY <1>15, TracedKept DEF vars, qpayVars, historyVars
<1>16. ASSUME NEW u \in Users, OpenWallet(u) PROVE Traced'
  BY <1>16, TracedKept DEF OpenWallet, qpayVars, historyVars
<1>17. QED
  BY <1>1, <1>2, <1>3, <1>4, <1>5, <1>6, <1>7, <1>8, <1>9, <1>10, <1>11, <1>12, <1>13,
     <1>14, <1>15, <1>16 DEF Next, Run, Deliver

(* Gold is never given away, whatever handlers, callbacks, failures and    *)
(* crashes interleave.                                                     *)
THEOREM NoFreeGold == Spec => []NothingWithoutPayment
<1>1. Spec => []Traced
  BY KnownInit, KnownStep, TracedInit, TracedStep, PTL DEF Spec
<1>2. Traced => NothingWithoutPayment
  BY DEF Traced
<1>3. QED
  BY <1>1, <1>2, PTL
-----------------------------------------------------------------------------
(***************************************************************************)
(* The order of a purchase.  What an invoice, a status or a handler stands *)
(* for is stored in the row; the sign and invoice requests of a purchase   *)
(* that never overlapped find it at their stage, so its invoice is set     *)
(* once and it never leaves COMPLETED; and callbacks that never overlapped *)
(* keep status and qpayStatus together.                                    *)
(***************************************************************************)
PrepPc == {"signing", "invoicing", "invoiced"}
ConfPc == {"checking", "unpaid", "paid", "crediting", "levelling"}

Prepares(t, p) == job[t].p = p /\ job[t].pc \in PrepPc
Confirms(t, p) == job[t].p = p /\ job[t].pc \in ConfPc

Stored ==
    /\ \A i \in Invoices : invoiceOf[i] # Nil => purchase[invoiceOf[i]].contract
    /\ \A p \in Purchases :
         /\ purchase[p].status = "NONE" => ~purchase[p].contract
         /\ purchase[p].status \in {"CONTRACT_SIGNED", "PAYMENT_PENDING", "COMPLETED"}
                => purchase[p].contract
         /\ purchase[p].status \in {"PAYMENT_PENDING", "COMPLETED"} => purchase[p].invoice # Nil
    /\ \A t \in Slots :
         /\ job[t].pc \in {"invoicing", "invoiced"} => purchase[job[t].p].contract
         /\ job[t].pc \in ConfPc => purchase[job[t].p].invoice # Nil
    /\ shown \in SUBSET {i \in Invoices : invoiceOf[i] \in Purchases}

AtStage(p) ==
    /\ \A s, t \in Slots : Prepares(s, p) /\ Prepares(t, p) => s = t
    /\ \A t \in Slots : Prepares(t, p) =>
         purchase[p].status = IF job[t].pc = "signing" THEN "PENDING" ELSE "CONTRACT_SIGNED"
    /\ purchase[p].status \in {"PENDING", "CONTRACT_SIGNED"} => purchase[p].invoice = Nil
    /\ \A i \in shown : invoiceOf[i] = p => purchase[p].invoice = i
    /\ \A t \in Slots : Confirms(t, p) => job[t].inv = purchase[p].invoice
    /\ purchase[p].status = "COMPLETED" => purchase[p].invoice \in paid

Agree(p) ==
    /\ \A s, t \in Slots : Confirms(s, p) /\ Confirms(t, p) => s = t
    /\ \A t \in Slots :
         Confirms(t, p) /\ job[t].pc = "unpaid" => purchase[p].status # "COMPLETED"
    /\ purchase[p].status = "COMPLETED" <=> purchase[p].qpay = "PAID"

Staged ==
    /\ Stored
    /\ \A p \in Purchases : p \notin raced => AtStage(p)
    /\ \A p \in Purchases : p \notin raced \cup overlapped => Agree(p)

LEMMA StagedInit == Init => Staged
BY PurchaseAssumption
   DEF Init, Staged, Stored, AtStage, Agree, Prepares, Confirms, PrepPc, ConfPc,
       NoPurchase, IdleJob

(* A step that leaves rows and invoices alone, and in which every handler  *)
(* stays, ends, or goes on with its callback.                              *)
GoesOn(t) ==
    \/ job'[t] = job[t]
    \/ job'[t].pc = "idle"
    \/ /\ job'[t].p = job[t].p /\ job'[t].inv = job[t].inv
       /\ job[t].pc \in ConfPc /\ job'[t].pc \in ConfPc
       /\ job'[t].pc = "unpaid" => job[t].inv \notin paid

LEMMA StagedKept ==
    ASSUME Known, Traced, Staged,
           UNCHANGED <<purchase, invoiceOf, shown, raced, overlapped>>, paid \subseteq paid',
           \A t \in Slots : GoesOn(t)
    PROVE  Staged'
<1>1. Stored'
  BY DEF Staged, Stored, GoesOn, PrepPc, ConfPc
<1>2. \A t \in Slots, p \in Purchases :
         /\ Prepares(t, p)' => Prepares(t, p) /\ job'[t] = job[t]
         /\ Confirms(t, p)' => Confirms(t, p) /\ job'[t].inv = job[t].inv
  BY DEF GoesOn, Prepares, Confirms, PrepPc, ConfPc
<1>3. ASSUME NEW p \in Purchases, p \notin raced PROVE AtStage(p)'
  <2>1. AtStage(p)
    BY <1>3 DEF Staged
  <2>2. QED
    BY <1>2, <2>1 DEF AtStage
<1>4. ASSUME NEW p \in Purchases, p \notin raced \cup overlapped PROVE Agree(p)'
  <2>1. Agree(p) /\ AtStage(p)
    BY <1>4 DEF Staged
  <2>2. ASSUME NEW t \in Slots, Confirms(t, p)', job'[t].pc = "unpaid"
        PROVE  purchase[p].status # "COMPLETED"
    <3>1. Confirms(t, p)
      BY <1>2, <2>2
    <3>2. CASE job'[t] = job[t]
      BY <2>1, <2>2, <3>1, <3>2 DEF Agree
    <3>3. CASE job[t].inv \notin paid
      BY <2>1, <3>1, <3>3 DEF AtStage
    <3>4. QED
      BY <2>2, <3>2, <3>3 DEF GoesOn
  <2>3. QED
    BY <1>2, <2>1, <2>2 DEF Agree
<1>5. QED
  BY <1>1, <1>3, <1>4 DEF Staged

(* A sign or invoice request starts.                                       *)
LEMMA StagedPrepare ==
    ASSUME Known, Traced, Staged, NEW t \in Slots, NEW p \in Purchases,
           SignContract(t, p) \/ CreateQpayInvoice(t, p)
    PROVE  Staged'
<1>1. PICK pc \in {"signing", "invoicing"} :
         Prepare(t, p, IF pc = "signing" THEN "PENDING" ELSE "CONTRACT_SIGNED", pc)
  BY DEF SignContract, CreateQpayInvoice
<1>2. /\ purchase[p].status = (IF pc = "signing" THEN "PENDING" ELSE "CONTRACT_SIGNED")
      /\ job[t].pc = "idle" /\ UNCHANGED <<purchase, invoiceOf, shown, paid, overlapped>>
      /\ raced' = IF Preparing(p) # {} THEN raced \cup {p} ELSE raced
  BY <1>1 DEF Prepare, qpayVars
<1>3. /\ job'[t] = [pc |-> pc, p |-> p, inv |-> Nil]
      /\ \A s \in Slots \ {t} : job'[s] = job[s]
  BY <1>1 DEF Prepare, Known
<1>4. Stored'
  BY <1>2, <1>3 DEF Staged, Stored, ConfPc
<1>5. ASSUME NEW q \in Purchases, q \notin raced' PROVE AtStage(q)'
  <2>1. AtStage(q)
    BY <1>2, <1>5 DEF Staged
  <2>2. CASE q = p
    <3>1. \A s \in Slots : ~Prepares(s, p)
      BY <1>2, <1>5, <2>2 DEF Preparing, Prepares, PrepPc
    <3>2. \A s \in Slots : /\ Prepares(s, p)' => s = t
                           /\ Confirms(s, p)' => s # t /\ Confirms(s, p) /\ job'[s] = job[s]
      BY <1>3, <3>1 DEF Prepares, Confirms, ConfPc
    <3>3. QED
      BY <1>2, <1>3, <2>1, <2>2, <3>2 DEF AtStage
  <2>3. CASE q # p
    <3>1. \A s \in Slots : /\ Prepares(s, q)' => Prepares(s, q) /\ job'[s] = job[s]
                           /\ Confirms(s, q)' => Confirms(s, q) /\ job'[s] = job[s]
      BY <1>3, <2>3 DEF Prepares, Confirms
    <3>2. QED
      BY <1>2, <2>1, <3>1 DEF AtStage
  <2>4. QED
    BY <2>2, <2>3
<1>6. ASSUME NEW q \in Purchases, q \notin raced' \cup overlapped' PROVE Agree(q)'
  <2>1. Agree(q)
    BY <1>2, <1>6 DEF Staged
  <2>2. \A s \in Slots : Confirms(s, q)' => Confirms(s, q) /\ job'[s] = job[s]
    BY <1>3 DEF Confirms, ConfPc
  <2>3. QED
    BY <1>2, <2>1, <2>2 DEF Agree
<1>7. QED
  BY <1>4, <1>5, <1>6 DEF Staged

(* A callback starts.                                                      *)
LEMMA StagedDeliver ==
    ASSUME Known, Traced, Staged, NEW t \in Slots, NEW p \in Purchases, NEW i \in Invoices,
           HandleQpayWebhook(t, p, i)
    PROVE  Staged'
<1>1. /\ purchase[p].invoice = i /\ i # Nil
      /\ job[t].pc = "idle" /\ UNCHANGED <<purchase, invoiceOf, shown, paid, raced>>
      /\ overlapped' = IF Confirming(p) # {} THEN overlapped \cup {p} ELSE overlapped
  BY PurchaseAssumption DEF HandleQpayWebhook, qpayVars
<1>2. /\ job'[t] = [pc |-> "checking", p |-> p, inv |-> i]
      /\ \A s \in Slots \ {t} : job'[s] = job[s]
  BY DEF HandleQpayWebhook, Known
<1>3. Stored'
  BY <1>1, <1>2 DEF Staged, Stored
<1>4. \A s \in Slots, q \in Purchases :
         /\ Prepares(s, q)' => Prepares(s, q) /\ job'[s] = job[s]
         /\ Confirms(s, q)' => (s = t /\ q = p) \/ (Confirms(s, q) /\ job'[s] = job[s])
  BY <1>2 DEF Prepares, Confirms, PrepPc
<1>5. ASSUME NEW q \in Purchases, q \notin raced' PROVE AtStage(q)'
  <2>1. AtStage(q)
    BY <1>1, <1>5 DEF Staged
  <2>2. QED
    BY <1>1, <1>2, <1>4, <2>1 DEF AtStage
<1>6. ASSUME NEW q \in Purchases, q \notin raced' \cup overlapped' PROVE Agree(q)'
  <2>1. Agree(q)
    BY <1>1, <1>6 DEF Staged
  <2>2. q = p => \A s \in Slots : ~Confirms(s, p)
    BY <1>1, <1>6 DEF Confirming, Confirms, ConfPc
  <2>3. QED
    BY <1>1, <1>2, <1>4, <2>1, <2>2 DEF Agree
<1>7. QED
  BY <1>3, <1>5, <1>6 DEF Staged

(* A new purchase, and a new invoice.                                      *)
LEMMA StagedInitiate ==
    ASSUME Known, Traced, Staged, NEW p \in Purchases, NEW u \in Users, NEW g \in Grams,
           InitiatePurchase(p, u, g)
    PROVE  Staged'
<1>1. /\ purchase[p].status = "NONE" /\ purchase[p].invoice = Nil /\ ~purchase[p].contract
      /\ UNCHANGED <<job, invoiceOf, shown, paid, raced, overlapped>>
  BY DEF InitiatePurchase, Known, Staged, Stored, qpayVars, historyVars
<1>2. /\ purchase'[p].status = "PENDING" /\ purchase'[p].invoice = Nil
      /\ purchase'[p].qpay = "PENDING"
      /\ \A q \in Purchases \ {p} : purchase'[q] = purchase[q]
  BY DEF InitiatePurchase, Known
<1>3. /\ \A t \in Slots : job[t].pc # "idle" => job[t].p \in Purchases \ {p}
      /\ \A i \in Invoices : invoiceOf[i] # Nil => invoiceOf[i] \in Purchases \ {p}
  BY <1>1 DEF Known, Traced, QpayOK, Staged, Stored
<1>4. Stored'
  BY <1>1, <1>2, <1>3 DEF Staged, Stored, PrepPc, ConfPc
<1>5. \A t \in Slots, q \in Purchases : /\ Prepares(t, q)' <=> Prepares(t, q)
                                        /\ Confirms(t, q)' <=> Confirms(t, q)
  BY <1>1 DEF Prepares, Confirms
<1>6. \A t \in Slots : ~Prepares(t, p) /\ ~Confirms(t, p)
  BY <1>3 DEF Prepares, Confirms, PrepPc, ConfPc
<1>7. \A i \in shown : invoiceOf[i] # p
  BY <1>3, PurchaseAssumption DEF Staged, Stored
<1>8. ASSUME NEW q \in Purchases, q \notin raced PROVE AtStage(q)'
  <2>1. CASE q = p
    BY <1>1, <1>2, <1>5, <1>6, <1>7, <2>1 DEF AtStage
  <2>2. CASE q # p
    BY <1>1, <1>2, <1>5, <1>8, <2>2 DEF Staged, AtStage
  <2>3. QED
    BY <2>1, <2>2
<1>9. ASSUME NEW q \in Purchases, q \notin raced \cup overlapped PROVE Agree(q)'
  <2>1. CASE q = p
    BY <1>1, <1>2, <1>5, <1>6, <2>1 DEF Agree
  <2>2. CASE q # p
    BY <1>1, <1>2, <1>5, <1>9, <2>2 DEF Staged, Agree
  <2>3. QED
    BY <2>1, <2>2
<1>10. QED
  BY <1>1, <1>4, <1>8, <1>9 DEF Staged

LEMMA StagedIssue ==
    ASSUME Known, Traced, Staged, NEW t \in Slots, IssueInvoice(t)
    PROVE  Staged'
<1>1. PICK i \in Invoices :
         /\ invoiceOf[i] = Nil
         /\ invoiceOf' = [invoiceOf EXCEPT ![i] = job[t].p]
         /\ job' = [job EXCEPT ![t] = [pc |-> "invoiced", p |-> job[t].p, inv |-> i]]
  BY DEF IssueInvoice
<1>2. /\ job[t].pc = "invoicing" /\ job[t].p \in Purchases
      /\ UNCHANGED <<purchase, shown, paid, raced, overlapped>>
  BY DEF IssueInvoice, Known, historyVars
<1>3. /\ invoiceOf'[i] = job[t].p
      /\ \A j \in Invoices \ {i} : invoiceOf'[j] = invoiceOf[j]
  BY <1>1 DEF Traced, QpayOK
<1>4. /\ job'[t] = [pc |-> "invoiced", p |-> job[t].p, inv |-> i]
      /\ \A s \in Slots \ {t} : job'[s] = job[s]
  BY <1>1 DEF Known
<1>5. i \notin shown
  BY <1>1, PurchaseAssumption DEF Staged, Stored
<1>6. Stored'
  BY <1>2, <1>3, <1>4, <1>5 DEF Staged, Stored, ConfPc
<1>7. \A s \in Slots, q \in Purchases :
         /\ Prepares(s, q)' <=> Prepares(s, q)
         /\ Confirms(s, q)' => Confirms(s, q) /\ job'[s] = job[s]
         /\ job'[s].pc = "signing" <=> job[s].pc = "signing"
  BY <1>2, <1>4 DEF Prepares, Confirms, PrepPc, ConfPc
<1>8. \A j \in shown : invoiceOf'[j] = invoiceOf[j]
  BY <1>3, <1>5 DEF Staged, Stored
<1>9. \A q \in Purchases : q \notin raced => AtStage(q)'
  BY <1>2, <1>7, <1>8 DEF Staged, AtStage
<1>10. \A q \in Purchases : q \notin raced \cup overlapped => Agree(q)'
  BY <1>2, <1>7 DEF Staged, Agree
<1>11. QED
  BY <1>2, <1>6, <1>9, <1>10 DEF Staged

(* The end of a handler, or of its payment check, with a write to its row: *)
(* the rows and handlers of other purchases stay as they are.              *)
Writes(t, p) ==
    /\ job[t].p = p /\ job[t].pc # "idle"
    /\ \A q \in Purchases \ {p} : purchase'[q] = purchase[q]
    /\ \A s \in Slots \ {t} : job'[s] = job[s]
    /\ \/ job'[t].pc = "idle"
       \/ /\ job[t].pc = "paid" /\ job'[t].pc = "crediting"
          /\ job'[t].p = p /\ job'[t].inv = job[t].inv
    /\ UNCHANGED <<invoiceOf, paid, raced, overlapped>>
    /\ \A i \in shown' : i \in shown \/ (i \in Invoices /\ invoiceOf[i] = p)

LEMMA OthersKept ==
    ASSUME Known, Traced, Staged, NEW t \in Slots, NEW p \in Purchases, Writes(t, p)
    PROVE  /\ \A q \in Purchases \ {p} : q \notin raced => AtStage(q)'
           /\ \A q \in Purchases \ {p} : q \notin raced \cup overlapped => Agree(q)'
<1>1. ASSUME NEW q \in Purchases \ {p}, NEW s \in Slots
      PROVE  /\ Prepares(s, q)' => Prepares(s, q) /\ job'[s] = job[s]
             /\ Confirms(s, q)' => Confirms(s, q) /\ job'[s] = job[s]
  BY DEF Writes, Prepares, Confirms, PrepPc, ConfPc
<1>2. ASSUME NEW q \in Purchases \ {p}, q \notin raced PROVE AtStage(q)'
  <2>1. AtStage(q)
    BY <1>2 DEF Staged
  <2>2. purchase'[q] = purchase[q] /\ UNCHANGED <<invoiceOf, paid>>
        /\ \A i \in shown' : invoiceOf[i] = q => i \in shown
    BY DEF Writes
  <2>3. QED
    BY <1>1, <2>1, <2>2 DEF AtStage
<1>3. ASSUME NEW q \in Purchases \ {p}, q \notin raced \cup overlapped PROVE Agree(q)'
  BY <1>1, <1>3 DEF Staged, Agree, Writes
<1>4. QED
  BY <1>2, <1>3

(* The row of p keeps its contract and gets, or keeps, what its status     *)
(* stands for.                                                             *)
LEMMA StoredKept ==
    ASSUME Known, Traced, Staged, NEW t \in Slots, NEW p \in Purchases, Writes(t, p),
           purchase[p].contract => purchase'[p].contract,
           purchase[p].invoice # Nil => purchase'[p].invoice # Nil,
           purchase'[p].status # "NONE",
           purchase'[p].status \in {"CONTRACT_SIGNED", "PAYMENT_PENDING", "COMPLETED"}
              => purchase'[p].contract,
           purchase'[p].status \in {"PAYMENT_PENDING", "COMPLETED"} => purchase'[p].invoice # Nil
    PROVE  Stored'
<1>1. \A q \in Purchases : /\ purchase[q].contract => purchase'[q].contract
                           /\ purchase[q].invoice # Nil => purchase'[q].invoice # Nil
  BY DEF Writes
<1>2. \A i \in Invoices : invoiceOf'[i] # Nil => purchase'[invoiceOf'[i]].contract
  BY <1>1 DEF Writes, Staged, Stored, Traced, QpayOK
<1>3. \A q \in Purchases :
         /\ purchase'[q].status = "NONE" => ~purchase'[q].contract
         /\ purchase'[q].status \in {"CONTRACT_SIGNED", "PAYMENT_PENDING", "COMPLETED"}
                => purchase'[q].contract
         /\ purchase'[q].status \in {"PAYMENT_PENDING", "COMPLETED"} => purchase'[q].invoice # Nil
  BY DEF Writes, Staged, Stored
<1>4. \A s \in Slots : job'[s].pc # "idle" =>
         /\ job'[s].p = job[s].p /\ job[s].p \in Purchases
         /\ job'[s].pc = job[s].pc \/ (job[s].pc = "paid" /\ job'[s].pc = "crediting")
  BY DEF Writes, Known
<1>5. \A s \in Slots :
         /\ job'[s].pc \in {"invoicing", "invoiced"} => purchase'[job'[s].p].contract
         /\ job'[s].pc \in ConfPc => purchase'[job'[s].p].invoice # Nil
  BY <1>1, <1>4 DEF Staged, Stored, ConfPc
<1>6. shown' \in SUBSET {i \in Invoices : invoiceOf'[i] \in Purchases}
  BY DEF Writes, Staged, Stored
<1>7. QED
  BY <1>2, <1>3, <1>5, <1>6 DEF Stored

(* The row of the purchase a handler works on, which a step has written.   *)
LEMMA StagedContract ==
    ASSUME Known, Traced, Staged, NEW t \in Slots, WriteContract(t)
    PROVE  Staged'
<1>1. PICK p \in Purchases : p = job[t].p
  BY DEF WriteContract, Known
<1>2. /\ purchase'[p].contract /\ purchase'[p].status = "CONTRACT_SIGNED"
      /\ purchase'[p].invoice = purchase[p].invoice /\ purchase'[p].qpay = purchase[p].qpay
      /\ \A q \in Purchases \ {p} : purchase'[q] = purchase[q]
  BY <1>1 DEF WriteContract, Known, PurchaseRow
<1>3. Writes(t, p) /\ job[t].pc = "signing" /\ job'[t].pc = "idle" /\ shown' = shown
  BY <1>1, <1>2 DEF WriteContract, Writes, EndJob, IdleJob, Known, qpayVars, historyVars
<1>4. Stored'
  BY <1>2, <1>3, StoredKept
<1>5. \A s \in Slots : /\ Prepares(s, p)' => Prepares(s, p) /\ s # t
                       /\ Confirms(s, p)' => Confirms(s, p) /\ job'[s] = job[s]
  BY <1>3 DEF Writes, Prepares, Confirms, PrepPc, ConfPc
<1>6. ASSUME p \notin raced PROVE AtStage(p)' /\ purchase[p].status = "PENDING"
  <2>1. AtStage(p) /\ Prepares(t, p)
    BY <1>1, <1>3, <1>6 DEF Staged, Prepares, PrepPc
  <2>2. purchase[p].status = "PENDING" /\ purchase[p].invoice = Nil
    BY <1>3, <2>1 DEF AtStage
  <2>3. \A s \in Slots : ~Prepares(s, p)'
    BY <1>5, <2>1 DEF AtStage
  <2>4. invoiceOf' = invoiceOf /\ paid' = paid
    BY <1>3 DEF Writes
  <2>5. QED
    BY <1>2, <1>3, <1>5, <2>1, <2>2, <2>3, <2>4 DEF AtStage
<1>7. ASSUME p \notin raced \cup overlapped PROVE Agree(p)'
  BY <1>2, <1>5, <1>6, <1>7 DEF Staged, Agree
<1>8. raced' = raced /\ overlapped' = overlapped
  BY <1>3 DEF Writes
<1>9. QED
  BY <1>3, <1>4, <1>6, <1>7, <1>8, OthersKept DEF Staged

LEMMA StagedInvoice ==
    ASSUME Known, Traced, Staged, NEW t \in Slots, WriteInvoice(t) \/ LoseInvoice(t)
    PROVE  Staged'
<1>1. PICK p \in Purchases : p = job[t].p
  BY DEF WriteInvoice, LoseInvoice, Known
<1>2. /\ purchase' = [purchase EXCEPT ![p].invoice = job[t].inv, ![p].status = "PAYMENT_PENDING"]
      /\ job[t].pc = "invoiced" /\ EndJob(t)
      /\ UNCHANGED <<invoiceOf, paid, raced, overlapped>>
      /\ shown' = shown \/ shown' = shown \cup {job[t].inv}
  BY <1>1 DEF WriteInvoice, LoseInvoice, qpayVars, historyVars
<1>3. job[t].inv \in Invoices /\ invoiceOf[job[t].inv] = p /\ job[t].inv # Nil
  BY <1>1, <1>2, PurchaseAssumption DEF Traced, JobsTraced, HoldsInvoice
<1>4. /\ purchase'[p].contract = purchase[p].contract /\ purchase'[p].invoice = job[t].inv
      /\ purchase'[p].status = "PAYMENT_PENDING" /\ purchase'[p].qpay = purchase[p].qpay
      /\ \A q \in Purchases \ {p} : purchase'[q] = purchase[q]
  BY <1>2 DEF Known, PurchaseRow
<1>5. Writes(t, p) /\ job'[t].pc = "idle"
  BY <1>1, <1>2, <1>3, <1>4 DEF Writes, EndJob, IdleJob, Known
<1>6. purchase[p].contract
  BY <1>1, <1>2 DEF Staged, Stored
<1>7. Stored'
  BY <1>3, <1>4, <1>5, <1>6, StoredKept
<1>8. \A s \in Slots : /\ Prepares(s, p)' => Prepares(s, p) /\ s # t
                       /\ Confirms(s, p)' => Confirms(s, p) /\ job'[s] = job[s]
  BY <1>5 DEF Writes, Prepares, Confirms, PrepPc, ConfPc
<1>9. ASSUME p \notin raced PROVE AtStage(p)' /\ purchase[p].status = "CONTRACT_SIGNED"
  <2>1. AtStage(p) /\ Prepares(t, p)
    BY <1>1, <1>2, <1>9 DEF Staged, Prepares, PrepPc
  <2>2. purchase[p].status = "CONTRACT_SIGNED" /\ purchase[p].invoice = Nil
    BY <1>2, <2>1 DEF AtStage
  <2>3. \A s \in Slots : ~Prepares(s, p)'
    BY <1>8, <2>1 DEF AtStage
  <2>4. \A s \in Slots : ~Confirms(s, p)
    BY <2>2 DEF Staged, Stored, Confirms
  <2>5. \A i \in shown : invoiceOf[i] # p
    BY <2>1, <2>2, PurchaseAssumption DEF AtStage, Staged, Stored
  <2>6. \A i \in shown' : invoiceOf[i] = p => i = job[t].inv
    BY <1>2, <2>5
  <2>7. QED
    BY <1>2, <1>4, <1>8, <2>2, <2>3, <2>4, <2>6 DEF AtStage
<1>10. ASSUME p \notin raced \cup overlapped PROVE Agree(p)'
  BY <1>4, <1>8, <1>9, <1>10 DEF Staged, Agree
<1>11. QED
  BY <1>2, <1>5, <1>7, <1>9, <1>10, OthersKept DEF Staged

LEMMA StagedUnpaid ==
    ASSUME Known, Traced, Staged, NEW t \in Slots, WriteUnpaid(t)
    PROVE  Staged'
<1>1. PICK p \in Purchases : p = job[t].p /\ purchase[p].status # "NONE"
  BY DEF WriteUnpaid, Known
<1>2. /\ purchase'[p].contract = purchase[p].contract
      /\ purchase'[p].invoice = purchase[p].invoice
      /\ purchase'[p].status = purchase[p].status /\ purchase'[p].qpay = "PENDING"
      /\ \A q \in Purchases \ {p} : purchase'[q] = purchase[q]
  BY <1>1 DEF WriteUnpaid, Known, PurchaseRow
<1>3. Writes(t, p) /\ job[t].pc = "unpaid" /\ job'[t].pc = "idle" /\ shown' = shown
  BY <1>1, <1>2 DEF WriteUnpaid, Writes, EndJob, IdleJob, Known, qpayVars, historyVars
<1>4. Stored'
  BY <1>1, <1>2, <1>3, StoredKept DEF Staged, Stored
<1>5. \A s \in Slots : /\ Prepares(s, p)' => Prepares(s, p) /\ job'[s] = job[s]
                       /\ Confirms(s, p)' => Confirms(s, p) /\ job'[s] = job[s]
  BY <1>3 DEF Writes, Prepares, Confirms, PrepPc, ConfPc
<1>6. UNCHANGED <<invoiceOf, paid, raced, overlapped>>
  BY <1>3 DEF Writes
<1>7. p \notin raced => AtStage(p)'
  BY <1>2, <1>3, <1>5, <1>6 DEF Staged, AtStage
<1>8. ASSUME p \notin raced \cup overlapped PROVE Agree(p)'
  <2>1. Agree(p) /\ Confirms(t, p)
    BY <1>1, <1>3, <1>8 DEF Staged, Confirms, ConfPc
  <2>2. QED
    BY <1>2, <1>3, <1>5, <2>1 DEF Agree
<1>9. QED
  BY <1>3, <1>4, <1>6, <1>7, <1>8, OthersKept DEF Staged

LEMMA StagedPaid ==
    ASSUME Known, Traced, Staged, NEW t \in Slots, WritePaid(t)
    PROVE  Staged'
<1>1. PICK p \in Purchases : p = job[t].p
  BY DEF WritePaid, Known
<1>2. /\ purchase'[p].contract = purchase[p].contract
      /\ purchase'[p].invoice = purchase[p].invoice
      /\ purchase'[p].status = "COMPLETED" /\ purchase'[p].qpay = "PAID"
      /\ \A q \in Purchases \ {p} : purchase'[q] = purchase[q]
  BY <1>1 DEF WritePaid, Known, PurchaseRow
<1>3. /\ job[t].pc = "paid" /\ Goto(t, "crediting")
      /\ UNCHANGED <<invoiceOf, shown, paid, raced, overlapped>>
  BY DEF WritePaid, qpayVars, historyVars
<1>4. /\ job'[t].pc = "crediting" /\ job'[t].p = p /\ job'[t].inv = job[t].inv
      /\ \A s \in Slots \ {t} : job'[s] = job[s]
  BY <1>1, <1>3 DEF Goto, Known, Job
<1>5. Writes(t, p)
  BY <1>1, <1>2, <1>3, <1>4 DEF Writes
<1>6. purchase[p].invoice # Nil /\ purchase[p].contract
  <2>1. purchase[p].invoice # Nil
    BY <1>1, <1>3 DEF Staged, Stored, ConfPc
  <2>2. QED
    BY <2>1, PurchaseAssumption DEF Traced, RowsTraced, Staged, Stored, QpayOK
<1>7. Stored'
  BY <1>2, <1>5, <1>6, StoredKept
<1>8. \A s \in Slots : /\ Prepares(s, p)' <=> Prepares(s, p)
                       /\ Confirms(s, p)' <=> Confirms(s, p)
                       /\ job'[s].inv = job[s].inv
                       /\ job'[s].pc = "unpaid" => s # t
  BY <1>1, <1>3, <1>4 DEF Prepares, Confirms, PrepPc, ConfPc
<1>9. Confirms(t, p) /\ job[t].inv \in paid
  BY <1>1, <1>3 DEF Confirms, ConfPc, Traced, JobsTraced, HasPaid
<1>10. ASSUME p \notin raced PROVE AtStage(p)'
  <2>1. AtStage(p)
    BY <1>10 DEF Staged
  <2>2. \A s \in Slots : ~Prepares(s, p)
    BY <1>6, <2>1 DEF AtStage
  <2>3. purchase[p].invoice \in paid
    BY <1>9, <2>1 DEF AtStage
  <2>4. QED
    BY <1>2, <1>3, <1>8, <2>1, <2>2, <2>3 DEF AtStage
<1>11. ASSUME p \notin raced \cup overlapped PROVE Agree(p)'
  <2>1. Agree(p)
    BY <1>11 DEF Staged
  <2>2. \A s \in Slots : Confirms(s, p) => s = t
    BY <1>9, <2>1 DEF Agree
  <2>3. QED
    BY <1>2, <1>8, <2>1, <2>2 DEF Agree
<1>12. QED
  BY <1>3, <1>5, <1>7, <1>10, <1>11, OthersKept DEF Staged

LEMMA StagedStep == Known /\ Traced /\ Staged /\ [Next]_vars => Staged'
<1> SUFFICES ASSUME Known, Traced, Staged, [Next]_vars PROVE Staged'
  OBVIOUS
<1>1. ASSUME NEW t \in Slots, CheckPayment(t) PROVE Staged'
  <2>1. /\ job[t].pc = "checking" /\ Goto(t, IF job[t].inv \in paid THEN "paid" ELSE "unpaid")
        /\ UNCHANGED <<purchase, invoiceOf, shown, paid, raced, overlapped>>
    BY <1>1 DEF CheckPayment, qpayVars
  <2>2. \A s \in Slots : GoesOn(s)
    BY <2>1 DEF GoesOn, Goto, Known, Job, ConfPc
  <2>3. QED
    BY <2>1, <2>2, StagedKept
<1>2. ASSUME NEW t \in Slots, Credited(t) PROVE Staged'
  <2>1. /\ job[t].pc = "crediting" /\ Goto(t, "levelling")
        /\ UNCHANGED <<purchase, invoiceOf, shown, paid, raced, overlapped>>
    BY <1>2 DEF Credited, qpayVars, historyVars
  <2>2. \A s \in Slots : GoesOn(s)
    BY <2>1 DEF GoesOn, Goto, Known, Job, ConfPc
  <2>3. QED
    BY <2>1, <2>2, StagedKept
<1>3. ASSUME NEW t \in Slots, Answer(t) \/ FailJob(t) \/ Abandon(t) PROVE Staged'
  <2>1. EndJob(t) /\ UNCHANGED <<purchase, invoiceOf, shown, paid, raced, overlapped>>
    BY <1>3 DEF Answer, FailJob, Abandon, qpayVars, historyVars
  <2>2. \A s \in Slots : GoesOn(s)
    BY <2>1 DEF GoesOn, EndJob, IdleJob, Known
  <2>3. QED
    BY <2>1, <2>2, StagedKept
<1>4. ASSUME \/ \E t \in Slots : Credit(t) \/ Level(t) \/ FailService(t)
             \/ \E u \in Users : OpenWallet(u)
             \/ \E i \in Invoices : PayInvoice(i)
             \/ UNCHANGED vars
      PROVE Staged'
  <2>1. /\ UNCHANGED <<purchase, job, invoiceOf, shown, raced, overlapped>>
        /\ paid \subseteq paid'
    BY <1>4 DEF Credit, Level, FailService, OpenWallet, PayInvoice, vars, qpayVars, historyVars
  <2>2. \A s \in Slots : GoesOn(s)
    BY <2>1 DEF GoesOn
  <2>3. QED
    BY <2>1, <2>2, StagedKept
<1>5. ASSUME Crash PROVE Staged'
  <2>1. /\ UNCHANGED <<purchase, invoiceOf, shown, paid, raced, overlapped>>
        /\ \A s \in Slots : job'[s].pc = "idle"
    BY <1>5 DEF Crash, IdleJob, qpayVars
  <2>2. \A s \in Slots : GoesOn(s)
    BY <2>1 DEF GoesOn
  <2>3. QED
    BY <2>1, <2>2, StagedKept
<1>6. ASSUME NEW t \in Slots,
             \/ WriteContract(t) \/ WriteInvoice(t) \/ LoseInvoice(t)
             \/ WriteUnpaid(t) \/ WritePaid(t) \/ IssueInvoice(t)
      PROVE  Staged'
  BY <1>6, StagedContract, StagedInvoice, StagedUnpaid, StagedPaid, StagedIssue
<1>7. ASSUME NEW t \in Slots, NEW p \in Purchases,
             \/ SignContract(t, p) \/ CreateQpayInvoice(t, p)
             \/ \E i \in Invoices : HandleQpayWebhook(t, p, i)
      PROVE  Staged'
  BY <1>7, StagedPrepare, StagedDeliver
<1>8. ASSUME NEW p \in Purchases, NEW u \in Users, NEW g \in Grams, InitiatePurchase(p, u, g)
      PROVE  Staged'
  BY <1>8, StagedInitiate
<1>9. QED
  BY <1>1, <1>2, <1>3, <1>4, <1>5, <1>6, <1>7, <1>8 DEF Next, Run, Deliver

LEMMA AlwaysStaged == Spec => [](Known /\ Traced /\ Staged)
<1>1. Init => Known /\ Traced /\ Staged
  BY KnownInit, TracedInit, StagedInit
<1>2. Known /\ Traced /\ Staged /\ [Next]_vars => (Known /\ Traced /\ Staged)'
  BY KnownStep, TracedStep, StagedStep
<1>3. QED
  BY <1>1, <1>2, PTL DEF Spec

(* No invoice without a stored contract, every status has what it stands   *)
(* for, and a shown invoice is the one its row names unless sign or        *)
(* invoice requests of the purchase overlapped.                            *)
THEOREM InvoicesInOrder == Spec => []InvoiceInOrder
<1>1. Staged => InvoiceInOrder
  BY DEF Staged, Stored, AtStage, InvoiceInOrder
<1>2. QED
  BY <1>1, AlwaysStaged, PTL

(* Status and qpayStatus tell the same story unless requests or callbacks  *)
(* of the purchase overlapped.                                             *)
THEOREM StatusesAgree == Spec => []SettlementAgrees
<1>1. Staged => SettlementAgrees
  BY DEF Staged, Agree, SettlementAgrees
<1>2. QED
  BY <1>1, AlwaysStaged, PTL

LEMMA StaysCompleted ==
    ASSUME Known, Traced, Staged, [Next]_vars,
           NEW p \in Purchases, p \notin raced, purchase[p].status = "COMPLETED"
    PROVE  purchase'[p].status = "COMPLETED"
<1>0. AtStage(p)
  BY DEF Staged
<1>1. ASSUME NEW t \in Slots, WriteContract(t) \/ WriteInvoice(t) \/ LoseInvoice(t)
      PROVE  purchase'[p].status = "COMPLETED"
  <2>1. job[t].pc \in {"signing", "invoiced"}
    BY <1>1 DEF WriteContract, WriteInvoice, LoseInvoice
  <2>2. job[t].p # p
    BY <1>0, <2>1 DEF AtStage, Prepares, PrepPc
  <2>3. \E row : purchase' = [purchase EXCEPT ![job[t].p] = row]
    BY <1>1 DEF WriteContract, WriteInvoice, LoseInvoice
  <2>4. QED
    BY <2>2, <2>3 DEF Known
<1>2. ASSUME NEW t \in Slots, WriteUnpaid(t) \/ WritePaid(t)
      PROVE  purchase'[p].status = "COMPLETED"
  BY <1>2 DEF WriteUnpaid, WritePaid, Known, PurchaseRow
<1>3. ASSUME NEW q \in Purchases, NEW u \in Users, NEW g \in Grams, InitiatePurchase(q, u, g)
      PROVE  purchase'[p].status = "COMPLETED"
  BY <1>3 DEF InitiatePurchase, Known
<1>4. ASSUME \/ \E t \in Slots :
                \/ IssueInvoice(t) \/ CheckPayment(t) \/ Credit(t) \/ Credited(t) \/ Level(t)
                \/ Answer(t) \/ Abandon(t) \/ FailJob(t) \/ FailService(t)
             \/ \E u \in Users : OpenWallet(u)
             \/ \E i \in Invoices : PayInvoice(i)
             \/ \E t \in Slots, q \in Purchases :
                   \/ SignContract(t, q) \/ CreateQpayInvoice(t, q)
                   \/ \E i \in Invoices : HandleQpayWebhook(t, q, i)
             \/ Crash \/ UNCHANGED vars
      PROVE  purchase' = purchase
  BY <1>4 DEF IssueInvoice, CheckPayment, Credit, Credited, Level, Answer, Abandon, FailJob,
              FailService, OpenWallet, PayInvoice, SignContract, CreateQpayInvoice, Prepare,
              HandleQpayWebhook, Crash, vars
<1>5. QED
  BY <1>1, <1>2, <1>3, <1>4 DEF Next, Run, Deliver

(* A completed purchase stays completed unless sign or invoice requests of *)
(* it overlapped.                                                          *)
THEOREM CompletedForGood == Spec => SettledStaysSettled
<1>1. Known /\ Traced /\ Staged /\ [Next]_vars =>
         [\A p \in Purchases \ raced :
             purchase[p].status = "COMPLETED" => purchase'[p].status = "COMPLETED"]_vars
  BY StaysCompleted
<1>2. QED
  BY <1>1, AlwaysStaged, PTL DEF Spec, SettledStaysSettled
-----------------------------------------------------------------------------
(***************************************************************************)
(* The handlers use the wallet only through its service, so what is proved *)
(* of the service holds here.                                              *)
(***************************************************************************)
LEMMA SameNext == W!Next => WP!Next
<1>1. ASSUME NEW u \in Users, W!CreateWallet(u) PROVE WP!CreateWallet(u)
  BY <1>1 DEF W!CreateWallet, WP!CreateWallet, W!historyVars, WP!historyVars
<1>2. ASSUME NEW t \in Slots, W!Step(t) PROVE WP!Step(t)
  BY <1>2 DEF W!Step, WP!Step, W!ReadForAdd, WP!ReadForAdd, W!ReadForDeduct, WP!ReadForDeduct,
     W!RefuseDeduct, WP!RefuseDeduct, W!WriteAdd, WP!WriteAdd, W!WriteDeduct, WP!WriteDeduct,
     W!LogTransaction, WP!LogTransaction, W!TakeSnapshot, WP!TakeSnapshot, W!Goto, WP!Goto,
     W!BalanceAfter, WP!BalanceAfter, W!HoldsRead, WP!HoldsRead, W!PastRead, WP!PastRead,
     W!historyVars, WP!historyVars
<1>3. ASSUME NEW t \in Slots, W!Fail(t) \/ W!Return(t) PROVE WP!Fail(t) \/ WP!Return(t)
  BY <1>3 DEF W!Fail, WP!Fail, W!Return, WP!Return, W!Goto, WP!Goto, W!IdleFrame, WP!IdleFrame,
     W!EmptyAccount, WP!EmptyAccount, W!historyVars, WP!historyVars
<1>4. ASSUME W!Crash PROVE WP!Crash
  BY <1>4 DEF W!Crash, WP!Crash, W!IdleFrame, WP!IdleFrame, W!EmptyAccount, WP!EmptyAccount
<1>5. ASSUME NEW t \in Slots, NEW u \in Users, NEW g \in Grams, NEW r \in Refs,
             W!AddGrams(t, u, g, r) \/ W!DeductGrams(t, u, g, r)
      PROVE  WP!AddGrams(t, u, g, r) \/ WP!DeductGrams(t, u, g, r)
  BY <1>5 DEF W!AddGrams, WP!AddGrams, W!DeductGrams, WP!DeductGrams, W!Start, WP!Start,
     W!EmptyAccount, WP!EmptyAccount, W!historyVars, WP!historyVars
<1>6. QED
  BY <1>1, <1>2, <1>3, <1>4, <1>5 DEF W!Next, WP!Next

LEMMA SameTypes == W!TypeOK <=> WP!TypeOK
BY DEF W!TypeOK, WP!TypeOK, W!LedgerRow, WP!LedgerRow, W!Account, WP!Account,
       W!Frame, WP!Frame, W!CallPc, WP!CallPc, W!Ops, WP!Ops

LEMMA WalletTyped ==
    ASSUME Known, W!TypeOK, [Next]_vars
    PROVE  W!TypeOK'
<1>1. WP!WalletAssumption
  BY PurchaseAssumption DEF PurchaseAssumption, WP!WalletAssumption
<1>2. [W!Next]_(W!vars) => [WP!Next]_(WP!vars)
  BY SameNext DEF W!vars, W!walletVars, W!historyVars, WP!vars, WP!walletVars, WP!historyVars
<1>3. [WP!Next]_(WP!vars)
  BY <1>2, WalletStep
<1>4. WP!TypeOK
  BY SameTypes
<1>5. WP!TypeOK'
  BY <1>1, <1>3, <1>4, WP!TypeStep
<1>6. (W!TypeOK <=> WP!TypeOK)'
  BY SameTypes, PTL
<1>7. QED
  BY <1>5, <1>6

LEMMA TypedInit == Init => W!TypeOK
<1>1. WP!WalletAssumption
  BY PurchaseAssumption DEF PurchaseAssumption, WP!WalletAssumption
<1>2. W!Init => WP!Init
  BY DEF W!Init, WP!Init, W!EmptyAccount, WP!EmptyAccount, W!IdleFrame, WP!IdleFrame
<1>3. QED
  BY <1>1, <1>2, SameTypes, WP!TypeInit DEF Init

(* In particular no credit, repeated or not, leaves a wallet with less     *)
(* than nothing or with more than was credited to it.                      *)
THEOREM NoCreditFromNothing == Spec => [](W!Solvent /\ W!NoGoldFromNothing)
<1>1. WP!WalletAssumption
  BY PurchaseAssumption DEF PurchaseAssumption, WP!WalletAssumption
<1>2. W!Init => WP!Init
  BY DEF W!Init, WP!Init, W!EmptyAccount, WP!EmptyAccount, W!IdleFrame, WP!IdleFrame
<1>3. [W!Next]_(W!vars) => [WP!Next]_(WP!vars)
  BY SameNext DEF W!vars, W!walletVars, W!historyVars, WP!vars, WP!walletVars, WP!historyVars
<1>4. WP!Solvent /\ WP!NoGoldFromNothing => W!Solvent /\ W!NoGoldFromNothing
  BY DEF WP!Solvent, W!Solvent, WP!NoGoldFromNothing, W!NoGoldFromNothing
<1>5. WP!Spec => [](WP!Solvent /\ WP!NoGoldFromNothing)
  BY <1>1, WP!NeverNegative, WP!NeverMinted, PTL
<1>6. QED
  BY ImplementsWallet, <1>2, <1>3, <1>4, <1>5, PTL DEF WalletSpec, W!Spec, WP!Spec
-----------------------------------------------------------------------------
(***************************************************************************)
(* Types.  The rows of MembershipConfig give levels a threshold.           *)
(***************************************************************************)
TableOK == DOMAIN Thresholds \subseteq Levels /\ \A l \in DOMAIN Thresholds : Thresholds[l] \in Int

MemberOK ==
    /\ level \in [Users -> Levels]
    /\ check \in [Slots -> M!CheckFrame]
    /\ \A t \in Slots : check[t].pc # "idle" => check[t].user \in Users

LEMMA MemberInit == Init => MemberOK
BY PurchaseAssumption DEF Init, M!ServiceInit, M!IdleCheck, M!CheckFrame, M!CheckPc, MemberOK

(* The steps a handler takes of a membership check.                        *)
CheckMoves ==
    \/ \E t \in Slots :
          \/ \E u \in Users : M!StartCheck(t, u)
          \/ M!StepCheck(t) \/ M!FailCheck(t) \/ M!ReturnCheck(t)
    \/ M!ForgetChecks /\ UNCHANGED level
    \/ UNCHANGED memberVars

LEMMA MemberStep == ASSUME TableOK, MemberOK, W!TypeOK, CheckMoves PROVE MemberOK'
<1> USE DEF MemberOK, M!CheckFrame, M!CheckPc
<1>1. ASSUME NEW t \in Slots, NEW u \in Users, M!StartCheck(t, u) PROVE MemberOK'
  BY <1>1 DEF M!StartCheck
<1>2. ASSUME NEW t \in Slots, M!ReadTotal(t) PROVE MemberOK'
  <2>1. check[t].user \in Users /\ wallet[check[t].user].purchased \in Int
    BY <1>2 DEF M!ReadTotal, W!TypeOK, W!Account
  <2>2. QED
    BY <1>2, <2>1 DEF M!ReadTotal, M!Goto
<1>3. ASSUME NEW t \in Slots, M!ReadConfigs(t) PROVE MemberOK'
  <2>1. PICK l \in M!LevelsFor(Thresholds, check[t].total) :
           check' = [check EXCEPT ![t].pc = "user", ![t].next = l]
    BY <1>3 DEF M!ReadConfigs
  <2>2. l \in Levels
    BY PurchaseAssumption DEF M!LevelsFor, M!Reached, TableOK
  <2>3. check[t].user \in Users
    BY <1>3 DEF M!ReadConfigs
  <2>4. QED
    BY <1>3, <2>1, <2>2, <2>3 DEF M!ReadConfigs
<1>4. ASSUME NEW t \in Slots, M!ReadUser(t) \/ M!UpdateLevel(t) \/ M!FailCheck(t)
      PROVE  MemberOK'
  <2>1. check[t].pc # "idle" /\ check[t].user \in Users /\ check[t].next \in Levels
    BY <1>4 DEF M!ReadUser, M!UpdateLevel, M!FailCheck
  <2>2. level' \in [Users -> Levels]
    BY <1>4, <2>1 DEF M!ReadUser, M!UpdateLevel, M!FailCheck
  <2>3. \E pc \in M!CheckPc : check' = [check EXCEPT ![t].pc = pc]
    BY <1>4 DEF M!ReadUser, M!UpdateLevel, M!FailCheck, M!Goto
  <2>4. QED
    BY <2>1, <2>2, <2>3
<1>5. ASSUME NEW t \in Slots, M!ReturnCheck(t) PROVE MemberOK'
  BY <1>5, PurchaseAssumption DEF M!ReturnCheck, M!IdleCheck
<1>6. CASE M!ForgetChecks /\ UNCHANGED level
  BY <1>6, PurchaseAssumption DEF M!ForgetChecks, M!IdleCheck
<1>7. CASE UNCHANGED memberVars
  BY <1>7 DEF memberVars
<1>8. QED
  BY <1>1, <1>2, <1>3, <1>4, <1>5, <1>6, <1>7 DEF CheckMoves, M!StepCheck

LEMMA MemberTyped == TableOK /\ MemberOK => M!ServiceTypeOK
<1>1. <<>> \in [{} -> Seq(M!Row)]
  OBVIOUS
<1>2. QED
  BY <1>1 DEF TableOK, MemberOK, M!ServiceTypeOK

Records ==
    /\ answered \in SUBSET Invoices
    /\ raced \in SUBSET Purchases /\ overlapped \in SUBSET Purchases
    /\ disturbed \in SUBSET Users
    /\ faults \in Nat

LEMMA TypesStep ==
    Known /\ Traced /\ Records /\ [Next]_vars => CheckMoves /\ Records'
<1> SUFFICES ASSUME Known, Traced, Records, [Next]_vars PROVE CheckMoves /\ Records'
  OBVIOUS
<1> USE DEF CheckMoves, Records
<1>0. ASSUME NEW t \in Slots, job[t].pc # "idle"
      PROVE  purchase[job[t].p].user \in Users
  BY <1>0 DEF Known, Initiated
<1>1. ASSUME NEW t \in Slots, WriteContract(t) \/ IssueInvoice(t) \/ WriteInvoice(t)
                                 \/ WriteUnpaid(t) \/ WritePaid(t)
      PROVE  CheckMoves /\ Records'
  BY <1>1 DEF WriteContract, IssueInvoice, WriteInvoice, WriteUnpaid, WritePaid, qpayVars,
              historyVars
<1>2. ASSUME NEW t \in Slots, Credit(t) \/ Credited(t) \/ Level(t) \/ Abandon(t)
      PROVE  CheckMoves /\ Records'
  <2>1. CASE Credited(t)
    <3>1. \E u \in Users : M!StartCheck(t, u)
      BY <1>0, <2>1 DEF Credited
    <3>2. QED
      BY <2>1, <3>1 DEF Credited, qpayVars, historyVars
  <2>2. CASE Credit(t)
    BY <2>2 DEF Credit, qpayVars
  <2>3. CASE Level(t) \/ Abandon(t)
    BY <2>3 DEF Level, Abandon, qpayVars, historyVars, memberVars
  <2>4. QED
    BY <1>2, <2>1, <2>2, <2>3
<1>3. ASSUME NEW t \in Slots, CheckPayment(t) PROVE CheckMoves /\ Records'
  BY <1>0, <1>3 DEF CheckPayment, qpayVars
<1>4. ASSUME NEW t \in Slots, Answer(t) PROVE CheckMoves /\ Records'
  <2>1. job[t].inv \in Invoices
    BY <1>4 DEF Answer, Traced, JobsTraced, HoldsInvoice, HasPaid
  <2>2. QED
    BY <1>4, <2>1 DEF Answer, historyVars
<1>5. ASSUME NEW t \in Slots, FailJob(t) \/ FailService(t) \/ LoseInvoice(t)
      PROVE  CheckMoves /\ Records'
  BY <1>0, <1>5 DEF FailJob, FailService, LoseInvoice, Fault, qpayVars
<1>6. ASSUME NEW t \in Slots, NEW p \in Purchases,
             \/ SignContract(t, p) \/ CreateQpayInvoice(t, p)
             \/ \E i \in Invoices : HandleQpayWebhook(t, p, i)
      PROVE  CheckMoves /\ Records'
  BY <1>6 DEF SignContract, CreateQpayInvoice, Prepare, HandleQpayWebhook, qpayVars
<1>7. ASSUME NEW p \in Purchases, NEW u \in Users, NEW g \in Grams, InitiatePurchase(p, u, g)
      PROVE  CheckMoves /\ Records'
  BY <1>7 DEF InitiatePurchase, qpayVars, historyVars
<1>8. ASSUME NEW i \in Invoices, PayInvoice(i) PROVE CheckMoves /\ Records'
  BY <1>8 DEF PayInvoice, historyVars
<1>9. CASE Crash
  BY <1>9 DEF Crash, Fault, qpayVars
<1>10. ASSUME NEW u \in Users, OpenWallet(u) PROVE CheckMoves /\ Records'
  BY <1>10 DEF OpenWallet, qpayVars, historyVars
<1>11. CASE UNCHANGED vars
  BY <1>11 DEF vars, qpayVars, historyVars
<1>12. QED
  BY <1>1, <1>2, <1>3, <1>4, <1>5, <1>6, <1>7, <1>8, <1>9, <1>10, <1>11 DEF Next, Run, Deliver

(* Purchases, handlers, invoices, wallets, checks and the records of the   *)
(* past keep their types.                                                  *)
THEOREM TypeCorrect == ASSUME TableOK PROVE Spec => []TypeOK
<1> DEFINE Inv == Known /\ Traced /\ Staged /\ W!TypeOK /\ MemberOK /\ Records
<1>1. Init => Inv
  BY KnownInit, TracedInit, StagedInit, TypedInit, MemberInit DEF Init, Records
<1>2. Inv /\ [Next]_vars => Inv'
  BY KnownStep, TracedStep, StagedStep, WalletTyped, TypesStep, MemberStep
<1>3. Inv => TypeOK
  BY MemberTyped DEF Known, Traced, QpayOK, Staged, Stored, Records, TypeOK
<1>4. QED
  BY <1>1, <1>2, <1>3, PTL DEF Spec
-----------------------------------------------------------------------------
(***************************************************************************)
(* The books agree: a wallet holds what its user's completed purchases add *)
(* up to.  First the facts about sums, from WalletProofs, for the sums of  *)
(* this module.                                                            *)
(***************************************************************************)
LEMMA SameSum == ASSUME NEW f, NEW S PROVE WP!SumFunctionOnSet(f, S) = SumFunctionOnSet(f, S)
BY DEF WP!SumFunctionOnSet, WP!FoldFunctionOnSet, WP!MapThenFoldSet,
       SumFunctionOnSet, FoldFunctionOnSet, MapThenFoldSet

LEMMA SameFinite == ASSUME NEW S PROVE WP!IsFiniteSet(S) <=> IsFiniteSet(S)
BY DEF WP!IsFiniteSet, IsFiniteSet

LEMMA SumNothing == ASSUME NEW f PROVE SumFunctionOnSet(f, {}) = 0
<1>1. WP!WalletAssumption
  BY PurchaseAssumption DEF PurchaseAssumption, WP!WalletAssumption
<1>2. QED
  BY <1>1, WP!SumNothing, SameSum

LEMMA SumMore ==
    ASSUME NEW f, NEW S, IsFiniteSet(S), \A x \in S : f[x] \in Int, NEW x \in S
    PROVE  SumFunctionOnSet(f, S) = f[x] + SumFunctionOnSet(f, S \ {x})
<1>1. WP!WalletAssumption
  BY PurchaseAssumption DEF PurchaseAssumption, WP!WalletAssumption
<1>2. WP!IsFiniteSet(S)
  BY SameFinite
<1>3. WP!SumFunctionOnSet(f, S) = f[x] + WP!SumFunctionOnSet(f, S \ {x})
  BY <1>1, <1>2, WP!SumMore
<1>4. /\ WP!SumFunctionOnSet(f, S) = SumFunctionOnSet(f, S)
      /\ WP!SumFunctionOnSet(f, S \ {x}) = SumFunctionOnSet(f, S \ {x})
  BY SameSum
<1>5. QED
  BY <1>3, <1>4

LEMMA SumInt ==
    ASSUME NEW f, NEW S, IsFiniteSet(S), \A x \in S : f[x] \in Int
    PROVE  SumFunctionOnSet(f, S) \in Int
<1>1. WP!WalletAssumption
  BY PurchaseAssumption DEF PurchaseAssumption, WP!WalletAssumption
<1>2. WP!IsFiniteSet(S)
  BY SameFinite
<1>3. \A x \in S : WP!SumFunctionOnSet(f, S) \in Int
  BY <1>1, <1>2, WP!SumMore
<1>4. S = {} => SumFunctionOnSet(f, S) = 0
  BY SumNothing
<1>5. QED
  BY <1>3, <1>4, SameSum

LEMMA SumSame ==
    ASSUME NEW f, NEW e, NEW S, IsFiniteSet(S), \A x \in S : f[x] = e[x]
    PROVE  SumFunctionOnSet(f, S) = SumFunctionOnSet(e, S)
<1>1. WP!WalletAssumption
  BY PurchaseAssumption DEF PurchaseAssumption, WP!WalletAssumption
<1>2. WP!IsFiniteSet(S)
  BY SameFinite
<1>3. WP!SumFunctionOnSet(f, S) = WP!SumFunctionOnSet(e, S)
  BY <1>1, <1>2, WP!SumSame
<1>4. QED
  BY <1>3, SameSum

-----------------------------------------------------------------------------
(* What one step does to the rows: a new one, or none.                     *)
SameRow(p) ==
    /\ purchase'[p].user = purchase[p].user
    /\ purchase'[p].grams = purchase[p].grams
    /\ purchase'[p].status = "NONE" <=> purchase[p].status = "NONE"

LEMMA RowsStay ==
    ASSUME Known, [Next]_vars
    PROVE  \/ \A p \in Purchases : SameRow(p)
           \/ \E p \in Purchases, u \in Users, g \in Grams : InitiatePurchase(p, u, g)
<1> USE DEF SameRow
<1>1. ASSUME NEW t \in Slots,
             WriteContract(t) \/ WriteInvoice(t) \/ LoseInvoice(t) \/ WriteUnpaid(t) \/ WritePaid(t)
      PROVE  \A p \in Purchases : SameRow(p)
  <2>1. job[t].p \in Purchases /\ purchase[job[t].p].status # "NONE"
    BY <1>1 DEF WriteContract, WriteInvoice, LoseInvoice, WriteUnpaid, WritePaid, Known
  <2>2. CASE WriteContract(t)
    BY <2>1, <2>2 DEF WriteContract, Known, PurchaseRow
  <2>3. CASE WriteInvoice(t) \/ LoseInvoice(t)
    BY <2>1, <2>3 DEF WriteInvoice, LoseInvoice, Known, PurchaseRow
  <2>4. CASE WriteUnpaid(t)
    BY <2>1, <2>4 DEF WriteUnpaid, Known, PurchaseRow
  <2>5. CASE WritePaid(t)
    BY <2>1, <2>5 DEF WritePaid, Known, PurchaseRow
  <2>6. QED
    BY <1>1, <2>2, <2>3, <2>4, <2>5
<1>2. ASSUME \/ \E t \in Slots :
                \/ IssueInvoice(t) \/ CheckPayment(t) \/ Credit(t) \/ Credited(t) \/ Level(t)
                \/ Answer(t) \/ Abandon(t) \/ FailJob(t) \/ FailService(t)
             \/ \E u \in Users : OpenWallet(u)
             \/ \E i \in Invoices : PayInvoice(i)
             \/ \E t \in Slots, q \in Purchases :
                   \/ SignContract(t, q) \/ CreateQpayInvoice(t, q)
                   \/ \E i \in Invoices : HandleQpayWebhook(t, q, i)
             \/ Crash \/ UNCHANGED vars
      PROVE  purchase' = purchase
  BY <1>2 DEF IssueInvoice, CheckPayment, Credit, Credited, Level, Answer, Abandon, FailJob,
              FailService, OpenWallet, PayInvoice, SignContract, CreateQpayInvoice, Prepare,
              HandleQpayWebhook, Crash, vars
<1>3. QED
  BY <1>1, <1>2 DEF Next, Run, Deliver

LEMMA RowStays ==
    ASSUME Known, [Next]_vars, NEW p \in Purchases, purchase[p].status # "NONE"
    PROVE  SameRow(p)
<1>1. ASSUME NEW q \in Purchases, NEW u \in Users, NEW g \in Grams, InitiatePurchase(q, u, g)
      PROVE  purchase'[p] = purchase[p]
  BY <1>1 DEF InitiatePurchase, Known
<1>2. QED
  BY <1>1, RowsStay DEF SameRow

LEMMA OnlyPaidCompletes ==
    ASSUME Known, [Next]_vars, NEW p \in Purchases,
           purchase[p].status # "COMPLETED", purchase'[p].status = "COMPLETED"
    PROVE  \E t \in Slots : WritePaid(t) /\ job[t].p = p
<1>1. ASSUME NEW q \in Purchases, NEW u \in Users, NEW g \in Grams, InitiatePurchase(q, u, g)
      PROVE  FALSE
  BY <1>1 DEF InitiatePurchase, Known
<1>2. ASSUME NEW t \in Slots, WriteContract(t) \/ WriteInvoice(t) \/ LoseInvoice(t) \/ WriteUnpaid(t)
      PROVE  FALSE
  <2>1. job[t].p \in Purchases
    BY <1>2 DEF WriteContract, WriteInvoice, LoseInvoice, WriteUnpaid, Known
  <2>2. QED
    BY <1>2, <2>1 DEF WriteContract, WriteInvoice, LoseInvoice, WriteUnpaid, Known, PurchaseRow
<1>3. ASSUME NEW t \in Slots, WritePaid(t) PROVE job[t].p = p
  BY <1>3 DEF WritePaid, Known, PurchaseRow
<1>4. ASSUME \/ \E t \in Slots :
                \/ IssueInvoice(t) \/ CheckPayment(t) \/ Credit(t) \/ Credited(t) \/ Level(t)
                \/ Answer(t) \/ Abandon(t) \/ FailJob(t) \/ FailService(t)
             \/ \E u \in Users : OpenWallet(u)
             \/ \E i \in Invoices : PayInvoice(i)
             \/ \E t \in Slots, q \in Purchases :
                   \/ SignContract(t, q) \/ CreateQpayInvoice(t, q)
                   \/ \E i \in Invoices : HandleQpayWebhook(t, q, i)
             \/ Crash \/ UNCHANGED vars
      PROVE  FALSE
  BY <1>4 DEF IssueInvoice, CheckPayment, Credit, Credited, Level, Answer, Abandon, FailJob,
              FailService, OpenWallet, PayInvoice, SignContract, CreateQpayInvoice, Prepare,
              HandleQpayWebhook, Crash, vars
<1>5. QED
  BY <1>1, <1>2, <1>3, <1>4 DEF Next, Run, Deliver
-----------------------------------------------------------------------------
(***************************************************************************)
(* The service calls of a handler fit its step: it has a wallet call for   *)
(* the user and the grams of its purchase while it credits, a membership   *)
(* check for that user while it levels, and neither otherwise.  Only       *)
(* finitely many purchases were ever initiated.                            *)
(***************************************************************************)
CallFits(t) ==
    LET p == job[t].p IN
    IF job[t].pc = "crediting"
    THEN /\ call[t].pc # "idle" /\ call[t].op = "PURCHASE"
         /\ call[t].user = purchase[p].user /\ call[t].grams = purchase[p].grams
    ELSE call[t].pc = "idle"

CheckFits(t) ==
    IF job[t].pc = "levelling"
    THEN check[t].pc # "idle" /\ check[t].user = purchase[job[t].p].user
    ELSE check[t].pc = "idle"

Rows == {p \in Purchases : purchase[p].status # "NONE"}

Fit ==
    /\ IsFiniteSet(Rows)
    /\ raced \subseteq Rows
    /\ \A t \in Slots : CallFits(t) /\ CheckFits(t)

LEMMA FitInit == Init => Fit
<1> SUFFICES ASSUME Init PROVE Fit
  OBVIOUS
<1>1. Rows = {}
  BY DEF Init, Rows, NoPurchase
<1>2. IsFiniteSet(Rows)
  BY <1>1, FS_EmptySet
<1>3. raced \subseteq Rows
  BY DEF Init
<1>4. \A t \in Slots : CallFits(t) /\ CheckFits(t)
  BY DEF Init, CallFits, CheckFits, IdleJob, W!Init, W!IdleFrame, M!ServiceInit, M!IdleCheck
<1>5. QED
  BY <1>2, <1>3, <1>4 DEF Fit

LEMMA RowsFinite == ASSUME Known, IsFiniteSet(Rows), [Next]_vars PROVE IsFiniteSet(Rows')
<1>1. ASSUME NEW p \in Purchases, NEW u \in Users, NEW g \in Grams, InitiatePurchase(p, u, g)
      PROVE  Rows' \subseteq Rows \cup {p}
  BY <1>1 DEF InitiatePurchase, Known, Rows
<1>2. CASE \A p \in Purchases : SameRow(p)
  <2>1. Rows' = Rows
    BY <1>2 DEF Rows, SameRow
  <2>2. QED
    BY <2>1
<1>3. \A p \in Purchases : IsFiniteSet(Rows \cup {p})
  BY FS_AddElement
<1>4. QED
  BY <1>1, <1>2, <1>3, RowsStay, FS_Subset

(* All slots but one are left alone.                                       *)
Others(t) == \A s \in Slots \ {t} :
    job'[s] = job[s] /\ call'[s] = call[s] /\ check'[s] = check[s]

LEMMA OthersFit ==
    ASSUME Known, Fit, [Next]_vars, NEW t \in Slots, Others(t), NEW s \in Slots \ {t}
    PROVE  CallFits(s)' /\ CheckFits(s)'
<1>1. CallFits(s) /\ CheckFits(s) /\ job'[s] = job[s] /\ call'[s] = call[s] /\ check'[s] = check[s]
  BY DEF Fit, Others
<1>2. job[s].pc # "idle" => SameRow(job[s].p)
  BY RowStays DEF Known
<1>3. QED
  BY <1>1, <1>2 DEF CallFits, CheckFits, SameRow

(* The steps of a handler outside the services it calls.                   *)
PlainStep(t) ==
    \/ WriteContract(t) \/ IssueInvoice(t) \/ WriteInvoice(t) \/ LoseInvoice(t)
    \/ CheckPayment(t) \/ WriteUnpaid(t)
    \/ \E p \in Purchases : SignContract(t, p) \/ CreateQpayInvoice(t, p)
                              \/ \E i \in Invoices : HandleQpayWebhook(t, p, i)

LEMMA PlainMoves ==
    ASSUME Known, NEW t \in Slots, PlainStep(t)
    PROVE  /\ UNCHANGED <<walletVars, memberVars>>
           /\ \A s \in Slots \ {t} : job'[s] = job[s]
           /\ job[t].pc \notin {"paid", "crediting", "levelling"}
           /\ job'[t].pc \notin {"crediting", "levelling"}
           /\ job'[t].pc # "paid" \/ CheckPayment(t)
<1>1. ASSUME WriteContract(t) \/ WriteInvoice(t) \/ WriteUnpaid(t) \/ LoseInvoice(t)
      PROVE  /\ job' = [job EXCEPT ![t] = IdleJob] /\ UNCHANGED <<walletVars, memberVars>>
             /\ job[t].pc \in {"signing", "invoiced", "unpaid"}
  BY <1>1 DEF WriteContract, WriteInvoice, WriteUnpaid, LoseInvoice, EndJob
<1>2. ASSUME IssueInvoice(t)
      PROVE  /\ \E i \in Invoices :
                   job' = [job EXCEPT ![t] = [pc |-> "invoiced", p |-> job[t].p, inv |-> i]]
             /\ job[t].pc = "invoicing" /\ UNCHANGED <<walletVars, memberVars>>
  BY <1>2 DEF IssueInvoice
<1>3. ASSUME NEW p \in Purchases, SignContract(t, p) \/ CreateQpayInvoice(t, p)
      PROVE  /\ \E pc \in {"signing", "invoicing"} :
                   job' = [job EXCEPT ![t] = [pc |-> pc, p |-> p, inv |-> Nil]]
             /\ job[t].pc = "idle" /\ UNCHANGED <<walletVars, memberVars>>
  BY <1>3 DEF SignContract, CreateQpayInvoice, Prepare
<1>4. ASSUME NEW p \in Purchases, NEW i \in Invoices, HandleQpayWebhook(t, p, i)
      PROVE  /\ job' = [job EXCEPT ![t] = [pc |-> "checking", p |-> p, inv |-> i]]
             /\ job[t].pc = "idle" /\ UNCHANGED <<walletVars, memberVars>>
  BY <1>4 DEF HandleQpayWebhook
<1>5. ASSUME CheckPayment(t)
      PROVE  /\ \E pc \in {"paid", "unpaid"} : job' = [job EXCEPT ![t].pc = pc]
             /\ job[t].pc = "checking" /\ UNCHANGED <<walletVars, memberVars>>
  BY <1>5 DEF CheckPayment, Goto
<1>6. job \in [Slots -> Job]
  BY DEF Known
<1>7. QED
  BY <1>1, <1>2, <1>3, <1>4, <1>5, <1>6 DEF PlainStep, IdleJob, Job

(* What the steps of a wallet call and of a check leave as it was.         *)
LEMMA CallMoves ==
    ASSUME W!TypeOK, NEW t \in Slots, W!Step(t) \/ W!Fail(t)
    PROVE  /\ \A s \in Slots \ {t} : call'[s] = call[s]
           /\ call[t].pc # "idle" /\ call'[t].pc # "idle"
           /\ call'[t].op = call[t].op /\ call'[t].user = call[t].user
           /\ call'[t].grams = call[t].grams
           /\ \A u \in Users \ {call[t].user} : wallet'[u] = wallet[u]
           /\ opened \subseteq opened'
<1> USE DEF W!TypeOK, W!Frame
<1>1. CASE W!ReadForAdd(t) \/ W!ReadForDeduct(t)
  BY <1>1 DEF W!ReadForAdd, W!ReadForDeduct, W!TakeSnapshot
<1>2. CASE W!RefuseDeduct(t) \/ W!LogTransaction(t) \/ W!Fail(t)
  BY <1>2 DEF W!RefuseDeduct, W!LogTransaction, W!Fail, W!Goto
<1>3. CASE W!WriteAdd(t)
  BY <1>3 DEF W!WriteAdd, W!Goto
<1>4. CASE W!WriteDeduct(t)
  BY <1>4 DEF W!WriteDeduct, W!Goto
<1>5. QED
  BY <1>1, <1>2, <1>3, <1>4 DEF W!Step

LEMMA CallEnds ==
    ASSUME W!TypeOK, NEW t \in Slots, W!Return(t)
    PROVE  /\ \A s \in Slots \ {t} : call'[s] = call[s]
           /\ call'[t].pc = "idle"
           /\ wallet' = wallet /\ opened' = opened
BY DEF W!TypeOK, W!Return, W!IdleFrame

LEMMA CheckMovesOn ==
    ASSUME MemberOK, NEW t \in Slots, M!StepCheck(t) \/ M!FailCheck(t)
    PROVE  /\ \A s \in Slots \ {t} : check'[s] = check[s]
           /\ check[t].pc # "idle" /\ check'[t].pc # "idle"
           /\ check'[t].user = check[t].user
           /\ \A u \in Users \ {check[t].user} : level'[u] = level[u]
<1> USE DEF MemberOK, M!CheckFrame
<1>1. CASE M!ReadTotal(t)
  BY <1>1 DEF M!ReadTotal, M!Goto
<1>2. CASE M!ReadConfigs(t)
  BY <1>2 DEF M!ReadConfigs
<1>3. CASE M!ReadUser(t)
  BY <1>3 DEF M!ReadUser, M!Goto
<1>4. CASE M!UpdateLevel(t)
  BY <1>4 DEF M!UpdateLevel, M!Goto
<1>5. CASE M!FailCheck(t)
  BY <1>5 DEF M!FailCheck, M!Goto
<1>6. QED
  BY <1>1, <1>2, <1>3, <1>4, <1>5 DEF M!StepCheck

LEMMA CheckEnds ==
    ASSUME MemberOK, NEW t \in Slots, M!ReturnCheck(t)
    PROVE  /\ \A s \in Slots \ {t} : check'[s] = check[s]
           /\ check'[t].pc = "idle"
           /\ level' = level
BY DEF MemberOK, M!ReturnCheck, M!IdleCheck

(* Whatever a slot does leaves the others alone, and touches the wallet    *)
(* and the level of the user of its own purchase only.                     *)
SlotStep(t) == PlainStep(t) \/ WritePaid(t) \/ Credit(t) \/ Credited(t) \/ Level(t)
                 \/ Answer(t) \/ Abandon(t) \/ FailJob(t) \/ FailService(t)

Aims(t) == purchase[job[t].p].user

LEMMA Frame ==
    ASSUME Known, W!TypeOK, MemberOK, Fit, NEW t \in Slots, SlotStep(t)
    PROVE  /\ Others(t)
           /\ opened \subseteq opened'
           /\ \A u \in Users : wallet'[u] = wallet[u] \/ (job[t].pc = "crediting" /\ u = Aims(t))
           /\ \A u \in Users : level'[u] = level[u] \/ (job[t].pc = "levelling" /\ u = Aims(t))
<1> USE DEF Others, Aims
<1>0. job \in [Slots -> Job] /\ CallFits(t) /\ CheckFits(t)
  BY DEF Known, Fit
<1>1. CASE PlainStep(t)
  <2>1. UNCHANGED <<call, check, opened, wallet, level>>
    BY <1>1, PlainMoves DEF walletVars, memberVars
  <2>2. QED
    BY <1>1, <2>1, PlainMoves
<1>2. CASE WritePaid(t)
  BY <1>0, <1>2 DEF WritePaid, W!AddGrams, W!Start, memberVars, Goto, W!TypeOK
<1>3. CASE Credit(t)
  BY <1>0, <1>3, CallMoves DEF Credit, memberVars, CallFits
<1>4. CASE Credited(t)
  BY <1>0, <1>4, CallEnds DEF Credited, M!StartCheck, Goto, MemberOK
<1>5. CASE Level(t)
  BY <1>0, <1>5, CheckMovesOn DEF Level, walletVars, CheckFits
<1>6. CASE Answer(t)
  BY <1>0, <1>6, CheckEnds DEF Answer, walletVars, EndJob
<1>7. CASE Abandon(t)
  BY <1>0, <1>7, CheckEnds, CallEnds DEF Abandon, walletVars, memberVars, EndJob
<1>8. CASE FailJob(t)
  BY <1>0, <1>8, CheckEnds DEF FailJob, walletVars, memberVars, EndJob
<1>9. CASE FailService(t)
  BY <1>0, <1>9, CallMoves, CheckMovesOn DEF FailService, walletVars, memberVars,
     CallFits, CheckFits
<1>10. QED
  BY <1>1, <1>2, <1>3, <1>4, <1>5, <1>6, <1>7, <1>8, <1>9 DEF SlotStep

LEMMA OwnFits ==
    ASSUME Known, W!TypeOK, MemberOK, Fit, [Next]_vars, NEW t \in Slots, SlotStep(t)
    PROVE  CallFits(t)' /\ CheckFits(t)'
<1> USE DEF CallFits, CheckFits
<1>0. job \in [Slots -> Job] /\ CallFits(t) /\ CheckFits(t)
  BY DEF Known, Fit
<1>00. job[t].pc # "idle" => SameRow(job[t].p)
  BY RowStays DEF Known
<1>1. CASE PlainStep(t)
  <2>1. UNCHANGED <<call, check>>
    BY <1>1, PlainMoves DEF walletVars, memberVars
  <2>2. QED
    BY <1>0, <1>1, <2>1, PlainMoves
<1>2. CASE WritePaid(t)
  BY <1>0, <1>00, <1>2 DEF WritePaid, W!AddGrams, W!Start, memberVars, Goto, W!TypeOK, SameRow
<1>3. CASE Credit(t)
  BY <1>0, <1>3, CallMoves DEF Credit, memberVars
<1>4. CASE Credited(t)
  BY <1>0, <1>4, CallEnds DEF Credited, M!StartCheck, Goto, MemberOK
<1>5. CASE Level(t)
  BY <1>0, <1>5, CheckMovesOn DEF Level, walletVars
<1>6. CASE Answer(t)
  BY <1>0, <1>6, CheckEnds DEF Answer, walletVars, EndJob, IdleJob
<1>7. CASE Abandon(t)
  BY <1>0, <1>7, CheckEnds, CallEnds DEF Abandon, walletVars, memberVars, EndJob, IdleJob
<1>8. CASE FailJob(t)
  BY <1>0, <1>8, CheckEnds DEF FailJob, walletVars, memberVars, EndJob, IdleJob
<1>9. CASE FailService(t)
  BY <1>0, <1>9, CallMoves, CheckMovesOn DEF FailService, walletVars, memberVars
<1>10. QED
  BY <1>1, <1>2, <1>3, <1>4, <1>5, <1>6, <1>7, <1>8, <1>9 DEF SlotStep

(* A step is one slot's, a crash, or touches no slot, wallet or level.     *)
Quiet == /\ UNCHANGED <<job, call, check, wallet, level, raced, disturbed>>
         /\ opened \subseteq opened'

LEMMA StepKinds ==
    ASSUME [Next]_vars
    PROVE  (\E t \in Slots : SlotStep(t)) \/ Crash \/ Quiet
<1> USE DEF Quiet
<1>1. ASSUME NEW u \in Users, OpenWallet(u) PROVE Quiet
  BY <1>1 DEF OpenWallet, W!CreateWallet, W!historyVars, memberVars, historyVars
<1>2. ASSUME NEW i \in Invoices, PayInvoice(i) PROVE Quiet
  BY <1>2 DEF PayInvoice, walletVars, memberVars, historyVars
<1>3. ASSUME NEW p \in Purchases, NEW u \in Users, NEW g \in Grams, InitiatePurchase(p, u, g)
      PROVE  Quiet
  BY <1>3 DEF InitiatePurchase, walletVars, memberVars, historyVars
<1>4. CASE UNCHANGED vars
  BY <1>4 DEF vars, walletVars, memberVars, historyVars
<1>5. QED
  BY <1>1, <1>2, <1>3, <1>4 DEF Next, Run, Deliver, SlotStep, PlainStep

LEMMA FitStep ==
    ASSUME Known, W!TypeOK, MemberOK, Fit, [Next]_vars
    PROVE  Fit'
<1>1. IsFiniteSet(Rows')
  BY RowsFinite DEF Fit
<1>2. raced' \subseteq Rows'
  <2>1. Rows \subseteq Rows'
    BY RowStays DEF Rows, SameRow
  <2>2. raced \subseteq Rows
    BY DEF Fit
  <2>3. ASSUME NEW t \in Slots, NEW p \in Purchases, SignContract(t, p) \/ CreateQpayInvoice(t, p)
        PROVE  raced' \subseteq Rows
    BY <2>2, <2>3 DEF SignContract, CreateQpayInvoice, Prepare, Rows
  <2>4. ASSUME \/ \E t \in Slots :
                \/ WriteContract(t) \/ WriteInvoice(t) \/ LoseInvoice(t) \/ WriteUnpaid(t)
                \/ WritePaid(t)
                \/ IssueInvoice(t) \/ CheckPayment(t) \/ Credit(t) \/ Credited(t) \/ Level(t)
                \/ Answer(t) \/ Abandon(t) \/ FailJob(t) \/ FailService(t)
             \/ \E t \in Slots, p \in Purchases, i \in Invoices : HandleQpayWebhook(t, p, i)
        PROVE  raced' \subseteq Rows
    BY <2>2, <2>4 DEF WriteContract, WriteInvoice, LoseInvoice, WriteUnpaid, WritePaid, IssueInvoice,
                CheckPayment, Credit, Credited, Level, Answer, Abandon, FailJob, FailService,
                HandleQpayWebhook, historyVars
  <2>5. ASSUME NEW t \in Slots, SlotStep(t) PROVE raced' \subseteq Rows
    BY <2>3, <2>4, <2>5 DEF SlotStep, PlainStep
  <2>6. ASSUME Crash \/ Quiet PROVE raced' \subseteq Rows
    BY <2>2, <2>6 DEF Crash, Quiet
  <2>7. raced' \subseteq Rows
    BY <2>5, <2>6, StepKinds
  <2>8. QED
    BY <2>1, <2>7
<1>3. ASSUME NEW s \in Slots PROVE CallFits(s)' /\ CheckFits(s)'
  <2>1. ASSUME NEW t \in Slots, SlotStep(t) PROVE CallFits(s)' /\ CheckFits(s)'
    BY <2>1, Frame, OthersFit, OwnFits
  <2>2. CASE Crash
    BY <2>2 DEF Crash, CallFits, CheckFits, IdleJob, W!Crash, W!IdleFrame, M!ForgetChecks,
       M!IdleCheck
  <2>3. CASE Quiet
    <3>1. CallFits(s) /\ CheckFits(s) /\ (job[s].pc # "idle" => SameRow(job[s].p))
      BY RowStays DEF Fit, Known
    <3>2. QED
      BY <2>3, <3>1 DEF Quiet, CallFits, CheckFits, SameRow
  <2>4. QED
    BY <2>1, <2>2, <2>3, StepKinds
<1>4. QED
  BY <1>1, <1>2, <1>3 DEF Fit
-----------------------------------------------------------------------------
(***************************************************************************)
(* The inductive invariant of the books.  At most one handler at a time    *)
(* settles a payment of an undisturbed user.  The wallet holds the grams   *)
(* of all completed purchases, but for the one being credited until its    *)
(* write; that write adds to a snapshot that is still the row, because no  *)
(* other call touched it since; and the check that follows sees the new    *)
(* total.                                                                  *)
(***************************************************************************)
Total(u) == SumFunctionOnSet(GramsOf, Bought(u))
Serene(u) == u \notin disturbed /\ \A p \in Purchases : purchase[p].user = u => p \notin raced
Balanced(u, g) == wallet[u].balance = g /\ wallet[u].purchased = g
Earned(u, l) == l \in M!LevelsFor(Thresholds, Total(u))

Due(t) ==
    LET u == Aims(t) IN
    job[t].p \notin Bought(u) /\ Balanced(u, Total(u))

BeingCredited(t) ==
    LET u == Aims(t)
        g == purchase[job[t].p].grams
    IN  /\ job[t].p \in Bought(u)
        /\ \/ call[t].pc = "read" /\ Balanced(u, Total(u) - g)
           \/ /\ call[t].pc = "write" /\ call[t].snap = wallet[u]
              /\ u \in opened /\ Balanced(u, Total(u) - g)
           \/ call[t].pc \in {"log", "done"} /\ u \in opened /\ Balanced(u, Total(u))

BeingLevelled(t) ==
    LET u == Aims(t) IN
    /\ u \in opened /\ Balanced(u, Total(u))
    /\ \/ check[t].pc = "wallet"
       \/ check[t].pc = "configs" /\ check[t].total = Total(u)
       \/ check[t].pc \in {"user", "update"} /\ Earned(u, check[t].next)
       \/ check[t].pc = "done" /\ Earned(u, level[u])

Settles(t) ==
    /\ job[t].pc = "paid" => Due(t)
    /\ job[t].pc = "crediting" => BeingCredited(t)
    /\ job[t].pc = "levelling" => BeingLevelled(t)

Balance(u) ==
    /\ \A s, t \in Settling(u) : s = t
    /\ Settling(u) = {} => Balanced(u, Total(u)) /\ Earned(u, level[u])
    /\ \A t \in Settling(u) : Settles(t)

Books == \A u \in Users : Serene(u) => Balance(u)

(* The table of levels has NORMAL for a user who bought nothing, as the     *)
(* default thresholds do.                                                  *)
StartOK == NORMAL \in M!LevelsFor(Thresholds, 0)

LEMMA BooksInit == ASSUME StartOK, Init PROVE Books
<1> SUFFICES ASSUME NEW u \in Users PROVE Balance(u)
  BY DEF Books
<1>1. Settling(u) = {} /\ Bought(u) = {}
  BY DEF Init, Settling, Bought, IdleJob, NoPurchase
<1>2. Total(u) = 0
  BY <1>1, SumNothing DEF Total
<1>3. wallet[u].balance = 0 /\ wallet[u].purchased = 0 /\ level[u] = NORMAL
  BY DEF Init, W!Init, W!EmptyAccount, M!ServiceInit
<1>4. QED
  BY <1>1, <1>2, <1>3 DEF Balance, Balanced, Earned, StartOK

(* Who is undisturbed after a step was so before.                          *)
LEMMA SereneBefore ==
    ASSUME Known, Fit, Records, [Next]_vars, NEW u \in Users, Serene(u)'
    PROVE  Serene(u)
<1>1. raced \subseteq raced' /\ disturbed \subseteq disturbed'
  <2>1. ASSUME NEW t \in Slots, PlainStep(t)
        PROVE  raced \subseteq raced' /\ disturbed \subseteq disturbed'
    BY <2>1 DEF PlainStep, WriteContract, IssueInvoice, WriteInvoice, LoseInvoice, CheckPayment,
       WriteUnpaid, SignContract, CreateQpayInvoice, Prepare, HandleQpayWebhook, historyVars
  <2>2. ASSUME NEW t \in Slots,
               \/ WritePaid(t) \/ Credit(t) \/ Credited(t) \/ Level(t) \/ Answer(t)
               \/ Abandon(t) \/ FailJob(t) \/ FailService(t)
        PROVE  raced \subseteq raced' /\ disturbed \subseteq disturbed'
    BY <2>2 DEF WritePaid, Credit, Credited, Level, Answer, Abandon, FailJob, FailService,
       historyVars
  <2>3. ASSUME Crash \/ Quiet PROVE raced \subseteq raced' /\ disturbed \subseteq disturbed'
    BY <2>3 DEF Crash, Quiet
  <2>4. QED
    BY <2>1, <2>2, <2>3, StepKinds DEF SlotStep
<1>2. ASSUME NEW p \in Purchases, purchase[p].user = u, p \in raced PROVE FALSE
  <2>1. purchase'[p].user = u
    BY <1>2, RowStays DEF Fit, Rows, SameRow
  <2>2. QED
    BY <1>1, <1>2, <2>1 DEF Serene
<1>3. QED
  BY <1>1, <1>2 DEF Serene

(* What u bought changes only by the step that completes a purchase of u.  *)
LEMMA BoughtStays ==
    ASSUME Known, Traced, Staged, Fit, Records, [Next]_vars, NEW u \in Users, Serene(u)',
           \A t \in Slots : WritePaid(t) /\ Aims(t) = u => purchase[job[t].p].status = "COMPLETED"
    PROVE  Bought(u)' = Bought(u) /\ Total(u)' = Total(u)
<1>1. Serene(u)
  BY SereneBefore
<1>2. ASSUME NEW p \in Bought(u) PROVE p \in Bought(u)' /\ SameRow(p)
  <2>1. p \in Purchases /\ purchase[p].user = u /\ purchase[p].status = "COMPLETED" /\ p \notin raced
    BY <1>1, <1>2 DEF Bought, Serene
  <2>2. purchase'[p].status = "COMPLETED" /\ SameRow(p)
    BY <2>1, StaysCompleted, RowStays
  <2>3. QED
    BY <2>1, <2>2 DEF Bought, SameRow
<1>3. ASSUME NEW p \in Bought(u)', p \notin Bought(u) PROVE FALSE
  <2>1. p \in Purchases /\ purchase'[p].user = u /\ purchase'[p].status = "COMPLETED"
    BY <1>3 DEF Bought
  <2>2. CASE purchase[p].status = "COMPLETED"
    BY <1>3, <2>1, <2>2, RowStays DEF Bought, SameRow
  <2>3. CASE purchase[p].status # "COMPLETED"
    <3>1. PICK t \in Slots : WritePaid(t) /\ job[t].p = p
      BY <2>1, <2>3, OnlyPaidCompletes
    <3>2. purchase[p].status # "NONE"
      BY <3>1 DEF WritePaid, Known
    <3>3. Aims(t) = u
      BY <2>1, <3>1, <3>2, RowStays DEF Aims, SameRow
    <3>4. QED
      BY <2>3, <3>1, <3>3
  <2>4. QED
    BY <2>2, <2>3
<1>4. Bought(u)' = Bought(u)
  BY <1>2, <1>3
<1>5. IsFiniteSet(Bought(u))
  BY FS_Subset DEF Bought, Fit, Rows
<1>6. \A p \in Bought(u) : GramsOf'[p] = GramsOf[p]
  BY <1>2 DEF GramsOf, Bought, SameRow
<1>7. SumFunctionOnSet(GramsOf', Bought(u)) = SumFunctionOnSet(GramsOf, Bought(u))
  BY <1>5, <1>6, SumSame
<1>8. QED
  BY <1>4, <1>7 DEF Total

(* The step that completes it adds its grams.                              *)
LEMMA BoughtGrows ==
    ASSUME Known, Traced, Staged, Fit, Records, [Next]_vars, NEW u \in Users, Serene(u)',
           NEW t \in Slots, WritePaid(t), Aims(t) = u, purchase[job[t].p].status # "COMPLETED"
    PROVE  /\ job[t].p \in Bought(u)'
           /\ Total(u)' = purchase[job[t].p].grams + Total(u)
<1> DEFINE p == job[t].p
<1>1. p \in Purchases /\ purchase[p].status # "NONE" /\ purchase'[p].status = "COMPLETED"
  BY DEF WritePaid, Known, PurchaseRow
<1>2. \A q \in Purchases \ {p} : purchase'[q] = purchase[q]
  BY <1>1 DEF WritePaid, Known
<1>3. SameRow(p) /\ purchase[p].grams \in Int
  BY <1>1, RowStays DEF Known, PurchaseRow
<1>4. p \in Bought(u)' /\ Bought(u)' \ {p} = Bought(u)
  BY <1>1, <1>2, <1>3 DEF Bought, Aims, SameRow
<1>5. IsFiniteSet(Rows')
  BY RowsFinite DEF Fit
<1>6. IsFiniteSet(Bought(u)') /\ IsFiniteSet(Bought(u))
  BY <1>5, FS_Subset DEF Bought, Rows, Fit
<1>7. \A q \in Bought(u)' : GramsOf'[q] \in Int
  <2>1. purchase' \in [Purchases -> PurchaseRow]
    BY KnownStep DEF Known
  <2>2. QED
    BY <2>1 DEF GramsOf, Bought, PurchaseRow
<1>8. GramsOf'[p] = purchase[p].grams /\ \A q \in Bought(u) : GramsOf'[q] = GramsOf[q]
  BY <1>1, <1>2, <1>3 DEF GramsOf, Bought, SameRow
<1>9. SumFunctionOnSet(GramsOf', Bought(u)') = GramsOf'[p] + SumFunctionOnSet(GramsOf', Bought(u)' \ {p})
  BY <1>4, <1>6, <1>7, SumMore
<1>10. SumFunctionOnSet(GramsOf', Bought(u)) = SumFunctionOnSet(GramsOf, Bought(u))
  BY <1>6, <1>8, SumSame
<1>11. QED
  BY <1>4, <1>8, <1>9, <1>10 DEF Total
-----------------------------------------------------------------------------
(* A slot that does not move settles what it settled before.               *)
LEMMA SettlingStays ==
    ASSUME Known, [Next]_vars, NEW u \in Users, NEW s \in Slots, job'[s] = job[s]
    PROVE  /\ s \in Settling(u)' <=> s \in Settling(u)
           /\ s \in Settling(u) => SameRow(job[s].p) /\ Aims(s) = u /\ Aims(s)' = u
<1>1. job[s].pc # "idle" => SameRow(job[s].p)
  BY RowStays DEF Known
<1>2. QED
  BY <1>1 DEF Settling, Aims, SameRow

(* A step that leaves what u bought, u's wallet and u's handler alone.     *)
LEMMA BalanceKept ==
    ASSUME Known, [Next]_vars, NEW u \in Users, Balance(u),
           Bought(u)' = Bought(u), Total(u)' = Total(u),
           wallet'[u] = wallet[u], level'[u] = level[u], opened \subseteq opened',
           Settling(u)' = Settling(u),
           \A s \in Settling(u) : job'[s] = job[s] /\ call'[s] = call[s] /\ check'[s] = check[s]
    PROVE  Balance(u)'
<1>1. ASSUME NEW s \in Settling(u) PROVE Settles(s)'
  <2>1. /\ Settles(s) /\ SameRow(job[s].p) /\ Aims(s) = u /\ Aims(s)' = u
        /\ job'[s] = job[s] /\ call'[s] = call[s] /\ check'[s] = check[s]
    BY <1>1, SettlingStays DEF Balance, Settling
  <2>2. Due(s) => Due(s)'
    BY <2>1 DEF Due, Balanced
  <2>3. BeingCredited(s) => BeingCredited(s)'
    BY <2>1 DEF BeingCredited, Balanced, SameRow
  <2>4. BeingLevelled(s) => BeingLevelled(s)'
    BY <2>1 DEF BeingLevelled, Balanced, Earned
  <2>5. QED
    BY <2>1, <2>2, <2>3, <2>4 DEF Settles
<1>2. QED
  BY <1>1 DEF Balance, Balanced, Earned

LEMMA BalanceOne ==
    ASSUME NEW u, NEW t \in Slots, Settling(u)' = {t}, Settles(t)'
    PROVE  Balance(u)'
BY DEF Balance

(* After a step of u's one handler no other handler of u settles.          *)
LEMMA AloneStays ==
    ASSUME Known, [Next]_vars, NEW u \in Users, Balance(u), NEW t \in Settling(u), Others(t)
    PROVE  /\ Settling(u)' \subseteq {t}
           /\ Settles(t) /\ SameRow(job[t].p) /\ Aims(t) = u
<1>1. \A s \in Slots \ {t} : s \in Settling(u)' <=> s \in Settling(u)
  BY SettlingStays DEF Others, Settling
<1>2. \A s \in Settling(u) : s = t
  BY DEF Balance
<1>3. t \in Slots /\ job[t].pc # "idle" /\ Aims(t) = u
  BY DEF Settling, Aims
<1>4. QED
  BY <1>1, <1>2, <1>3, RowStays DEF Balance, Settling, Known

LEMMA OnlyOwnPayment ==
    ASSUME Known, NEW t \in Slots, Others(t), NEW s \in Slots, WritePaid(s)
    PROVE  s = t
BY DEF Known, Others, WritePaid, Goto, Job

(* The steps of the one handler that settles a payment of u.               *)
LEMMA PaidStep ==
    ASSUME Known, Traced, Staged, W!TypeOK, MemberOK, Records, Fit, [Next]_vars,
           NEW u \in Users, Serene(u)', Balance(u), NEW t \in Settling(u), WritePaid(t)
    PROVE  Balance(u)'
<1>1. t \in Slots /\ SlotStep(t)
  BY DEF Settling, SlotStep
<1>2. Settling(u)' \subseteq {t} /\ Settles(t) /\ SameRow(job[t].p) /\ Aims(t) = u
  BY <1>1, AloneStays, Frame
<1>3. Due(t) /\ job[t].pc = "paid" /\ job[t].p \in Purchases
  BY <1>1, <1>2 DEF Settles, WritePaid, Known
<1>4. purchase[job[t].p].status # "COMPLETED"
  BY <1>2, <1>3 DEF Due, Bought, Aims
<1>5. job[t].p \in Bought(u)' /\ Total(u)' = purchase[job[t].p].grams + Total(u)
  BY <1>1, <1>2, <1>4, BoughtGrows
<1>6. job'[t].pc = "crediting" /\ job'[t].p = job[t].p /\ Aims(t)' = u
  BY <1>1, <1>2 DEF WritePaid, Goto, Known, Job, SameRow, Aims
<1>7. call'[t].pc = "read" /\ wallet'[u] = wallet[u]
  BY <1>1 DEF WritePaid, W!AddGrams, W!Start, W!TypeOK
<1>8. /\ wallet[u].balance = Total(u) /\ wallet[u].balance \in Int
      /\ wallet[u].purchased = Total(u)
      /\ purchase[job[t].p].grams \in Int
  BY <1>2, <1>3 DEF Due, Balanced, W!TypeOK, W!Account, Known, PurchaseRow
<1>9. Balanced(u, Total(u) - purchase[job[t].p].grams)'
  BY <1>2, <1>5, <1>6, <1>7, <1>8 DEF Balanced, SameRow
<1>10. BeingCredited(t)'
  BY <1>5, <1>6, <1>7, <1>9 DEF BeingCredited
<1>11. Settling(u)' = {t}
  BY <1>1, <1>2, <1>6 DEF Settling, Aims
<1>12. QED
  BY <1>1, <1>6, <1>10, <1>11, BalanceOne DEF Settles

LEMMA CreditStep ==
    ASSUME Known, Traced, Staged, W!TypeOK, MemberOK, Records, Fit, [Next]_vars,
           NEW u \in Users, Serene(u)', Balance(u), NEW t \in Settling(u), Credit(t)
    PROVE  Balance(u)'
<1>1. t \in Slots /\ SlotStep(t) /\ job[t].pc = "crediting" /\ W!Step(t)
      /\ job' = job /\ purchase' = purchase
  BY DEF Settling, SlotStep, Credit
<1>2. Settling(u)' \subseteq {t} /\ Settles(t) /\ SameRow(job[t].p) /\ Aims(t) = u
  BY <1>1, AloneStays, Frame
<1>3. Bought(u)' = Bought(u) /\ Total(u)' = Total(u) /\ Aims(t)' = u /\ Settling(u)' = {t}
  BY <1>1, <1>2 DEF Bought, Total, GramsOf, Aims, Settling
<1>4. BeingCredited(t)
  BY <1>1, <1>2 DEF Settles
<1> DEFINE g == purchase[job[t].p].grams
<1>5. /\ call[t].op = "PURCHASE" /\ call[t].user = u /\ call[t].grams = g
      /\ call \in [Slots -> W!Frame] /\ wallet \in [Users -> W!Account]
  BY <1>1, <1>2 DEF Fit, CallFits, Aims, W!TypeOK
<1>6. g \in Int
  BY <1>1 DEF Known, PurchaseRow
<1>7. CASE W!ReadForAdd(t)
  <2>1. call'[t].pc = "write" /\ call'[t].snap = wallet'[u] /\ u \in opened' /\ wallet' = wallet
    BY <1>1, <1>5, <1>7 DEF W!ReadForAdd, W!TakeSnapshot, W!Frame
  <2>2. Balanced(u, Total(u) - g)
    BY <1>2, <1>4, <1>7 DEF BeingCredited, W!ReadForAdd
  <2>3. BeingCredited(t)'
    BY <1>1, <1>2, <1>3, <1>4, <2>1, <2>2 DEF BeingCredited, Balanced
  <2>4. QED
    BY <1>1, <1>3, <2>3, BalanceOne DEF Settles
<1>8. CASE W!WriteAdd(t)
  <2>1. /\ call[t].snap = wallet[u] /\ u \in opened /\ Balanced(u, Total(u) - g)
    BY <1>2, <1>4, <1>8 DEF BeingCredited, W!WriteAdd
  <2>2. /\ call'[t].pc = "log" /\ u \in opened'
        /\ wallet'[u].balance = wallet[u].balance + g
        /\ wallet'[u].purchased = wallet[u].purchased + g
    BY <1>1, <1>5, <1>8, <2>1 DEF W!WriteAdd, W!BalanceAfter, W!Goto, W!Frame
  <2>3. Total(u) \in Int
    <3>1. IsFiniteSet(Bought(u)) /\ \A p \in Bought(u) : GramsOf[p] \in Int
      BY FS_Subset DEF Bought, Fit, Rows, GramsOf, Known, PurchaseRow
    <3>2. QED
      BY <3>1, SumInt DEF Total
  <2>4. Balanced(u, Total(u))'
    BY <1>3, <1>5, <1>6, <2>1, <2>2, <2>3 DEF Balanced, W!Account
  <2>5. BeingCredited(t)'
    BY <1>1, <1>2, <1>3, <1>4, <2>2, <2>4 DEF BeingCredited
  <2>6. QED
    BY <1>1, <1>3, <2>5, BalanceOne DEF Settles
<1>9. CASE W!LogTransaction(t)
  <2>1. /\ call'[t].pc = "done" /\ opened' = opened /\ wallet' = wallet
    BY <1>1, <1>5, <1>9 DEF W!LogTransaction, W!Goto, W!Frame
  <2>2. u \in opened /\ Balanced(u, Total(u))
    BY <1>2, <1>4, <1>9 DEF BeingCredited, W!LogTransaction
  <2>3. BeingCredited(t)'
    BY <1>1, <1>2, <1>3, <1>4, <2>1, <2>2 DEF BeingCredited, Balanced
  <2>4. QED
    BY <1>1, <1>3, <2>3, BalanceOne DEF Settles
<1>10. ~W!ReadForDeduct(t) /\ ~W!RefuseDeduct(t) /\ ~W!WriteDeduct(t)
  BY <1>5 DEF W!ReadForDeduct, W!RefuseDeduct, W!WriteDeduct
<1>11. QED
  BY <1>1, <1>7, <1>8, <1>9, <1>10 DEF W!Step

LEMMA CreditedStep ==
    ASSUME Known, Traced, Staged, W!TypeOK, MemberOK, Records, Fit, [Next]_vars,
           NEW u \in Users, Serene(u)', Balance(u), NEW t \in Settling(u), Credited(t)
    PROVE  Balance(u)'
<1>1. t \in Slots /\ SlotStep(t) /\ job[t].pc = "crediting" /\ purchase' = purchase
  BY DEF Settling, SlotStep, Credited
<1>2. Settling(u)' \subseteq {t} /\ Settles(t) /\ Aims(t) = u
  BY <1>1, AloneStays, Frame
<1>3. job'[t].pc = "levelling" /\ job'[t].p = job[t].p
  BY <1>1 DEF Credited, Goto, Known, Job
<1>4. Total(u)' = Total(u) /\ Aims(t)' = u /\ Settling(u)' = {t}
  BY <1>1, <1>2, <1>3 DEF Bought, Total, GramsOf, Aims, Settling
<1>5. u \in opened /\ Balanced(u, Total(u))
  BY <1>1, <1>2 DEF Settles, BeingCredited, Credited
<1>6. check'[t].pc = "wallet" /\ wallet' = wallet /\ opened' = opened
  BY <1>1, CallEnds DEF Credited, M!StartCheck, MemberOK, M!CheckFrame
<1>7. BeingLevelled(t)'
  BY <1>4, <1>5, <1>6 DEF BeingLevelled, Balanced
<1>8. QED
  BY <1>1, <1>3, <1>4, <1>7, BalanceOne DEF Settles

LEMMA LevelStep ==
    ASSUME Known, Traced, Staged, W!TypeOK, MemberOK, Records, Fit, [Next]_vars,
           NEW u \in Users, Serene(u)', Balance(u), NEW t \in Settling(u), Level(t)
    PROVE  Balance(u)'
<1>1. /\ t \in Slots /\ SlotStep(t) /\ job[t].pc = "levelling" /\ M!StepCheck(t)
      /\ job' = job /\ purchase' = purchase /\ wallet' = wallet /\ opened' = opened
  BY DEF Settling, SlotStep, Level, walletVars
<1>2. Settling(u)' \subseteq {t} /\ Settles(t) /\ Aims(t) = u
  BY <1>1, AloneStays, Frame
<1>3. Total(u)' = Total(u) /\ Aims(t)' = u /\ Settling(u)' = {t}
  BY <1>1, <1>2 DEF Bought, Total, GramsOf, Aims, Settling
<1>4. BeingLevelled(t) /\ check[t].user = u
  BY <1>1, <1>2 DEF Settles, Fit, CheckFits, Aims
<1>5. /\ Balanced(u, Total(u))' /\ u \in opened'
      /\ \A l : Earned(u, l)' <=> Earned(u, l)
  BY <1>1, <1>2, <1>3, <1>4 DEF BeingLevelled, Balanced, Earned
<1>6. check \in [Slots -> M!CheckFrame] /\ level \in [Users -> Levels]
  BY DEF MemberOK
<1>7. CASE M!ReadTotal(t)
  <2>1. u \in opened /\ wallet[u].purchased = Total(u)
    BY <1>2, <1>4 DEF BeingLevelled, Balanced
  <2>2. check'[t].pc = "configs" /\ check'[t].total = Total(u)
    BY <1>1, <1>4, <1>6, <1>7, <2>1 DEF M!ReadTotal, M!CheckFrame
  <2>3. BeingLevelled(t)'
    BY <1>3, <1>5, <2>2 DEF BeingLevelled
  <2>4. QED
    BY <1>1, <1>3, <2>3, BalanceOne DEF Settles
<1>8. CASE M!ReadConfigs(t)
  <2>1. check[t].total = Total(u)
    BY <1>2, <1>4, <1>8 DEF BeingLevelled, M!ReadConfigs
  <2>2. check'[t].pc = "user" /\ Earned(u, check'[t].next)
    BY <1>1, <1>6, <1>8, <2>1 DEF M!ReadConfigs, M!CheckFrame, Earned
  <2>3. BeingLevelled(t)'
    BY <1>3, <1>5, <2>2 DEF BeingLevelled
  <2>4. QED
    BY <1>1, <1>3, <2>3, BalanceOne DEF Settles
<1>9. CASE M!ReadUser(t)
  <2>1. Earned(u, check[t].next)
    BY <1>2, <1>4, <1>9 DEF BeingLevelled, M!ReadUser
  <2>2. /\ check'[t].next = check[t].next /\ level' = level
        /\ \/ check'[t].pc = "update"
           \/ check'[t].pc = "done" /\ level[u] = check[t].next
    BY <1>1, <1>4, <1>6, <1>9 DEF M!ReadUser, M!Goto, M!CheckFrame
  <2>3. BeingLevelled(t)'
    BY <1>3, <1>5, <2>1, <2>2 DEF BeingLevelled
  <2>4. QED
    BY <1>1, <1>3, <2>3, BalanceOne DEF Settles
<1>10. CASE M!UpdateLevel(t)
  <2>1. Earned(u, check[t].next)
    BY <1>2, <1>4, <1>10 DEF BeingLevelled, M!UpdateLevel
  <2>2. check'[t].pc = "done" /\ level'[u] = check[t].next
    BY <1>1, <1>4, <1>6, <1>10 DEF M!UpdateLevel, M!Goto, M!CheckFrame
  <2>3. BeingLevelled(t)'
    BY <1>3, <1>5, <2>1, <2>2 DEF BeingLevelled
  <2>4. QED
    BY <1>1, <1>3, <2>3, BalanceOne DEF Settles
<1>11. QED
  BY <1>1, <1>7, <1>8, <1>9, <1>10 DEF M!StepCheck

LEMMA AnswerStep ==
    ASSUME Known, Traced, Staged, W!TypeOK, MemberOK, Records, Fit, [Next]_vars,
           NEW u \in Users, Serene(u)', Balance(u), NEW t \in Settling(u), Answer(t)
    PROVE  Balance(u)'
<1>1. /\ t \in Slots /\ SlotStep(t) /\ job[t].pc = "levelling" /\ check[t].pc = "done"
      /\ purchase' = purchase /\ wallet' = wallet
  BY DEF Settling, SlotStep, Answer, walletVars
<1>2. Settling(u)' \subseteq {t} /\ Settles(t) /\ Aims(t) = u
  BY <1>1, AloneStays, Frame
<1>3. Settling(u)' = {}
  BY <1>1, <1>2 DEF Answer, EndJob, Known, IdleJob, Settling
<1>4. Total(u)' = Total(u) /\ level' = level
  BY <1>1, CheckEnds DEF Bought, Total, GramsOf, Answer
<1>5. Balanced(u, Total(u)) /\ Earned(u, level[u])
  BY <1>1, <1>2 DEF Settles, BeingLevelled
<1>6. QED
  BY <1>1, <1>3, <1>4, <1>5 DEF Balance, Balanced, Earned

(* A handler of u that fails disturbs u; one that has failed already did.  *)
LEMMA FailStep ==
    ASSUME Known, Traced, Staged, W!TypeOK, MemberOK, Records, Fit, [Next]_vars,
           NEW u \in Users, Serene(u)', Balance(u), NEW t \in Settling(u),
           Abandon(t) \/ FailJob(t) \/ FailService(t)
    PROVE  FALSE
<1>1. t \in Slots /\ Aims(t) = u /\ Settles(t) /\ u \notin disturbed'
      /\ job[t].pc \in {"paid", "crediting", "levelling"}
  BY DEF Settling, Aims, Balance, Serene
<1>2. CASE Abandon(t)
  BY <1>1, <1>2 DEF Abandon, Settles, BeingCredited, BeingLevelled
<1>3. CASE FailJob(t)
  BY <1>1, <1>3 DEF FailJob, Aims
<1>4. CASE FailService(t)
  BY <1>1, <1>4 DEF FailService, Aims
<1>5. QED
  BY <1>2, <1>3, <1>4

(* A payment of u is found while nothing of u is being settled.            *)
LEMMA FoundStep ==
    ASSUME Known, Traced, Staged, W!TypeOK, MemberOK, Records, Fit, [Next]_vars,
           NEW u \in Users, Serene(u)', Balance(u), NEW t \in Slots, CheckPayment(t),
           t \in Settling(u)'
    PROVE  Balance(u)'
<1>1. /\ SlotStep(t) /\ Others(t) /\ job[t].pc = "checking" /\ purchase' = purchase
      /\ wallet' = wallet /\ job[t].p \in Purchases
  BY Frame DEF SlotStep, PlainStep, CheckPayment, walletVars, Known
<1>2. job'[t].p = job[t].p /\ job'[t].pc = "paid"
  BY DEF CheckPayment, Goto, Known, Job, Settling
<1>3. Aims(t) = u /\ Aims(t)' = u
  BY <1>1, <1>2 DEF Settling, Aims
<1>4. job[t].inv \in paid
  BY <1>2 DEF CheckPayment, Goto, Known, Job
<1>5. u \notin disturbed'
  BY DEF Serene
<1>6. purchase[job[t].p].status # "COMPLETED" /\ Settling(u) = {}
  BY <1>3, <1>4, <1>5 DEF CheckPayment, Aims
<1>7. Settling(u)' = {t}
  BY <1>1, <1>6, SettlingStays DEF Others, Settling
<1>8. Total(u)' = Total(u) /\ Bought(u)' = Bought(u)
  BY <1>1 DEF Total, Bought, GramsOf
<1>9. Balanced(u, Total(u)) /\ job[t].p \notin Bought(u)
  BY <1>6 DEF Balance, Bought
<1>10. Due(t)'
  BY <1>1, <1>2, <1>3, <1>8, <1>9 DEF Due, Balanced
<1>11. QED
  BY <1>2, <1>7, <1>10, BalanceOne DEF Settles

(* The steps of all others.                                                *)
LEMMA OtherStep ==
    ASSUME Known, Traced, Staged, W!TypeOK, MemberOK, Records, Fit, [Next]_vars,
           NEW u \in Users, Serene(u)', Balance(u), NEW t \in Slots, SlotStep(t),
           t \notin Settling(u), t \notin Settling(u)'
    PROVE  Balance(u)'
<1>1. /\ Others(t) /\ opened \subseteq opened' /\ wallet'[u] = wallet[u] /\ level'[u] = level[u]
  BY Frame DEF Settling, Aims
<1>2. Settling(u)' = Settling(u)
  BY <1>1, SettlingStays DEF Others, Settling
<1>3. ASSUME NEW s \in Slots, WritePaid(s), Aims(s) = u PROVE FALSE
  BY <1>1, <1>3, OnlyOwnPayment DEF WritePaid, Settling, Aims
<1>4. Bought(u)' = Bought(u) /\ Total(u)' = Total(u)
  BY <1>3, BoughtStays
<1>5. \A s \in Settling(u) : job'[s] = job[s] /\ call'[s] = call[s] /\ check'[s] = check[s]
  BY <1>1 DEF Others, Settling
<1>6. QED
  BY <1>1, <1>2, <1>4, <1>5, BalanceKept

(* A handler settles a payment after its step that did not before only if  *)
(* it has just found it.                                                   *)
LEMMA SettlesAfter ==
    ASSUME Known, [Next]_vars, NEW u \in Users, NEW t \in Slots, SlotStep(t),
           t \in Settling(u)', t \notin Settling(u)
    PROVE  CheckPayment(t)
<1>1. CASE PlainStep(t)
  BY <1>1, PlainMoves DEF Settling
<1>2. CASE Answer(t) \/ Abandon(t) \/ FailJob(t)
  BY <1>2 DEF Answer, Abandon, FailJob, EndJob, IdleJob, Settling, Known
<1>3. CASE WritePaid(t) \/ Credit(t) \/ Credited(t) \/ Level(t) \/ FailService(t)
  <2>1. job[t].pc \in {"paid", "crediting", "levelling"} /\ job'[t].p = job[t].p
    BY <1>3 DEF WritePaid, Credit, Credited, Level, FailService, Goto, Known, Job
  <2>2. SameRow(job[t].p)
    BY <2>1, RowStays DEF Known
  <2>3. QED
    BY <2>1, <2>2 DEF Settling, SameRow
<1>4. QED
  BY <1>1, <1>2, <1>3 DEF SlotStep

LEMMA BooksStep ==
    ASSUME Known, Traced, Staged, W!TypeOK, MemberOK, Records, Fit, Books, [Next]_vars
    PROVE  Books'
<1> SUFFICES ASSUME NEW u \in Users, Serene(u)' PROVE Balance(u)'
  BY DEF Books
<1>1. Balance(u)
  BY SereneBefore DEF Books
<1>2. ASSUME NEW t \in Slots, SlotStep(t), t \in Settling(u) PROVE Balance(u)'
  <2>1. ~PlainStep(t)
    BY <1>2, PlainMoves DEF Settling
  <2>2. QED
    BY <1>1, <1>2, <2>1, PaidStep, CreditStep, CreditedStep, LevelStep, AnswerStep, FailStep
       DEF SlotStep
<1>3. ASSUME NEW t \in Slots, SlotStep(t), t \notin Settling(u) PROVE Balance(u)'
  BY <1>1, <1>3, SettlesAfter, FoundStep, OtherStep
<1>4. CASE Crash
  <2>1. Settling(u) = {} /\ Settling(u)' = {} /\ wallet' = wallet /\ level' = level
        /\ opened' = opened /\ purchase' = purchase
    BY <1>4 DEF Crash, Serene, Settling, IdleJob, W!Crash
  <2>2. Bought(u)' = Bought(u) /\ Total(u)' = Total(u)
    BY <2>1 DEF Bought, Total, GramsOf
  <2>3. QED
    BY <1>1, <2>1, <2>2, BalanceKept
<1>5. CASE Quiet
  <2>1. Settling(u)' = Settling(u)
    BY <1>5, SettlingStays DEF Quiet, Settling
  <2>2. \A t \in Slots : ~WritePaid(t)
    BY <1>5 DEF Quiet, WritePaid, Goto, Known, Job
  <2>3. Bought(u)' = Bought(u) /\ Total(u)' = Total(u)
    BY <2>2, BoughtStays
  <2>4. QED
    BY <1>1, <1>5, <2>1, <2>3, BalanceKept DEF Quiet
<1>6. QED
  BY <1>2, <1>3, <1>4, <1>5, StepKinds

(* When no payment of a user is being settled, and none was settled twice, *)
(* together with another, or only in part, the wallet holds exactly the    *)
(* grams of the completed purchases and the user has the level they give.  *)
THEOREM BooksAgree == ASSUME TableOK, StartOK PROVE Spec => []WalletEqualsCompleted
<1> DEFINE Inv == Known /\ Traced /\ Staged /\ W!TypeOK /\ MemberOK /\ Records /\ Fit /\ Books
<1>1. Init => Inv
  BY KnownInit, TracedInit, StagedInit, TypedInit, MemberInit, FitInit, BooksInit
     DEF Init, Records
<1>2. Inv /\ [Next]_vars => Inv'
  BY KnownStep, TracedStep, StagedStep, WalletTyped, TypesStep, MemberStep, FitStep, BooksStep
<1>3. Inv => WalletEqualsCompleted
  BY DEF Books, Serene, Balance, Balanced, Earned, Total, WalletEqualsCompleted
<1>4. QED
  BY <1>1, <1>2, <1>3, PTL DEF Spec
=============================================================================
