---------------------------- MODULE PurchaseRows ----------------------------
(***************************************************************************)
(* The purchases as the panel meets them: the rows, how the backend moves  *)
(* them on, and what purchasesUi.ts makes of a row.  The steps that move a *)
(* row are those of Purchase, seen from a table.  PurchaseList,            *)
(* PurchaseStats and PurchaseDrawer are the parts of the panel's page.     *)
(***************************************************************************)
EXTENDS Naturals, Sequences, FiniteSets

CONSTANTS
    SeedRows,     \* the rows the seed left, oldest first
    MaxChanges    \* bound: new rows and changes of rows

VARIABLES
    rows,         \* the Purchase table, oldest first
    changes       \* how often it changed: the age of what was read

Row == [status : {"PENDING", "CONTRACT_SIGNED", "PAYMENT_PENDING", "COMPLETED", "CANCELLED"},
        qpay : {"PENDING", "PAID", "FAILED"}]
NewRow == [status |-> "PENDING", qpay |-> "PENDING"]

(* Nobody has paid before the invoice: so the service leaves the rows, and *)
(* so the seed has them.                                                   *)
Plausible(r) == r.status \in {"PENDING", "CONTRACT_SIGNED"} => r.qpay # "PAID"

(* What the constants have to be.                                          *)
RowsAssumption ==
    /\ SeedRows \in Seq(Row) /\ MaxChanges \in Nat
    /\ \A i \in DOMAIN SeedRows : Plausible(SeedRows[i])

RowsInit == rows = SeedRows /\ changes = 0

(* initiatePurchase.                                                       *)
Initiate == rows' = Append(rows, NewRow)

(* MUTANT of Moved: an unpaid invoice is marked as expired.                *)
MovedExpired(r) ==
    IF r.status = "PAYMENT_PENDING" THEN {[r EXCEPT !.qpay = "EXPIRED"]} ELSE {r}

(* signContract, createQPayInvoice, and the answers of handleQPayWebhook:  *)
(* an unpaid invoice resets the QPay status of whatever row it finds.      *)
Moved(r) ==
    CASE r.status = "PENDING"         -> {[r EXCEPT !.status = "CONTRACT_SIGNED"]}
      [] r.status = "CONTRACT_SIGNED" -> {[r EXCEPT !.status = "PAYMENT_PENDING"]}
      [] r.status = "PAYMENT_PENDING" -> {[r EXCEPT !.qpay = "PENDING"],
                                          [status |-> "COMPLETED", qpay |-> "PAID"]}
      [] r.status = "COMPLETED"       -> {[r EXCEPT !.qpay = "PENDING"], [r EXCEPT !.qpay = "PAID"]}
      [] r.status = "CANCELLED"       -> {[r EXCEPT !.qpay = "PENDING"],
                                          [status |-> "COMPLETED", qpay |-> "PAID"]}

RowsChange ==
    /\ changes < MaxChanges /\ changes' = changes + 1
    /\ \/ Initiate
       \/ \E i \in DOMAIN rows : \E r \in Moved(rows[i]) \ {rows[i]} : rows' = [rows EXCEPT ![i] = r]
-----------------------------------------------------------------------------
(* resolvePurchaseDisplayStatus.                                           *)
DisplayStatus(r) ==
    CASE r.status \in {"CANCELLED", "COMPLETED"} -> r.status
      [] r.status \notin {"CANCELLED", "COMPLETED"} /\ r.qpay = "PAID" -> "PAID"
      [] r.status = "PAYMENT_PENDING" /\ r.qpay # "PAID" -> "WAITING_PAYMENT"
      [] OTHER -> r.status

InProgress == {"PENDING", "CONTRACT_SIGNED", "WAITING_PAYMENT"}

(* matchesPurchaseDisplayStatus; ALL: no status filter.                    *)
Matches(r, f) ==
    CASE f = "ALL"         -> TRUE
      [] f = "IN_PROGRESS" -> DisplayStatus(r) \in InProgress
      [] OTHER             -> DisplayStatus(r) = f

(* mapPurchaseStatusFilter: the status the API filters by, or ALL.         *)
ApiStatus(f) ==
    IF f \in {"PAID", "IN_PROGRESS"} THEN "ALL"
    ELSE IF f = "WAITING_PAYMENT" THEN "PAYMENT_PENDING" ELSE f

(* getPurchases: the ids of the rows of a status, newest first; one page.  *)
NewestFirst(ids) ==
    [k \in 1..Cardinality(ids) |-> CHOOSE i \in ids : Cardinality({j \in ids : j >= i}) = k]

Listed(status) == NewestFirst({i \in DOMAIN rows : status = "ALL" \/ rows[i].status = status})

PageOf(list, n, size) ==
    LET skip == (n - 1) * size
        last == IF n * size <= Len(list) THEN n * size ELSE Len(list)
    IN  IF skip >= last THEN <<>> ELSE SubSeq(list, skip + 1, last)

RowsTypeOK == rows \in Seq(Row) /\ changes \in 0..MaxChanges
=============================================================================
