--------------------------- MODULE PurchaseDrawer ---------------------------
(***************************************************************************)
(* PurchaseDetailDrawer of the panel: one purchase, got by its id, with    *)
(* its timeline and the "check QPay" button.  Approve and Cancel only say  *)
(* that there is no API for them.                                          *)
(***************************************************************************)
EXTENDS PurchaseRows

CONSTANT Nil      \* "closed", "not got"

VARIABLES
    open,         \* drawerId
    detail,       \* detail[i]: the answer of query ["purchase", i]: row, age
    call          \* call[i]: that query under way

vars == <<rows, changes, open, detail, call>>

Ids == 1..(Len(SeedRows) + MaxChanges)
IdleCall == [pc |-> "idle", row |-> NewRow, age |-> 0]

Init ==
    /\ RowsInit
    /\ open = Nil
    /\ detail = [i \in Ids |-> Nil] /\ call = [i \in Ids |-> IdleCall]

RowMoves == RowsChange /\ UNCHANGED <<open, detail, call>>

Ask(i) == call' = [call EXCEPT ![i] = IF @.pc = "idle" THEN [IdleCall EXCEPT !.pc = "read"] ELSE @]

(* A row of the table opens the drawer: what it had of it is shown, and    *)
(* asked for again.                                                        *)
Open(i) ==
    /\ i \in DOMAIN rows /\ open # i
    /\ open' = i /\ Ask(i)
    /\ UNCHANGED <<rows, changes, detail>>

Close ==
    /\ open # Nil /\ open' = Nil
    /\ UNCHANGED <<rows, changes, detail, call>>

(* handleCheckQPay asks for the row again; the button is disabled while    *)
(* that runs.                                                              *)
CheckQPay ==
    /\ open # Nil /\ detail[open] # Nil /\ call[open].pc = "idle"
    /\ Ask(open)
    /\ UNCHANGED <<rows, changes, open, detail>>

(* getPurchaseById.                                                        *)
Read(i) ==
    /\ call[i].pc = "read"
    /\ call' = [call EXCEPT ![i] = [pc |-> "answer", row |-> rows[i], age |-> changes]]
    /\ UNCHANGED <<rows, changes, open, detail>>

(* MUTANT of Answered: the answer fills the drawer that is open.           *)
AnsweredOpen(i) ==
    /\ call[i].pc = "answer" /\ open # Nil
    /\ detail' = [detail EXCEPT ![open] = [row |-> call[i].row, age |-> call[i].age]]
    /\ call' = [call EXCEPT ![i] = IdleCall]
    /\ UNCHANGED <<rows, changes, open>>

Answered(i) ==
    /\ call[i].pc = "answer"
    /\ detail' = [detail EXCEPT ![i] = [row |-> call[i].row, age |-> call[i].age]]
    /\ call' = [call EXCEPT ![i] = IdleCall]
    /\ UNCHANGED <<rows, changes, open>>

(* What is shown stays.                                                    *)
Failed(i) ==
    /\ call[i].pc # "idle"
    /\ call' = [call EXCEPT ![i] = IdleCall]
    /\ UNCHANGED <<rows, changes, open, detail>>

Next ==
    \/ RowMoves \/ Close \/ CheckQPay
    \/ \E i \in DOMAIN rows : Open(i) \/ Read(i) \/ Answered(i) \/ Failed(i)

Spec == Init /\ [][Next]_vars
-----------------------------------------------------------------------------
Steps == <<"created", "contract", "paid", "final">>

ContractDone(r) == r.status \in {"CONTRACT_SIGNED", "PAYMENT_PENDING", "COMPLETED"}

(* MUTANT of StepState: a paid purchase stands at its contract.            *)
StepStateContract(r, s) ==
    CASE s = "created"  -> IF ContractDone(r) \/ r.status = "CANCELLED" THEN "done" ELSE "current"
      [] s = "contract" -> IF ~ContractDone(r) THEN "upcoming"
                           ELSE IF r.status = "COMPLETED" THEN "done" ELSE "current"
      [] s = "paid"     -> IF r.qpay # "PAID" THEN "upcoming"
                           ELSE IF r.status \in {"COMPLETED", "CANCELLED"} THEN "done" ELSE "current"
      [] s = "final"    -> IF r.status = "CANCELLED" THEN "cancelled"
                           ELSE IF r.status = "COMPLETED" THEN "done" ELSE "upcoming"

(* buildPurchaseDrawerTimeline.                                            *)
StepState(r, s) ==
    LET paid == r.qpay = "PAID"
        over == r.status \in {"COMPLETED", "CANCELLED"}
    IN  CASE s = "created"  -> IF over \/ paid \/ ContractDone(r) THEN "done" ELSE "current"
          [] s = "contract" -> IF ~ContractDone(r) THEN "upcoming"
                               ELSE IF over \/ paid THEN "done" ELSE "current"
          [] s = "paid"     -> IF ~paid THEN "upcoming" ELSE IF over THEN "done" ELSE "current"
          [] s = "final"    -> IF r.status = "CANCELLED" THEN "cancelled"
                               ELSE IF r.status = "COMPLETED" THEN "done" ELSE "upcoming"

(* getContractStatusLabel, with the PDF that signing leaves.               *)
ContractLabel(r) ==
    IF r.status = "CANCELLED" THEN "cancelled" ELSE IF ContractDone(r) THEN "confirmed" ELSE "waiting"

TypeOK ==
    /\ RowsTypeOK
    /\ open \in DOMAIN rows \cup {Nil}
    /\ \A i \in Ids : call[i].pc \in {"idle", "read", "answer"}
    /\ \A i \in Ids : detail[i] # Nil => detail[i].row \in Row /\ i \in DOMAIN rows

(***************************************************************************)
(* A drawer never shows one purchase as another, however fast they are     *)
(* opened one after the other: what it has read since the last change is   *)
(* the row of its own id.                                                  *)
(***************************************************************************)
DrawerShowsItsPurchase ==
    open # Nil /\ detail[open] # Nil /\ detail[open].age = changes => detail[open].row = rows[open]

(***************************************************************************)
(* Wherever the backend and the seed have left a purchase, an unfinished   *)
(* one stands at exactly one step of its timeline, with nothing done after *)
(* it, and says it has a confirmed contract just when that step is done or *)
(* current.                                                                *)
(***************************************************************************)
StandsAtOneStep ==
    \A i \in DOMAIN rows : LET r == rows[i] IN
        r.status \notin {"COMPLETED", "CANCELLED"} =>
            /\ Cardinality({n \in 1..4 : StepState(r, Steps[n]) = "current"}) = 1
            /\ \A m, n \in 1..4 : m < n /\ StepState(r, Steps[n]) = "done" => StepState(r, Steps[m]) = "done"
            /\ (ContractLabel(r) = "confirmed") = (StepState(r, "contract") # "upcoming")
=============================================================================
