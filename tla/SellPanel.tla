------------------------------ MODULE SellPanel ------------------------------
(***************************************************************************)
(* The sell-requests page of two administrators: the table, the drawer of  *)
(* one request with its three buttons, the caches the answers are kept in, *)
(* and the requests of the service behind them (SellRequest has their      *)
(* whole effect on wallet and membership).  The wallet section of the      *)
(* drawer decides nothing and is left out.                                 *)
(***************************************************************************)
EXTENDS Naturals, FiniteSets

CONSTANTS
    Admins, Requests,
    Grams,        \* the seller's balance; a request sells one unit
    MaxPuts,      \* bound: clicks on the drawers' buttons
    Tables, Nil   \* keys of the lists mounted; nothing got, nothing open

(* What the constants have to be.                                          *)
SellPanelAssumption == /\ {Grams, MaxPuts} \subseteq Nat
                       /\ Tables \cap Requests = {}
                       /\ Nil \notin Requests \cup Tables

Statuses == {"PENDING", "APPROVED", "COMPLETED", "CANCELLED"}
Keys == Requests \cup Tables

VARIABLES
    row,          \* row[r]: SellRequest.status
    balance,      \* the seller's Wallet.balanceGrams
    writes,       \* updates of rows so far: the age of what was read
    puts,         \* clicks so far
    open,         \* open[a]: drawerId
    data,         \* data[a][k]: what query k last got: the rows, their age;
                  \* failed: its last try brought nothing (isError)
    call,         \* call[a][k]: query k under way
    put,          \* put[a]: the mutation under way (isBusy)
    late,         \* history: requests clicked on with an old row, or twice at once
    paid,         \* history: deductions for each request
    own           \* own[a][k]: history: writes when an own change last asked for k

panel == <<open, data, call>>
vars == <<row, balance, writes, puts, open, data, call, put, late, paid, own>>

IdleCall == [pc |-> "idle", rows |-> Nil, age |-> 0]
IdlePut == [pc |-> "idle", req |-> Nil, to |-> Nil]

(* Requests waiting or approved before; the page has got its table.        *)
Init ==
    /\ row \in [Requests -> {"PENDING", "APPROVED"}] /\ balance = Grams /\ writes = 0 /\ puts = 0
    /\ open = [a \in Admins |-> Nil]
    /\ data = [a \in Admins |-> [k \in Keys |->
                   IF k \in Tables THEN [rows |-> row, age |-> 0, failed |-> FALSE] ELSE Nil]]
    /\ call = [a \in Admins |-> [k \in Keys |-> IdleCall]]
    /\ put = [a \in Admins |-> IdlePut]
    /\ late = {} /\ paid = [r \in Requests |-> 0] /\ own = [a \in Admins |-> [k \in Keys |-> 0]]

Asked == [IdleCall EXCEPT !.pc = "read"]

(* A row of the table opens the drawer; its queries run again.             *)
Open(a, r) ==
    /\ open[a] = Nil /\ open' = [open EXCEPT ![a] = r]
    /\ call' = [call EXCEPT ![a][r] = IF @.pc = "idle" THEN Asked ELSE @]
    /\ UNCHANGED <<row, balance, writes, puts, data, put, late, paid, own>>

Close(a) ==
    /\ open[a] # Nil /\ open' = [open EXCEPT ![a] = Nil]
    /\ UNCHANGED <<row, balance, writes, puts, data, call, put, late, paid, own>>

(* getSellRequests, getSellRequestById.                                    *)
Read(a, k) ==
    /\ call[a][k].pc = "read"
    /\ call' = [call EXCEPT ![a][k] = [pc |-> "answer", rows |-> row, age |-> writes]]
    /\ UNCHANGED <<row, balance, writes, puts, open, data, put, late, paid, own>>

Answered(a, k) ==
    /\ call[a][k].pc = "answer"
    /\ data' = [data EXCEPT ![a][k] = [rows |-> call[a][k].rows, age |-> call[a][k].age,
                                             failed |-> FALSE]]
    /\ call' = [call EXCEPT ![a][k] = IdleCall]
    /\ UNCHANGED <<row, balance, writes, puts, open, put, late, paid, own>>

(* After a retry: the table gives way to the error, the drawer goes on     *)
(* showing the row it had.                                                 *)
Failed(a, k) ==
    /\ call[a][k].pc # "idle" /\ call' = [call EXCEPT ![a][k] = IdleCall]
    /\ data' = [data EXCEPT ![a][k] = IF @ = Nil THEN Nil ELSE [@ EXCEPT !.failed = TRUE]]
    /\ UNCHANGED <<row, balance, writes, puts, open, put, late, paid, own>>

-----------------------------------------------------------------------------
(* The row a drawer shows, and the buttons it enables.                     *)
Item(a) == data[a][open[a]].rows[open[a]]

(* MUTANT of Offers: a finished request can be cancelled, as in the API.   *)
OffersAnyCancel(s) == CASE s = "PENDING" -> {"APPROVED", "CANCELLED"}
                        [] s = "APPROVED" -> {"COMPLETED", "CANCELLED"}
                        [] OTHER -> {"CANCELLED"}

Offers(s) ==
    CASE s = "PENDING"  -> {"APPROVED", "CANCELLED"}
      [] s = "APPROVED" -> {"COMPLETED", "CANCELLED"}
      [] OTHER          -> {}

(* handleApprove, handleComplete, handleCancel.                            *)
Click(a, to) ==
    /\ puts < MaxPuts /\ puts' = puts + 1
    /\ open[a] # Nil /\ data[a][open[a]] # Nil /\ put[a].pc = "idle"
    /\ to \in Offers(Item(a))
    /\ put' = [put EXCEPT ![a] = [pc |-> "find", req |-> open[a], to |-> to]]
    /\ late' = IF Item(a) # row[open[a]] \/ \E b \in Admins : put[b].req = open[a]
               THEN late \cup {open[a]} ELSE late
    /\ UNCHANGED <<row, balance, writes, paid, own>> /\ UNCHANGED panel

At(a, pc) == put[a].pc = pc
Goes(a, pc) == put' = [put EXCEPT ![a].pc = pc]

(* MUTANT of Find: whatever finds an approved request pays it out.         *)
FindPays(a) ==
    /\ At(a, "find") /\ Goes(a, IF row[put[a].req] = "APPROVED" THEN "deduct" ELSE "update")
    /\ UNCHANGED <<row, balance, writes, puts, late, paid, own>> /\ UNCHANGED panel

(* findUnique, and the one status check there is.                          *)
Find(a) ==
    /\ At(a, "find")
    /\ Goes(a, IF put[a].to # "COMPLETED" THEN "update"
               ELSE IF row[put[a].req] = "APPROVED" THEN "deduct" ELSE "refused")
    /\ UNCHANGED <<row, balance, writes, puts, late, paid, own>> /\ UNCHANGED panel

(* deductGrams, and what it does with too small a balance.                 *)
Deduct(a) ==
    /\ At(a, "deduct")
    /\ IF balance = 0 THEN Goes(a, "refused") /\ UNCHANGED <<balance, paid>>
       ELSE /\ Goes(a, "update") /\ balance' = balance - 1
            /\ paid' = [paid EXCEPT ![put[a].req] = @ + 1]
    /\ UNCHANGED <<row, writes, puts, late, own>> /\ UNCHANGED panel

Update(a) ==
    /\ At(a, "update") /\ Goes(a, "done")
    /\ row' = [row EXCEPT ![put[a].req] = put[a].to] /\ writes' = writes + 1
    /\ UNCHANGED <<balance, puts, late, paid, own>> /\ UNCHANGED panel

(* MUTANT of Invalidated: only the list is asked for again.                *)
InvalidatedTable(a) == Tables

(* invalidateQueries("sell-requests", "sell-request"): what is mounted is  *)
(* asked for again at once, an answer under way is dropped.  What is not   *)
(* mounted is asked for when it is opened, unless it still is under way.   *)
Invalidated(a) == Tables \cup IF open[a] = Nil THEN {} ELSE {open[a]}

(* What is mounted when the change is answered must show it.               *)
Owned(a) == own' = [own EXCEPT ![a] = [k \in Keys |-> IF k \in Tables \/ k = open[a] THEN writes ELSE @[k]]]

(* onSuccess does not wait for the answers: the buttons work on the row    *)
(* the drawer still has.                                                   *)
PutDone(a) ==
    /\ At(a, "done") /\ put' = [put EXCEPT ![a] = IdlePut] /\ Owned(a)
    /\ call' = [call EXCEPT ![a] = [k \in Keys |-> IF k \in Invalidated(a) THEN Asked ELSE @[k]]]
    /\ UNCHANGED <<row, balance, writes, puts, open, data, late, paid>>

(* Refused, or the answer is lost: a toast, and nothing asked for again.   *)
PutFailed(a) ==
    /\ At(a, "refused") \/ At(a, "done")
    /\ put' = [put EXCEPT ![a] = IdlePut]
    /\ UNCHANGED <<row, balance, writes, puts, late, paid, own>> /\ UNCHANGED panel

(* A step of a's page, or of a request of it at the service.               *)
Does(a) ==
    \/ Close(a)
    \/ Find(a) \/ Deduct(a) \/ Update(a) \/ PutDone(a) \/ PutFailed(a)
    \/ \E r \in Requests : Open(a, r)
    \/ \E k \in Keys : Read(a, k) \/ Answered(a, k) \/ Failed(a, k)
    \/ \E to \in Statuses : Click(a, to)

Next == \E a \in Admins : Does(a)

Spec == Init /\ [][Next]_vars
-----------------------------------------------------------------------------
TypeOK ==
    /\ row \in [Requests -> Statuses] /\ balance \in 0..Grams /\ paid \in [Requests -> 0..Grams]
    /\ writes \in 0..puts /\ puts \in 0..MaxPuts /\ late \subseteq Requests
    /\ open \in [Admins -> Requests \cup {Nil}] /\ own \in [Admins -> [Keys -> 0..writes]]
    /\ \A a \in Admins : /\ put[a].pc = "deduct" => put[a].to = "COMPLETED"
                         /\ call[a] \in [Keys -> [pc : {"idle", "read", "answer"}, age : 0..writes,
                                                  rows : [Requests -> Statuses] \cup {Nil}]]

(***************************************************************************)
(* The service checks nothing when it approves or cancels; the buttons do, *)
(* with the row the drawer has.  As long as nobody clicks on an old row or *)
(* twice at once, a request goes its way once, never leaves COMPLETED or   *)
(* CANCELLED, and is paid for exactly when it is completed.                *)
(***************************************************************************)
FreshClicksFollowTheOrder ==
    [][\A r \in Requests \ late :
          /\ row'[r] # row[r] => row'[r] \in (IF row[r] = "PENDING" THEN {"APPROVED", "CANCELLED"}
                                              ELSE IF row[r] = "APPROVED" THEN {"COMPLETED", "CANCELLED"} ELSE {})
          /\ row'[r] # row[r] => paid[r] = IF row'[r] = "COMPLETED" THEN 1 ELSE 0]_vars

(***************************************************************************)
(* After a successful change and the answers that follow it, the table and *)
(* the drawer that was open show rows as new as that change, whatever      *)
(* answers were under way when it was made, unless they failed.  (A drawer *)
(* opened later may still get an answer asked for before the change.)      *)
(***************************************************************************)
OwnChangeShown ==
    \A a \in Admins : put[a].pc = "idle" =>
        \A k \in {k \in Keys : k \in Tables \/ k = open[a]} :
            call[a][k].pc = "idle" /\ data[a][k] # Nil => data[a][k].failed \/ data[a][k].age >= own[a][k]
=============================================================================
