---------------------------- MODULE SellRequest ----------------------------
(***************************************************************************)
(* backend/src/sell-request/sell-request.service.ts with the services it   *)
(* calls: a user asks to sell gold, an administrator approves the request, *)
(* cancels it, or completes it, which deducts the grams from the wallet    *)
(* (Wallet) and looks at the membership level (Membership).                *)
(*                                                                         *)
(* Meanwhile payments credit wallets: an addGrams call here stands for the *)
(* webhook of Purchase.                                                    *)
(***************************************************************************)
EXTENDS Integers, Sequences, FiniteSets, Functions

CONSTANTS
    Users,      \* user ids
    Slots,      \* request handlers that can be in flight at the same time
    Refs,       \* reference ids of wallet transactions
    Requests,   \* sell request ids
    Grams,      \* amounts bought and sold, in half grams
    Levels, NORMAL, Thresholds,  \* membership levels and their minGrams
    Nil,
    MaxCalls,   \* bound: how many wallet calls are ever started
    MaxFaults,  \* bound: how many failures and crashes happen
    MaxClicks   \* bound: how many approvals and cancellations happen

ASSUME SellAssumption ==
    /\ Requests \subseteq Refs
    /\ Grams \subseteq Int
    /\ NORMAL \in Levels
    /\ Nil \notin Users \cup Refs
    /\ MaxCalls \in Nat /\ MaxFaults \in Nat /\ MaxClicks \in Nat

VARIABLES
    request,  \* request[r]: the SellRequest row
    job       \* job[t]: the handler running in slot t

(* The wallet service (see Wallet) and the membership service.             *)
VARIABLES opened, wallet, ledger, call, calls, credited, debited, crossed, contended, torn
VARIABLES level, check

(* History variables: no counterpart in the code.                          *)
VARIABLES
    deductedFor,  \* deductedFor[r]: deductGrams writes made for request r
    approvals,    \* approvals[r]: how often r was approved
    overlapped,   \* requests with two completions in flight at once
    broken,       \* requests with a completion that broke off after its check
    reopened,     \* requests that left COMPLETED by an approval or a cancellation
    clicks,       \* approvals and cancellations so far, for MaxClicks
    faults        \* failures and crashes so far, for MaxFaults

W == INSTANCE Wallet
M == INSTANCE Membership WITH
         Editors <- {}, Defaults <- <<>>, config <- Thresholds, edits <- <<>>,
         total <- [u \in Users |-> wallet[u].purchased]

walletVars == <<opened, wallet, ledger, call, calls, credited, debited, crossed, contended, torn>>
memberVars == <<level, check>>
historyVars == <<deductedFor, approvals, overlapped, broken, reopened, clicks, faults>>
vars == <<request, job, walletVars, memberVars, historyVars>>

Status == {"NONE", "PENDING", "APPROVED", "COMPLETED", "CANCELLED"}
RequestRow == [status: Status, user: Users \cup {Nil}, grams: Int, approvedAt: BOOLEAN]
NoRequest == [status |-> "NONE", user |-> Nil, grams |-> 0, approvedAt |-> FALSE]

JobPc == {"idle", "creating", "deducting", "levelling", "completing", "buying"}
Job == [pc: JobPc, r: Refs \cup {Nil}, user: Users \cup {Nil}, grams: Int]
IdleJob == [pc |-> "idle", r |-> Nil, user |-> Nil, grams |-> 0]

Goto(t, pc) == job' = [job EXCEPT ![t].pc = pc]
EndJob(t) == job' = [job EXCEPT ![t] = IdleJob]

Completing(r) == {t \in Slots : job[t].r = r
                      /\ job[t].pc \in {"deducting", "levelling", "completing"}}
-----------------------------------------------------------------------------
Init ==
    /\ request = [r \in Requests |-> NoRequest]
    /\ job = [t \in Slots |-> IdleJob]
    /\ W!Init
    /\ M!ServiceInit
    /\ deductedFor = [r \in Requests |-> 0]
    /\ approvals = [r \in Requests |-> 0]
    /\ overlapped = {} /\ broken = {} /\ reopened = {}
    /\ clicks = 0 /\ faults = 0

(* AuthService.register creates the wallet of u, if it gets that far.      *)
OpenWallet(u) ==
    /\ W!CreateWallet(u)
    /\ UNCHANGED <<request, job, memberVars, historyVars>>

(* createSellRequest: the balance is checked, not reserved ...             *)
CreateSellRequest(t, u, g) ==
    /\ job[t].pc = "idle"
    /\ g > 0
    /\ u \in opened /\ wallet[u].balance >= g
    /\ job' = [job EXCEPT ![t] = [pc |-> "creating", r |-> Nil, user |-> u, grams |-> g]]
    /\ UNCHANGED <<request, walletVars, memberVars, historyVars>>

(* ... and the row is inserted in a database call of its own.              *)
InsertRequest(t) ==
    /\ job[t].pc = "creating"
    /\ \E r \in Requests :
          /\ request[r].status = "NONE"
          /\ request' = [request EXCEPT ![r] =
                          [NoRequest EXCEPT !.status = "PENDING", !.user = job[t].user,
                                            !.grams = job[t].grams]]
    /\ EndJob(t)
    /\ UNCHANGED <<walletVars, memberVars, historyVars>>

Click == clicks < MaxClicks /\ clicks' = clicks + 1
Reopen(r) == reopened' = IF request[r].status = "COMPLETED" THEN reopened \cup {r} ELSE reopened

(* approveSellRequest and cancelSellRequest only look whether the row      *)
(* exists; the update does not depend on the status.                       *)
ApproveSellRequest(r) ==
    /\ Click
    /\ request[r].status # "NONE"
    /\ request' = [request EXCEPT ![r].status = "APPROVED", ![r].approvedAt = TRUE]
    /\ approvals' = [approvals EXCEPT ![r] = @ + 1]
    /\ Reopen(r)
    /\ UNCHANGED <<job, walletVars, memberVars, deductedFor, overlapped, broken, faults>>

(* MUTANT of CancelSellRequest: a status the schema does not have.          *)
CancelSellRequestRejected(r) ==
    /\ Click
    /\ request[r].status # "NONE"
    /\ request' = [request EXCEPT ![r].status = "REJECTED"]
    /\ Reopen(r)
    /\ UNCHANGED <<job, walletVars, memberVars, deductedFor, approvals, overlapped, broken, faults>>

CancelSellRequest(r) ==
    /\ Click
    /\ request[r].status # "NONE"
    /\ request' = [request EXCEPT ![r].status = "CANCELLED"]
    /\ Reopen(r)
    /\ UNCHANGED <<job, walletVars, memberVars, deductedFor, approvals, overlapped, broken, faults>>

(* completeSellRequest passes its status check and runs into deductGrams.  *)
BeginCompletion(t, r) ==
    /\ job[t].pc = "idle"
    /\ W!DeductGrams(t, request[r].user, request[r].grams, r)
    /\ job' = [job EXCEPT ![t] = [pc |-> "deducting", r |-> r, user |-> request[r].user,
                                  grams |-> request[r].grams]]
    /\ overlapped' = IF Completing(r) # {} THEN overlapped \cup {r} ELSE overlapped
    /\ UNCHANGED <<request, memberVars, deductedFor, approvals, broken, reopened, clicks, faults>>

(* MUTANT of CompleteSellRequest: a request need not be approved.           *)
CompleteSellRequestPending(t, r) ==
    /\ request[r].status \in {"PENDING", "APPROVED"}
    /\ BeginCompletion(t, r)

CompleteSellRequest(t, r) ==
    /\ request[r].status = "APPROVED"
    /\ BeginCompletion(t, r)

(* The steps of deductGrams.                                               *)
Deduct(t) ==
    /\ job[t].pc = "deducting"
    /\ W!Step(t)
    /\ deductedFor' = IF W!WriteDeduct(t) THEN [deductedFor EXCEPT ![job[t].r] = @ + 1]
                      ELSE deductedFor
    /\ UNCHANGED <<request, job, memberVars, approvals, overlapped, broken, reopened,
                   clicks, faults>>

(* MUTANT of Deducted: goes on when deductGrams refused.                    *)
DeductedUnchecked(t) ==
    /\ job[t].pc = "deducting"
    /\ call[t].pc \in {"done", "failed"}
    /\ W!Return(t)
    /\ M!StartCheck(t, job[t].user)
    /\ Goto(t, "levelling")
    /\ UNCHANGED <<request, historyVars>>

(* deductGrams returned: on to checkAndUpdateMembership.                   *)
Deducted(t) ==
    /\ job[t].pc = "deducting"
    /\ call[t].pc = "done"
    /\ W!Return(t)
    /\ M!StartCheck(t, job[t].user)
    /\ Goto(t, "levelling")
    /\ UNCHANGED <<request, historyVars>>

Level(t) ==
    /\ job[t].pc = "levelling"
    /\ M!StepCheck(t)
    /\ UNCHANGED <<request, job, walletVars, historyVars>>

Levelled(t) ==
    /\ job[t].pc = "levelling"
    /\ check[t].pc = "done"
    /\ M!ReturnCheck(t)
    /\ Goto(t, "completing")
    /\ UNCHANGED <<request, walletVars, historyVars>>

(* MUTANT of WriteCompleted: the status is left as it is.                   *)
WriteCompletedNoStatus(t) ==
    /\ job[t].pc = "completing"
    /\ EndJob(t)
    /\ UNCHANGED <<request, walletVars, memberVars, historyVars>>

(* The last update of completeSellRequest, whatever the status is by now.  *)
WriteCompleted(t) ==
    /\ job[t].pc = "completing"
    /\ request' = [request EXCEPT ![job[t].r].status = "COMPLETED"]
    /\ EndJob(t)
    /\ UNCHANGED <<walletVars, memberVars, historyVars>>

(* A payment credits the wallet of u.                                      *)
Buy(t, u, g) ==
    /\ job[t].pc = "idle"
    /\ \E p \in Refs \ Requests : W!AddGrams(t, u, g, p)
    /\ job' = [job EXCEPT ![t] = [IdleJob EXCEPT !.pc = "buying"]]
    /\ UNCHANGED <<request, memberVars, historyVars>>

Buying(t) ==
    /\ job[t].pc = "buying"
    /\ \/ W!Step(t) /\ UNCHANGED job
       \/ W!Return(t) /\ EndJob(t)
    /\ UNCHANGED <<request, memberVars, historyVars>>

Fault == faults < MaxFaults /\ faults' = faults + 1
Break(ts) == broken' = broken \cup {r \in Requests : Completing(r) \cap ts # {}}

(* An await of the handler itself rejects.                                 *)
FailJob(t) ==
    /\ Fault
    /\ job[t].pc \in {"creating", "completing"}
    /\ EndJob(t)
    /\ Break({t})
    /\ UNCHANGED <<request, walletVars, memberVars, deductedFor, approvals, overlapped,
                   reopened, clicks>>

(* A database call of a service rejects ...                                *)
FailService(t) ==
    /\ Fault
    /\ \/ job[t].pc \in {"deducting", "buying"} /\ W!Fail(t) /\ UNCHANGED memberVars
       \/ job[t].pc = "levelling" /\ M!FailCheck(t) /\ UNCHANGED walletVars
    /\ Break({t})
    /\ UNCHANGED <<request, job, deductedFor, approvals, overlapped, reopened, clicks>>

(* ... or deductGrams refuses, and the handler ends with the error.        *)
Abandon(t) ==
    /\ \/ job[t].pc = "deducting" /\ call[t].pc = "failed" /\ W!Return(t) /\ UNCHANGED memberVars
       \/ job[t].pc = "levelling" /\ check[t].pc = "failed" /\ M!ReturnCheck(t)
                                  /\ UNCHANGED walletVars
    /\ EndJob(t)
    /\ UNCHANGED <<request, historyVars>>

(* The backend process dies and is restarted.                              *)
Crash ==
    /\ Fault
    /\ W!Crash
    /\ M!ForgetChecks /\ UNCHANGED level
    /\ job' = [t \in Slots |-> IdleJob]
    /\ Break(Slots)
    /\ UNCHANGED <<request, deductedFor, approvals, overlapped, reopened, clicks>>

Run(t) ==
    \/ InsertRequest(t)
    \/ Deduct(t) \/ Deducted(t) \/ Level(t) \/ Levelled(t) \/ WriteCompleted(t)
    \/ Buying(t) \/ Abandon(t)

Next ==
    \/ \E u \in Users : OpenWallet(u)
    \/ \E t \in Slots, u \in Users, g \in Grams : CreateSellRequest(t, u, g) \/ Buy(t, u, g)
    \/ \E r \in Requests : ApproveSellRequest(r) \/ CancelSellRequest(r)
    \/ \E t \in Slots, r \in Requests : CompleteSellRequest(t, r)
    \/ \E t \in Slots : Run(t) \/ FailJob(t) \/ FailService(t)
    \/ Crash

Spec == Init /\ [][Next]_vars
-----------------------------------------------------------------------------
TypeOK ==
    /\ request \in [Requests -> RequestRow]
    /\ job \in [Slots -> Job]
    /\ W!TypeOK
    /\ M!ServiceTypeOK
    /\ deductedFor \in [Requests -> Nat]
    /\ approvals \in [Requests -> Nat]
    /\ overlapped \in SUBSET Requests /\ broken \in SUBSET Requests
    /\ reopened \in SUBSET Requests
    /\ clicks \in Nat /\ faults \in Nat

(* Gold leaves a wallet for a request in its order.  A user is told that   *)
(* it was sold only if it left the wallet, although the deduction may be   *)
(* refused and the status may change while it runs; no gold leaves for a   *)
(* request that was never approved; and one approval pays for one          *)
(* deduction, on a request whose completions never overlapped and never    *)
(* broke off.  Clicks may come at any time.                                *)
DeductionsInOrder ==
    \A r \in Requests :
        /\ request[r].status = "COMPLETED" => deductedFor[r] > 0
        /\ deductedFor[r] > 0 => request[r].approvedAt
        /\ r \notin overlapped \cup broken => deductedFor[r] <= approvals[r]

Rows(u, r) == {i \in 1..Len(ledger[u]) : ledger[u][i].ref = r}

Sold(u) == {r \in Requests : request[r].user = u /\ request[r].status = "COMPLETED"}
GramsOf == [r \in Requests |-> request[r].grams]

(* Ledger and wallet tell of every sale.  As many rows name a request as   *)
(* deductions were made for it, but for the one about to be logged and     *)
(* those cut off before they were.  When none of u's requests is being     *)
(* completed, totalSold is the sum of u's COMPLETED requests, unless       *)
(* wallet calls of u or completions overlapped, a completion broke off or  *)
(* a COMPLETED request was reopened.                                       *)
SalesBooked ==
    /\ \A u \in Users \ torn, r \in Requests :
          request[r].user = u =>
              Cardinality(Rows(u, r))
                  = deductedFor[r] - Cardinality({t \in Completing(r) : call[t].pc = "log"})
    /\ \A u \in Users \ contended :
          (\A r \in Requests : request[r].user = u =>
              Completing(r) = {} /\ r \notin (overlapped \cup broken \cup reopened))
          => wallet[u].sold = SumFunctionOnSet(GramsOf, Sold(u))

(* The admin panel offers approval only while a request is PENDING and     *)
(* completion only while it is APPROVED, so a request would be deducted at *)
(* most once.                                                              *)
DeductedOnce == \A r \in Requests : deductedFor[r] <= 1
=============================================================================
