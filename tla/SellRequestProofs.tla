------------------------- MODULE SellRequestProofs -------------------------
(* Theorems about SellRequest, for every number of users, requests,        *)
(* handlers, clicks and failures.                                          *)
EXTENDS SellRequest, FiniteSetTheorems, TLAPS

(* The theorems about the wallet service, for the wallet of this module.   *)
WP == INSTANCE WalletProofs

-----------------------------------------------------------------------------
(***************************************************************************)
(* Every request that was inserted and every handler in flight has a user  *)
(* and an amount, and a completion works on a request.                     *)
(***************************************************************************)
CompPc == {"deducting", "levelling", "completing"}

Known ==
    /\ request \in [Requests -> RequestRow]
    /\ job \in [Slots -> Job]
    /\ \A r \in Requests :
          request[r].status # "NONE" => request[r].user \in Users /\ request[r].grams \in Grams
    /\ \A t \in Slots :
          /\ job[t].pc = "creating" => job[t].user \in Users /\ job[t].grams \in Grams
          /\ job[t].pc \in CompPc =>
                /\ job[t].r \in Requests /\ job[t].user \in Users
                /\ request[job[t].r].status # "NONE"

LEMMA KnownInit == Init => Known
BY SellAssumption
   DEF Init, Known, NoRequest, RequestRow, Status, IdleJob, Job, JobPc, CompPc

(* A handler that starts, ends or goes on with its completion.             *)
LEMMA JobMoves ==
    ASSUME Known, request' = request, NEW t \in Slots,
           \/ EndJob(t)
           \/ \E pc \in {"levelling", "completing"} : Goto(t, pc) /\ job[t].pc \in CompPc
           \/ UNCHANGED job
    PROVE  Known'
<1>1. CASE EndJob(t)
  BY <1>1, SellAssumption DEF Known, EndJob, IdleJob, Job, JobPc, CompPc
<1>2. ASSUME NEW pc \in {"levelling", "completing"}, Goto(t, pc), job[t].pc \in CompPc
      PROVE  Known'
  BY <1>2 DEF Known, Goto, Job, JobPc, CompPc
<1>3. CASE UNCHANGED job
  BY <1>3 DEF Known
<1>4. QED
  BY <1>1, <1>2, <1>3

LEMMA JobStarts ==
    ASSUME Known, request' = request, NEW t \in Slots, NEW j \in Job,
           job' = [job EXCEPT ![t] = j],
           j.pc = "creating" => j.user \in Users /\ j.grams \in Grams,
           j.pc \in CompPc =>
              j.r \in Requests /\ j.user \in Users /\ request[j.r].status # "NONE"
    PROVE  Known'
BY DEF Known

LEMMA RowStatus ==
    ASSUME Known, NEW r \in Requests, NEW st \in Status, NEW a \in BOOLEAN,
           request[r].status # "NONE",
           \/ request' = [request EXCEPT ![r].status = st]
           \/ request' = [request EXCEPT ![r].status = st, ![r].approvedAt = a]
    PROVE  /\ request' \in [Requests -> RequestRow]
           /\ \A q \in Requests \ {r} : request'[q] = request[q]
           /\ request'[r].status = st
           /\ request'[r].user = request[r].user
           /\ request'[r].grams = request[r].grams
BY DEF Known, RequestRow

LEMMA KnownStep == Known /\ [Next]_vars => Known'
<1> SUFFICES ASSUME Known, [Next]_vars PROVE Known'
  OBVIOUS
<1>1. ASSUME NEW t \in Slots, NEW u \in Users, NEW g \in Grams, CreateSellRequest(t, u, g)
      PROVE  Known'
  <2>1. [pc |-> "creating", r |-> Nil, user |-> u, grams |-> g] \in Job
    BY SellAssumption DEF Job, JobPc
  <2>2. QED
    BY <1>1, <2>1, JobStarts DEF CreateSellRequest, CompPc
<1>2. ASSUME NEW t \in Slots, NEW u \in Users, NEW g \in Grams, Buy(t, u, g) PROVE Known'
  <2>1. [IdleJob EXCEPT !.pc = "buying"] \in Job
    BY DEF Job, JobPc, IdleJob
  <2>2. [IdleJob EXCEPT !.pc = "buying"].pc = "buying"
    BY DEF IdleJob
  <2>3. QED
    BY <1>2, <2>1, <2>2, JobStarts DEF Buy, CompPc
<1>3. ASSUME NEW t \in Slots, InsertRequest(t) PROVE Known'
  <2>1. /\ job[t].user \in Users /\ job[t].grams \in Grams /\ job[t].grams \in Int
        /\ EndJob(t)
    BY <1>3 DEF InsertRequest, Known, Job
  <2> DEFINE row == [NoRequest EXCEPT !.status = "PENDING", !.user = job[t].user,
                                      !.grams = job[t].grams]
  <2>2. PICK r \in Requests : request' = [request EXCEPT ![r] = row]
    BY <1>3 DEF InsertRequest
  <2>3. /\ row \in RequestRow /\ row.status # "NONE"
        /\ row.user = job[t].user /\ row.grams = job[t].grams
    BY <2>1, SellAssumption DEF NoRequest, RequestRow, Status
  <2> HIDE DEF row
  <2>5. /\ request' \in [Requests -> RequestRow]
        /\ \A q \in Requests : request'[q].status # "NONE" =>
               request'[q].user \in Users /\ request'[q].grams \in Grams
        /\ \A q \in Requests : request[q].status # "NONE" => request'[q].status # "NONE"
    BY <2>1, <2>2, <2>3 DEF Known
  <2>6. job' \in [Slots -> Job] /\ \A s \in Slots : job'[s] = job[s] \/ job'[s] = IdleJob
    BY <2>1 DEF Known, EndJob, IdleJob, Job, JobPc
  <2>7. QED
    BY <2>5, <2>6 DEF Known, IdleJob, CompPc
<1>4. ASSUME NEW r \in Requests, ApproveSellRequest(r) \/ CancelSellRequest(r) PROVE Known'
  <2>1. /\ request[r].status # "NONE" /\ job' = job
        /\ \/ request' = [request EXCEPT ![r].status = "APPROVED", ![r].approvedAt = TRUE]
           \/ request' = [request EXCEPT ![r].status = "CANCELLED"]
    BY <1>4 DEF ApproveSellRequest, CancelSellRequest
  <2>2. PICK st \in {"APPROVED", "CANCELLED"} :
           /\ request' \in [Requests -> RequestRow]
           /\ \A q \in Requests \ {r} : request'[q] = request[q]
           /\ request'[r].status = st
           /\ request'[r].user = request[r].user
           /\ request'[r].grams = request[r].grams
    BY <2>1, RowStatus DEF Status
  <2>3. \A q \in Requests : request'[q].status # "NONE" <=> request[q].status # "NONE"
    BY <2>1, <2>2
  <2>4. QED
    BY <2>1, <2>2, <2>3 DEF Known
<1>5. ASSUME NEW t \in Slots, NEW r \in Requests, CompleteSellRequest(t, r) PROVE Known'
  <2>1. request[r].status # "NONE" /\ r \in Refs /\ BeginCompletion(t, r)
    BY <1>5, SellAssumption DEF CompleteSellRequest
  <2>2. request[r].user \in Users /\ request[r].grams \in Int
    BY <2>1 DEF Known, RequestRow
  <2>3. [pc |-> "deducting", r |-> r, user |-> request[r].user, grams |-> request[r].grams]
           \in Job
    BY <2>1, <2>2 DEF Job, JobPc
  <2>4. QED
    BY <2>1, <2>2, <2>3, JobStarts DEF BeginCompletion
<1>6. ASSUME NEW t \in Slots, WriteCompleted(t) PROVE Known'
  <2>1. /\ job[t].r \in Requests /\ EndJob(t)
        /\ request' = [request EXCEPT ![job[t].r].status = "COMPLETED"]
    BY <1>6 DEF WriteCompleted, Known, CompPc
  <2>2. PICK r \in Requests : r = job[t].r /\ request[r].status # "NONE"
    BY <1>6, <2>1 DEF WriteCompleted, Known, CompPc
  <2>3. /\ request' \in [Requests -> RequestRow]
        /\ \A q \in Requests \ {r} : request'[q] = request[q]
        /\ request'[r].status = "COMPLETED"
        /\ request'[r].user = request[r].user
        /\ request'[r].grams = request[r].grams
    BY <2>1, <2>2, RowStatus DEF Status
  <2>4. /\ \A q \in Requests : request'[q].status # "NONE" =>
               request'[q].user \in Users /\ request'[q].grams \in Grams
        /\ \A q \in Requests : request[q].status # "NONE" => request'[q].status # "NONE"
    BY <2>2, <2>3 DEF Known
  <2>6. job' \in [Slots -> Job] /\ \A s \in Slots : job'[s] = job[s] \/ job'[s] = IdleJob
    BY <2>1 DEF Known, EndJob, IdleJob, Job, JobPc
  <2>7. QED
    BY <2>3, <2>4, <2>6 DEF Known, IdleJob, CompPc
<1>7. ASSUME NEW t \in Slots,
             \/ Deduct(t) \/ Deducted(t) \/ Level(t) \/ Levelled(t) \/ Buying(t)
             \/ Abandon(t) \/ FailJob(t) \/ FailService(t)
      PROVE  Known'
  <2>1. request' = request
    BY <1>7 DEF Deduct, Deducted, Level, Levelled, Buying, Abandon, FailJob, FailService
  <2>2. \/ EndJob(t)
        \/ \E pc \in {"levelling", "completing"} : Goto(t, pc) /\ job[t].pc \in CompPc
        \/ UNCHANGED job
    BY <1>7 DEF Deduct, Deducted, Level, Levelled, Buying, Abandon, FailJob, FailService, CompPc
  <2>3. QED
    BY <2>1, <2>2, JobMoves
<1>8. ASSUME Crash PROVE Known'
  BY <1>8 DEF Crash, Known, IdleJob, Job, JobPc, CompPc
<1>9. ASSUME NEW u \in Users, OpenWallet(u) PROVE Known'
  BY <1>9 DEF OpenWallet, Known
<1>10. ASSUME UNCHANGED vars PROVE Known'
  BY <1>10 DEF vars, Known
<1>11. QED
  BY <1>1, <1>2, <1>3, <1>4, <1>5, <1>6, <1>7, <1>8, <1>9, <1>10 DEF Next, Run
-----------------------------------------------------------------------------
(***************************************************************************)
(* The handlers use the wallet only through its service, so what is proved *)
(* of the service's frames holds here.                                     *)
(***************************************************************************)
LEMMA SameNext == W!Next => WP!Next
<1>1. ASSUME NEW u \in Users, W!CreateWallet(u) PROVE WP!CreateWallet(u)
  BY <1>1 DEF W!CreateWallet, WP!CreateWallet, W!historyVars, WP!historyVars
<1>2. ASSUME NEW t \in Slots, W!Step(t) PROVE WP!Step(t)
  BY <1>2 DEF W!Step, WP!Step, W!ReadForAdd, WP!ReadForAdd, W!ReadForDeduct, WP!ReadForDeduct,
     W!RefuseDeduct, WP!RefuseDeduct, W!WriteAdd, WP!WriteAdd, W!WriteDeduct, WP!WriteDeduct,
     W!LogTransaction, WP!LogTransaction, W!TakeSnapshot, WP!TakeSnapshot, W!Goto, WP!Goto,
     W!BalanceAfter, WP!BalanceAfter, W!HoldsRead, WP!HoldsRead, W!PastRead, WP!PastRead,
     W!historyVars, WP!historyVars
<1>3. ASSUME NEW t \in Slots, W!Fail(t) \/ W!Return(t) PROVE WP!Fail(t) \/ WP!Return(t)
  BY <1>3 DEF W!Fail, WP!Fail, W!Return, WP!Return, W!Goto, WP!Goto, W!IdleFrame, WP!IdleFrame,
     W!EmptyAccount, WP!EmptyAccount, W!historyVars, WP!historyVars
<1>4. ASSUME W!Crash PROVE WP!Crash
  BY <1>4 DEF W!Crash, WP!Crash, W!IdleFrame, WP!IdleFrame, W!EmptyAccount, WP!EmptyAccount
<1>5. ASSUME NEW t \in Slots, NEW u \in Users, NEW g \in Grams, NEW r \in Refs,
             W!AddGrams(t, u, g, r) \/ W!DeductGrams(t, u, g, r)
      PROVE  WP!AddGrams(t, u, g, r) \/ WP!DeductGrams(t, u, g, r)
  BY <1>5 DEF W!AddGrams, WP!AddGrams, W!DeductGrams, WP!DeductGrams, W!Start, WP!Start,
     W!EmptyAccount, WP!EmptyAccount, W!historyVars, WP!historyVars
<1>6. QED
  BY <1>1, <1>2, <1>3, <1>4, <1>5 DEF W!Next, WP!Next

LEMMA WalletStep == Known /\ [Next]_vars => W!Next \/ UNCHANGED walletVars
<1> SUFFICES ASSUME Known, [Next]_vars PROVE W!Next \/ UNCHANGED walletVars
  OBVIOUS
<1>1. ASSUME NEW t \in Slots,
             \/ InsertRequest(t) \/ Level(t) \/ Levelled(t) \/ WriteCompleted(t) \/ FailJob(t)
             \/ \E u \in Users, g \in Grams : CreateSellRequest(t, u, g)
      PROVE  UNCHANGED walletVars
  BY <1>1 DEF InsertRequest, Level, Levelled, WriteCompleted, FailJob, CreateSellRequest
<1>2. ASSUME NEW r \in Requests, ApproveSellRequest(r) \/ CancelSellRequest(r)
      PROVE  UNCHANGED walletVars
  BY <1>2 DEF ApproveSellRequest, CancelSellRequest
<1>3. ASSUME NEW t \in Slots, NEW u \in Users, NEW g \in Grams, Buy(t, u, g) PROVE W!Next
  BY <1>3 DEF Buy, W!Next
<1>4. ASSUME NEW t \in Slots, NEW r \in Requests, CompleteSellRequest(t, r) PROVE W!Next
  <2>1. /\ r \in Refs /\ request[r].user \in Users /\ request[r].grams \in Grams
        /\ W!DeductGrams(t, request[r].user, request[r].grams, r)
    BY <1>4, SellAssumption DEF CompleteSellRequest, BeginCompletion, Known
  <2>2. QED
    BY <2>1 DEF W!Next
<1>5. ASSUME NEW t \in Slots,
             Deduct(t) \/ Deducted(t) \/ Buying(t) \/ FailService(t) \/ Abandon(t)
      PROVE  W!Next \/ UNCHANGED walletVars
  <2>1. UNCHANGED walletVars \/ W!Step(t) \/ W!Fail(t) \/ W!Return(t)
    BY <1>5 DEF Deduct, Deducted, Buying, FailService, Abandon
  <2>2. QED
    BY <2>1 DEF W!Next
<1>6. ASSUME Crash PROVE W!Next
  BY <1>6 DEF Crash, W!Next
<1>7. ASSUME NEW u \in Users, OpenWallet(u) PROVE W!Next
  BY <1>7 DEF OpenWallet, W!Next
<1>8. ASSUME UNCHANGED vars PROVE UNCHANGED walletVars
  BY <1>8 DEF vars
<1>9. QED
  BY <1>1, <1>2, <1>3, <1>4, <1>5, <1>6, <1>7, <1>8 DEF Next, Run

LEMMA SameTypes == W!TypeOK <=> WP!TypeOK
BY DEF W!TypeOK, WP!TypeOK, W!LedgerRow, WP!LedgerRow, W!Account, WP!Account,
       W!Frame, WP!Frame, W!CallPc, WP!CallPc, W!Ops, WP!Ops

LEMMA WalletTyped ==
    ASSUME Known, W!TypeOK, [Next]_vars
    PROVE  W!TypeOK'
<1>1. WP!WalletAssumption
  BY SellAssumption DEF SellAssumption, WP!WalletAssumption
<1>2. WP!Next \/ UNCHANGED walletVars
  BY WalletStep, SameNext
<1>3. UNCHANGED walletVars => UNCHANGED WP!vars
  BY DEF walletVars, WP!vars, WP!walletVars, WP!historyVars
<1>4. [WP!Next]_(WP!vars)
  BY <1>2, <1>3
<1>5. WP!TypeOK
  BY SameTypes
<1>6. WP!TypeOK'
  BY <1>1, <1>4, <1>5, WP!TypeStep
<1>7. (W!TypeOK <=> WP!TypeOK)'
  BY SameTypes, PTL
<1>8. QED
  BY <1>6, <1>7
-----------------------------------------------------------------------------
(***************************************************************************)
(* What a step does to the frames of the calls and checks in flight.       *)
(***************************************************************************)
CheckShape ==
    [pc: M!CheckPc, user: Users \cup {Nil}, total: Int, next: Levels \cup DOMAIN Thresholds]

ChecksOK == check \in [Slots -> CheckShape]

LEMMA ChecksInit == Init => ChecksOK
BY SellAssumption DEF Init, M!ServiceInit, M!IdleCheck, M!CheckPc, ChecksOK, CheckShape

LEMMA CheckStarts ==
    ASSUME ChecksOK, NEW t \in Slots, NEW u \in Users, M!StartCheck(t, u)
    PROVE  ChecksOK' /\ check'[t].pc = "wallet" /\ \A s \in Slots \ {t} : check'[s] = check[s]
BY DEF ChecksOK, CheckShape, M!StartCheck, M!CheckPc

LEMMA CheckEnds ==
    ASSUME ChecksOK, NEW t \in Slots, M!ReturnCheck(t)
    PROVE  ChecksOK' /\ check'[t].pc = "idle" /\ \A s \in Slots \ {t} : check'[s] = check[s]
BY SellAssumption DEF ChecksOK, CheckShape, M!ReturnCheck, M!IdleCheck, M!CheckPc

LEMMA CheckFails ==
    ASSUME ChecksOK, NEW t \in Slots, M!FailCheck(t)
    PROVE  ChecksOK' /\ \A s \in Slots \ {t} : check'[s] = check[s]
BY DEF ChecksOK, CheckShape, M!FailCheck, M!Goto, M!CheckPc

LEMMA CheckSteps ==
    ASSUME ChecksOK, W!TypeOK, NEW t \in Slots, M!StepCheck(t), check[t].user \in Users
    PROVE  ChecksOK' /\ check'[t].pc # "failed" /\ check'[t].user \in Users
           /\ \A s \in Slots \ {t} : check'[s] = check[s]
<1>1. CASE M!ReadTotal(t)
  <2>1. wallet[check[t].user].purchased \in Int
    BY DEF W!TypeOK, W!Account
  <2>2. QED
    BY <1>1, <2>1 DEF ChecksOK, CheckShape, M!ReadTotal, M!Goto, M!CheckPc
<1>2. CASE M!ReadConfigs(t)
  <2>1. PICK l \in M!LevelsFor(Thresholds, check[t].total) :
           check' = [check EXCEPT ![t].pc = "user", ![t].next = l]
    BY <1>2 DEF M!ReadConfigs
  <2>2. l \in Levels \cup DOMAIN Thresholds
    BY SellAssumption DEF M!LevelsFor, M!Reached
  <2>3. QED
    BY <2>1, <2>2 DEF ChecksOK, CheckShape, M!CheckPc
<1>3. CASE M!ReadUser(t)
  BY <1>3 DEF ChecksOK, CheckShape, M!ReadUser, M!Goto, M!CheckPc
<1>4. CASE M!UpdateLevel(t)
  BY <1>4 DEF ChecksOK, CheckShape, M!UpdateLevel, M!Goto, M!CheckPc
<1>5. QED
  BY <1>1, <1>2, <1>3, <1>4 DEF M!StepCheck

(* A running deduction reads or is refused, writes, or logs.               *)
LEMMA DeductFrame ==
    ASSUME W!TypeOK, NEW t \in Slots, call[t].op = "SELL_DEDUCT", W!Step(t)
    PROVE  /\ \A s \in Slots \ {t} : call'[s] = call[s]
           /\ call'[t].op = "SELL_DEDUCT"
           /\ \/ W!WriteDeduct(t) /\ call[t].pc = "write" /\ call'[t].pc = "log"
              \/ ~W!WriteDeduct(t) /\ call[t].pc = "log" /\ call'[t].pc = "done"
              \/ ~W!WriteDeduct(t) /\ call[t].pc = "read" /\ call'[t].pc \in {"write", "failed"}
<1> USE DEF W!TypeOK, W!Frame
<1>1. CASE W!ReadForDeduct(t)
  BY <1>1 DEF W!ReadForDeduct, W!TakeSnapshot, W!WriteDeduct
<1>2. CASE W!RefuseDeduct(t)
  BY <1>2 DEF W!RefuseDeduct, W!Goto, W!WriteDeduct
<1>3. CASE W!WriteDeduct(t)
  BY <1>3 DEF W!WriteDeduct, W!Goto
<1>4. CASE W!LogTransaction(t)
  BY <1>4 DEF W!LogTransaction, W!Goto, W!WriteDeduct
<1>5. ~W!ReadForAdd(t) /\ ~W!WriteAdd(t)
  BY DEF W!ReadForAdd, W!WriteAdd
<1>6. QED
  BY <1>1, <1>2, <1>3, <1>4, <1>5 DEF W!Step

LEMMA OtherFrames ==
    ASSUME W!TypeOK, NEW t \in Slots,
           W!Step(t) \/ W!Fail(t) \/ W!Return(t)
              \/ \E op \in W!Ops, u \in Users, g \in Int, r \in Refs : W!Start(t, op, u, g, r)
    PROVE  \A s \in Slots \ {t} : call'[s] = call[s]
<1> USE DEF W!TypeOK
<1>1. W!Step(t) => \A s \in Slots \ {t} : call'[s] = call[s]
  BY DEF W!Step, W!ReadForAdd, W!ReadForDeduct, W!RefuseDeduct, W!WriteAdd, W!WriteDeduct,
         W!LogTransaction, W!TakeSnapshot, W!Goto
<1>2. W!Fail(t) \/ W!Return(t) => \A s \in Slots \ {t} : call'[s] = call[s]
  BY DEF W!Fail, W!Return, W!Goto
<1>3. (\E op \in W!Ops, u \in Users, g \in Int, r \in Refs : W!Start(t, op, u, g, r))
         => \A s \in Slots \ {t} : call'[s] = call[s]
  BY DEF W!Start
<1>4. QED
  BY <1>1, <1>2, <1>3
-----------------------------------------------------------------------------
(***************************************************************************)
(* The order of a completion.  A handler past its approval check works on  *)
(* a request that was approved, and past the write of deductGrams on one   *)
(* that was deducted; of two deductions for one approval, the second       *)
(* overlapped the first or the first broke off.                            *)
(***************************************************************************)
Turn(t) ==
    /\ job[t].pc \in CompPc => request[job[t].r].approvedAt
    /\ job[t].pc = "deducting" =>
          /\ call[t].op = "SELL_DEDUCT"
          /\ call[t].pc \in {"log", "done"} => deductedFor[job[t].r] > 0
    /\ job[t].pc \in {"levelling", "completing"} => deductedFor[job[t].r] > 0
    /\ job[t].pc = "levelling" =>
          /\ check[t].user \in Users
          /\ check[t].pc = "failed" => job[t].r \in broken

RowInOrder(r) ==
    /\ request[r].status = "NONE" => ~request[r].approvedAt
    /\ request[r].status = "APPROVED" => request[r].approvedAt
    /\ request[r].status = "COMPLETED" => deductedFor[r] > 0
    /\ deductedFor[r] > 0 => request[r].approvedAt

Paying(t, r) == job[t].r = r /\ job[t].pc \in CompPc

Once(r) ==
    /\ \A s, t \in Slots : Paying(s, r) /\ Paying(t, r) => s = t
    /\ deductedFor[r] <= approvals[r]
    /\ \A t \in Slots :
          Paying(t, r) /\ job[t].pc = "deducting" /\ call[t].pc \notin {"log", "done"}
             => deductedFor[r] < approvals[r]
    /\ request[r].status = "APPROVED" /\ (\A t \in Slots : ~Paying(t, r))
          => deductedFor[r] < approvals[r]

Counts ==
    /\ deductedFor \in [Requests -> Nat]
    /\ approvals \in [Requests -> Nat]

Order ==
    /\ Counts
    /\ \A t \in Slots : Turn(t)
    /\ \A r \in Requests : RowInOrder(r)
    /\ \A r \in Requests : r \notin overlapped \cup broken => Once(r)

LEMMA OrderInit == Init => Order
BY DEF Init, Order, Counts, Turn, RowInOrder, Once, Paying, IdleJob, NoRequest, CompPc

(* Steps that leave requests and counts alone: every handler goes on as it *)
(* did, or it is in no completion afterwards and the one it was in broke   *)
(* off.                                                                    *)
GoesOn(t) ==
    /\ job'[t] = job[t]
    /\ job[t].pc = "deducting" =>
          \/ call'[t] = call[t]
          \/ call'[t].op = call[t].op /\ call'[t].pc = "failed" /\ job[t].r \in broken'
    /\ job[t].pc = "levelling" =>
          /\ check'[t].user \in Users
          /\ check'[t].pc = "failed" => check[t].pc = "failed" \/ job[t].r \in broken'

Leaves(t) ==
    /\ job'[t].pc \notin CompPc
    /\ job[t].pc \in CompPc => job[t].r \in broken'

LEMMA Undisturbed ==
    ASSUME Known, Order,
           UNCHANGED <<request, deductedFor, approvals, overlapped>>, broken \subseteq broken',
           \A t \in Slots : GoesOn(t) \/ Leaves(t)
    PROVE  Order'
<1>1. Counts'
  BY DEF Order, Counts
<1>2. \A t \in Slots : Turn(t)'
  BY DEF Order, Turn, GoesOn, Leaves, CompPc
<1>3. \A r \in Requests : RowInOrder(r)'
  BY DEF Order, RowInOrder
<1>4. ASSUME NEW r \in Requests, r \notin overlapped' \cup broken' PROVE Once(r)'
  <2>1. Once(r)
    BY <1>4 DEF Order
  <2>2. \A t \in Slots : Paying(t, r)' <=> Paying(t, r)
    BY <1>4 DEF Paying, GoesOn, Leaves
  <2>3. ASSUME NEW t \in Slots, Paying(t, r), job'[t].pc = "deducting"
        PROVE  job[t].pc = "deducting" /\ call'[t] = call[t]
    BY <1>4, <2>3 DEF Paying, GoesOn, Leaves, CompPc
  <2>4. QED
    BY <2>1, <2>2, <2>3 DEF Once
<1>5. QED
  BY <1>1, <1>2, <1>3, <1>4 DEF Order

(* Steps that leave the handlers in a completion alone.                    *)
LEMMA QuietSteps ==
    ASSUME Known, W!TypeOK, ChecksOK, Order, NEW t \in Slots,
           \/ Buying(t) \/ Level(t) \/ FailJob(t) \/ FailService(t)
           \/ \E u \in Users, g \in Grams : CreateSellRequest(t, u, g) \/ Buy(t, u, g)
    PROVE  ChecksOK' /\ Order'
<1>0. \A s \in Slots : job[s].pc = "levelling" => check[s].user \in Users
  BY DEF Order, Turn
<1>1. ASSUME NEW u \in Users, NEW g \in Grams, CreateSellRequest(t, u, g) PROVE ChecksOK' /\ Order'
  <2>1. job[t].pc = "idle" /\ job'[t].pc = "creating" /\ \A s \in Slots \ {t} : job'[s] = job[s]
    BY <1>1 DEF CreateSellRequest, Known
  <2>2. \A s \in Slots : GoesOn(s) \/ Leaves(s)
    BY <1>0, <1>1, <2>1 DEF CreateSellRequest, walletVars, memberVars, GoesOn, Leaves, CompPc
  <2>3. QED
    BY <1>1, <2>2, Undisturbed DEF CreateSellRequest, memberVars, historyVars, ChecksOK
<1>2. ASSUME NEW u \in Users, NEW g \in Grams, Buy(t, u, g) PROVE ChecksOK' /\ Order'
  <2>1. job[t].pc = "idle" /\ job'[t].pc = "buying" /\ \A s \in Slots \ {t} : job'[s] = job[s]
    BY <1>2 DEF Buy, Known, IdleJob
  <2>2. \A s \in Slots \ {t} : call'[s] = call[s]
    BY <1>2, OtherFrames, SellAssumption DEF Buy, W!AddGrams, W!Ops
  <2>3. \A s \in Slots : GoesOn(s) \/ Leaves(s)
    BY <1>0, <1>2, <2>1, <2>2 DEF Buy, memberVars, GoesOn, Leaves, CompPc
  <2>4. QED
    BY <1>2, <2>3, Undisturbed DEF Buy, memberVars, historyVars, ChecksOK
<1>3. CASE Buying(t)
  <2>1. job[t].pc = "buying" /\ job'[t].pc \in {"buying", "idle"}
        /\ \A s \in Slots \ {t} : job'[s] = job[s]
    BY <1>3 DEF Buying, Known, EndJob, IdleJob
  <2>2. \A s \in Slots \ {t} : call'[s] = call[s]
    BY <1>3, OtherFrames DEF Buying
  <2>3. \A s \in Slots : GoesOn(s) \/ Leaves(s)
    BY <1>0, <1>3, <2>1, <2>2 DEF Buying, memberVars, GoesOn, Leaves, CompPc
  <2>4. QED
    BY <1>3, <2>3, Undisturbed DEF Buying, memberVars, historyVars, ChecksOK
<1>4. CASE Level(t)
  <2>1. check[t].user \in Users /\ M!StepCheck(t)
    BY <1>0, <1>4 DEF Level
  <2>2. /\ ChecksOK' /\ check'[t].pc # "failed" /\ check'[t].user \in Users
        /\ \A s \in Slots \ {t} : check'[s] = check[s]
    BY <2>1, CheckSteps
  <2>3. \A s \in Slots : GoesOn(s) \/ Leaves(s)
    BY <1>0, <1>4, <2>2 DEF Level, walletVars, GoesOn
  <2>4. QED
    BY <1>4, <2>2, <2>3, Undisturbed DEF Level, historyVars
<1>5. CASE FailJob(t)
  <2>1. job'[t].pc = "idle" /\ \A s \in Slots \ {t} : job'[s] = job[s]
    BY <1>5 DEF FailJob, Known, EndJob, IdleJob
  <2>2. broken \subseteq broken' /\ (job[t].pc \in CompPc => job[t].r \in broken')
    BY <1>5 DEF FailJob, Break, Completing, Known, CompPc
  <2>3. \A s \in Slots : GoesOn(s) \/ Leaves(s)
    BY <1>0, <1>5, <2>1, <2>2 DEF FailJob, walletVars, memberVars, GoesOn, Leaves, CompPc
  <2>4. QED
    BY <1>5, <2>2, <2>3, Undisturbed DEF FailJob, memberVars, ChecksOK
<1>6. CASE FailService(t)
  <2>1. broken \subseteq broken' /\ (job[t].pc \in CompPc => job[t].r \in broken')
    BY <1>6 DEF FailService, Break, Completing, Known, CompPc
  <2>2. CASE W!Fail(t) /\ UNCHANGED memberVars /\ job[t].pc \in {"deducting", "buying"}
    <3>1. \A s \in Slots \ {t} : call'[s] = call[s]
      BY <2>2, OtherFrames
    <3>2. call'[t].op = call[t].op /\ call'[t].pc = "failed"
      BY <2>2 DEF W!Fail, W!Goto, W!TypeOK, W!Frame
    <3>3. \A s \in Slots : GoesOn(s)
      BY <1>0, <1>6, <2>1, <2>2, <3>1, <3>2 DEF FailService, memberVars, GoesOn, CompPc
    <3>4. QED
      BY <1>6, <2>1, <2>2, <3>3, Undisturbed DEF FailService, memberVars, ChecksOK
  <2>3. CASE M!FailCheck(t) /\ UNCHANGED walletVars /\ job[t].pc = "levelling"
    <3>1. ChecksOK' /\ \A s \in Slots \ {t} : check'[s] = check[s]
      BY <2>3, CheckFails
    <3>2. check'[t].user = check[t].user
      BY <2>3 DEF M!FailCheck, M!Goto, ChecksOK, CheckShape
    <3>3. \A s \in Slots : GoesOn(s)
      BY <1>0, <1>6, <2>1, <2>3, <3>1, <3>2 DEF FailService, walletVars, GoesOn, CompPc
    <3>4. QED
      BY <1>6, <2>1, <3>1, <3>3, Undisturbed DEF FailService
  <2>4. QED
    BY <1>6, <2>2, <2>3 DEF FailService
<1>7. QED
  BY <1>1, <1>2, <1>3, <1>4, <1>5, <1>6

LEMMA CrashStep ==
    ASSUME Known, Order, ChecksOK, Crash
    PROVE  ChecksOK' /\ Order'
<1>1. ChecksOK'
  BY SellAssumption DEF Crash, M!ForgetChecks, M!IdleCheck, M!CheckPc, ChecksOK, CheckShape
<1>2. \A t \in Slots : job[t].pc \in CompPc => job[t].r \in broken'
  BY DEF Crash, Break, Completing, Known, CompPc
<1>3. \A t \in Slots : Leaves(t)
  BY <1>2 DEF Crash, Leaves, IdleJob, CompPc
<1>4. QED
  BY <1>1, <1>3, Undisturbed DEF Crash, Break

(* Steps that change the status or the approval of a request.              *)
LEMMA RowSteps ==
    ASSUME Known, Order,
           \/ \E t \in Slots : InsertRequest(t) \/ WriteCompleted(t)
           \/ \E r \in Requests : ApproveSellRequest(r) \/ CancelSellRequest(r)
    PROVE  Order'
<1>1. ASSUME NEW t \in Slots, InsertRequest(t) PROVE Order'
  <2> DEFINE row == [NoRequest EXCEPT !.status = "PENDING", !.user = job[t].user,
                                      !.grams = job[t].grams]
  <2>1. PICK r \in Requests :
           request[r].status = "NONE" /\ request' = [request EXCEPT ![r] = row]
    BY <1>1 DEF InsertRequest
  <2>2. row.status = "PENDING" /\ row.approvedAt = FALSE
    BY DEF NoRequest
  <2> HIDE DEF row
  <2>3. /\ request'[r].status = "PENDING" /\ ~request'[r].approvedAt
        /\ \A q \in Requests \ {r} : request'[q] = request[q]
    BY <2>1, <2>2 DEF Known
  <2>4. job[t].pc = "creating" /\ job'[t].pc = "idle" /\ \A s \in Slots \ {t} : job'[s] = job[s]
    BY <1>1 DEF InsertRequest, EndJob, IdleJob, Known
  <2>5. \A q \in Requests, s \in Slots : Paying(s, q)' <=> Paying(s, q)
    BY <2>4 DEF Paying, CompPc
  <2>6. \A s \in Slots : job[s].pc \in CompPc => job[s].r \in Requests \ {r}
    BY <2>1 DEF Known
  <2>7. UNCHANGED <<call, check, deductedFor, approvals, overlapped, broken>>
    BY <1>1 DEF InsertRequest, walletVars, memberVars, historyVars
  <2>8. \A s \in Slots : Turn(s)'
    BY <2>3, <2>4, <2>6, <2>7 DEF Order, Turn, CompPc
  <2>9. \A q \in Requests : RowInOrder(q)'
    BY <2>1, <2>3, <2>7 DEF Order, RowInOrder
  <2>10. ASSUME NEW q \in Requests, q \notin overlapped \cup broken PROVE Once(q)'
    <3>1. Once(q)
      BY <2>10 DEF Order
    <3>2. \A s \in Slots : Paying(s, q)' => job'[s] = job[s]
      BY <2>4 DEF Paying, CompPc
    <3>3. request'[q].status = "APPROVED" => request[q].status = "APPROVED"
      BY <2>3
    <3>4. QED
      BY <2>5, <2>7, <3>1, <3>2, <3>3 DEF Once
  <2>11. QED
    BY <2>7, <2>8, <2>9, <2>10 DEF Order, Counts
<1>2. ASSUME NEW t \in Slots, WriteCompleted(t) PROVE Order'
  <2>1. PICK r \in Requests : r = job[t].r /\ request[r].status # "NONE"
    BY <1>2 DEF WriteCompleted, Known, CompPc
  <2>2. /\ \A q \in Requests \ {r} : request'[q] = request[q]
        /\ request'[r].status = "COMPLETED" /\ request'[r].approvedAt = request[r].approvedAt
    BY <1>2, <2>1 DEF WriteCompleted, Known, RequestRow
  <2>3. job'[t].pc = "idle" /\ \A s \in Slots \ {t} : job'[s] = job[s]
    BY <1>2 DEF WriteCompleted, EndJob, IdleJob, Known
  <2>4. \A s \in Slots : Turn(s)'
    BY <1>2, <2>1, <2>2, <2>3
       DEF Known, Order, Turn, WriteCompleted, walletVars, memberVars, historyVars, CompPc
  <2>5. deductedFor[r] > 0
    BY <1>2, <2>1 DEF Order, Turn, WriteCompleted
  <2>6. \A q \in Requests : RowInOrder(q)'
    BY <1>2, <2>2, <2>5 DEF Order, RowInOrder, WriteCompleted, historyVars
  <2>7. ASSUME NEW q \in Requests, q \notin overlapped \cup broken PROVE Once(q)'
    <3>1. Once(q)
      BY <2>7 DEF Order
    <3>2. \A s \in Slots : Paying(s, q)' => Paying(s, q) /\ s # t /\ job'[s] = job[s]
      BY <2>3 DEF Paying, CompPc
    <3>3. q # r => ~Paying(t, q)
      BY <2>1 DEF Paying
    <3>4. q # r => \A s \in Slots : Paying(s, q) => Paying(s, q)'
      BY <2>3, <3>3 DEF Paying
    <3>5. QED
      BY <1>2, <2>2, <3>1, <3>2, <3>4 DEF Once, WriteCompleted, walletVars, historyVars
  <2>8. QED
    BY <1>2, <2>4, <2>6, <2>7 DEF Order, Counts, WriteCompleted, historyVars
<1>3. ASSUME NEW r \in Requests, ApproveSellRequest(r) PROVE Order'
  <2>1. /\ \A q \in Requests \ {r} : request'[q] = request[q]
        /\ request'[r].status = "APPROVED" /\ request'[r].approvedAt
        /\ approvals' \in [Requests -> Nat]
        /\ approvals'[r] = approvals[r] + 1
        /\ \A q \in Requests \ {r} : approvals'[q] = approvals[q]
    BY <1>3 DEF ApproveSellRequest, Known, RequestRow, Order, Counts
  <2>2. \A s \in Slots : Turn(s)'
    BY <1>3, <2>1 DEF Known, Order, Turn, ApproveSellRequest, walletVars, memberVars, CompPc
  <2>3. \A q \in Requests : RowInOrder(q)'
    BY <1>3, <2>1 DEF Order, RowInOrder, ApproveSellRequest
  <2>4. ASSUME NEW q \in Requests, q \notin overlapped \cup broken PROVE Once(q)'
    <3>1. Once(q) /\ deductedFor[q] \in Nat /\ approvals[q] \in Nat
      BY <2>4 DEF Order, Counts
    <3>2. \A s \in Slots : Paying(s, q)' <=> Paying(s, q)
      BY <1>3 DEF ApproveSellRequest, Paying
    <3>3. CASE q = r
      BY <1>3, <2>1, <3>1, <3>2, <3>3 DEF Once, ApproveSellRequest, walletVars
    <3>4. CASE q # r
      BY <1>3, <2>1, <3>1, <3>2, <3>4 DEF Once, ApproveSellRequest, walletVars
    <3>5. QED
      BY <3>3, <3>4
  <2>5. QED
    BY <1>3, <2>1, <2>2, <2>3, <2>4 DEF Order, Counts, ApproveSellRequest
<1>4. ASSUME NEW r \in Requests, CancelSellRequest(r) PROVE Order'
  <2>1. /\ \A q \in Requests \ {r} : request'[q] = request[q]
        /\ request'[r].status = "CANCELLED" /\ request'[r].approvedAt = request[r].approvedAt
    BY <1>4 DEF CancelSellRequest, Known, RequestRow
  <2>2. \A s \in Slots : Turn(s)'
    BY <1>4, <2>1 DEF Known, Order, Turn, CancelSellRequest, walletVars, memberVars, CompPc
  <2>3. \A q \in Requests : RowInOrder(q)'
    BY <1>4, <2>1 DEF Order, RowInOrder, CancelSellRequest
  <2>4. \A q \in Requests : q \notin overlapped \cup broken => Once(q)'
    BY <1>4, <2>1 DEF Order, Once, CancelSellRequest, walletVars, Paying
  <2>5. QED
    BY <1>4, <2>2, <2>3, <2>4 DEF Order, Counts, CancelSellRequest
<1>5. QED
  BY <1>1, <1>2, <1>3, <1>4

LEMMA CompleteStep ==
    ASSUME Known, W!TypeOK, Order, NEW t \in Slots, NEW r \in Requests, CompleteSellRequest(t, r)
    PROVE  Order'
<1>1. /\ request[r].status = "APPROVED" /\ job[t].pc = "idle"
      /\ W!Start(t, "SELL_DEDUCT", request[r].user, request[r].grams, r)
      /\ UNCHANGED <<request, memberVars, deductedFor, approvals, broken>>
  BY DEF CompleteSellRequest, BeginCompletion, W!DeductGrams
<1>2. /\ job'[t].pc = "deducting" /\ job'[t].r = r
      /\ \A s \in Slots \ {t} : job'[s] = job[s]
  BY DEF CompleteSellRequest, BeginCompletion, Known
<1>3. /\ call'[t].op = "SELL_DEDUCT" /\ call'[t].pc = "read"
      /\ \A s \in Slots \ {t} : call'[s] = call[s]
  BY <1>1 DEF W!Start, W!TypeOK
<1>4. request[r].approvedAt
  BY <1>1 DEF Order, RowInOrder
<1>5. \A s \in Slots : Turn(s)'
  BY <1>1, <1>2, <1>3, <1>4 DEF Order, Turn, memberVars, CompPc
<1>6. \A q \in Requests : RowInOrder(q)'
  BY <1>1 DEF Order, RowInOrder
<1>7. ASSUME NEW q \in Requests, q \notin overlapped' \cup broken' PROVE Once(q)'
  <2>1. overlapped' = IF Completing(r) # {} THEN overlapped \cup {r} ELSE overlapped
    BY DEF CompleteSellRequest, BeginCompletion
  <2>2. q \notin overlapped \cup broken
    BY <1>1, <1>7, <2>1
  <2>3. Once(q)
    BY <2>2 DEF Order
  <2>4. CASE q = r
    <3>1. \A s \in Slots : ~Paying(s, r)
      BY <1>7, <2>1, <2>4 DEF Completing, Paying, CompPc
    <3>2. \A s \in Slots : Paying(s, r)' => s = t
      BY <1>2, <3>1 DEF Paying
    <3>3. Paying(t, r)'
      BY <1>2 DEF Paying, CompPc
    <3>4. QED
      BY <1>1, <2>3, <2>4, <3>1, <3>2, <3>3 DEF Once
  <2>5. CASE q # r
    <3>1. \A s \in Slots : Paying(s, q)' <=> Paying(s, q)
      BY <1>1, <1>2, <2>5 DEF Paying, CompPc
    <3>2. \A s \in Slots : Paying(s, q) => s # t
      BY <1>1 DEF Paying, CompPc
    <3>3. QED
      BY <1>1, <1>2, <1>3, <2>3, <3>1, <3>2 DEF Once
  <2>6. QED
    BY <2>4, <2>5
<1>8. QED
  BY <1>1, <1>5, <1>6, <1>7 DEF Order, Counts

(* The write of deductGrams counts; what comes before and after does not.  *)
LEMMA DeductStep ==
    ASSUME Known, W!TypeOK, Order, NEW t \in Slots, Deduct(t)
    PROVE  Order'
<1>1. /\ job[t].pc = "deducting" /\ W!Step(t)
      /\ UNCHANGED <<request, job, memberVars, approvals, overlapped, broken>>
  BY DEF Deduct
<1>2. PICK r \in Requests : r = job[t].r /\ request[r].approvedAt
  BY <1>1 DEF Known, Order, Turn, CompPc
<1>3. call[t].op = "SELL_DEDUCT" /\ (call[t].pc \in {"log", "done"} => deductedFor[r] > 0)
  BY <1>1, <1>2 DEF Order, Turn
<1>4. /\ \A s \in Slots \ {t} : call'[s] = call[s]
      /\ call'[t].op = "SELL_DEDUCT"
      /\ \/ W!WriteDeduct(t) /\ call[t].pc = "write" /\ call'[t].pc = "log"
         \/ ~W!WriteDeduct(t) /\ call[t].pc = "log" /\ call'[t].pc = "done"
         \/ ~W!WriteDeduct(t) /\ call[t].pc = "read" /\ call'[t].pc \in {"write", "failed"}
  BY <1>1, <1>3, DeductFrame
<1>5. \A s \in Slots, q \in Requests : Paying(s, q)' <=> Paying(s, q)
  BY <1>1 DEF Paying
<1>6. Paying(t, r)
  BY <1>1, <1>2 DEF Paying, CompPc
<1>7. CASE W!WriteDeduct(t)
  <2>1. deductedFor' = [deductedFor EXCEPT ![r] = @ + 1]
    BY <1>2, <1>7 DEF Deduct
  <2>2. /\ deductedFor' \in [Requests -> Nat] /\ deductedFor'[r] = deductedFor[r] + 1
        /\ \A q \in Requests \ {r} : deductedFor'[q] = deductedFor[q]
    BY <2>1 DEF Order, Counts
  <2>3. \A q \in Requests : deductedFor'[q] >= deductedFor[q] /\ deductedFor[q] \in Nat
    BY <2>2 DEF Order, Counts
  <2>4. \A s \in Slots : Turn(s)'
    <3>1. Turn(t)'
      BY <1>1, <1>2, <1>4, <2>2, <2>3 DEF Turn
    <3>2. ASSUME NEW s \in Slots \ {t} PROVE Turn(s)'
      <4>1. Turn(s) /\ (job[s].pc \in CompPc => job[s].r \in Requests)
        BY DEF Order, Known
      <4>2. QED
        BY <1>1, <1>4, <2>2, <2>3, <4>1 DEF Turn, memberVars, CompPc
    <3>3. QED
      BY <3>1, <3>2
  <2>5. \A q \in Requests : RowInOrder(q)'
    BY <1>1, <1>2, <2>2, <2>3 DEF Order, RowInOrder
  <2>6. ASSUME NEW q \in Requests, q \notin overlapped \cup broken PROVE Once(q)'
    <3>1. Once(q) /\ approvals[q] \in Nat
      BY <2>6 DEF Order, Counts
    <3>2. CASE q = r
      <4>1. deductedFor[r] < approvals[r]
        BY <1>1, <1>4, <1>6, <1>7, <3>1, <3>2 DEF Once, W!WriteDeduct
      <4>2. deductedFor'[r] <= approvals'[r]
        BY <1>1, <2>2, <2>3, <3>1, <3>2, <4>1
      <4>3. \A s \in Slots : Paying(s, r) => s = t
        BY <1>6, <3>1, <3>2 DEF Once
      <4>4. call'[t].pc = "log"
        BY <1>4, <1>7
      <4>5. QED
        BY <1>1, <1>5, <1>6, <3>1, <3>2, <4>2, <4>3, <4>4 DEF Once
    <3>3. CASE q # r
      <4>1. ~Paying(t, q)
        BY <1>2, <3>3 DEF Paying
      <4>2. QED
        BY <1>1, <1>4, <1>5, <2>2, <3>1, <3>3, <4>1 DEF Once
    <3>4. QED
      BY <3>2, <3>3
  <2>7. QED
    BY <1>1, <2>2, <2>4, <2>5, <2>6 DEF Order, Counts
<1>8. CASE ~W!WriteDeduct(t)
  <2>1. deductedFor' = deductedFor
    BY <1>8 DEF Deduct
  <2>2. \A s \in Slots : Turn(s)'
    BY <1>1, <1>2, <1>3, <1>4, <1>8, <2>1 DEF Order, Turn, memberVars, CompPc
  <2>3. \A q \in Requests : RowInOrder(q)'
    BY <1>1, <2>1 DEF Order, RowInOrder
  <2>4. ASSUME NEW q \in Requests, q \notin overlapped \cup broken PROVE Once(q)'
    <3>1. Once(q)
      BY <2>4 DEF Order
    <3>2. ASSUME NEW s \in Slots, call'[s].pc \notin {"log", "done"}
          PROVE  call[s].pc \notin {"log", "done"}
      BY <1>4, <1>8, <3>2
    <3>3. QED
      BY <1>1, <1>5, <2>1, <3>1, <3>2 DEF Once
  <2>5. QED
    BY <1>1, <2>1, <2>2, <2>3, <2>4 DEF Order, Counts
<1>9. QED
  BY <1>7, <1>8

(* Deducted, levelled, or refused.                                         *)
LEMMA ReturnSteps ==
    ASSUME Known, W!TypeOK, ChecksOK, Order, NEW t \in Slots,
           Deducted(t) \/ Levelled(t) \/ Abandon(t)
    PROVE  ChecksOK' /\ Order'
<1>1. CASE Deducted(t)
  <2>1. /\ job[t].pc = "deducting" /\ call[t].pc = "done"
        /\ W!Return(t) /\ M!StartCheck(t, job[t].user)
        /\ UNCHANGED <<request, deductedFor, approvals, overlapped, broken>>
    BY <1>1 DEF Deducted, historyVars
  <2>2. job[t].user \in Users /\ job[t].r \in Requests /\ deductedFor[job[t].r] > 0
    BY <2>1 DEF Known, Order, Turn, CompPc
  <2>3. /\ job'[t].pc = "levelling" /\ job'[t].r = job[t].r
        /\ \A s \in Slots \ {t} : job'[s] = job[s]
    BY <1>1 DEF Deducted, Goto, Known, Job
  <2>4. \A s \in Slots \ {t} : call'[s] = call[s]
    BY <2>1, OtherFrames
  <2>5. /\ ChecksOK' /\ check'[t].pc = "wallet" /\ check'[t].user \in Users
        /\ \A s \in Slots \ {t} : check'[s] = check[s]
    BY <2>1, <2>2, CheckStarts DEF M!StartCheck, ChecksOK, CheckShape
  <2>6. \A s \in Slots : Turn(s)'
    BY <2>1, <2>2, <2>3, <2>4, <2>5 DEF Order, Turn, CompPc
  <2>7. \A q \in Requests : RowInOrder(q)'
    BY <2>1 DEF Order, RowInOrder
  <2>8. \A q \in Requests, s \in Slots : Paying(s, q)' <=> Paying(s, q)
    BY <2>1, <2>3 DEF Paying, CompPc
  <2>9. \A s \in Slots : job'[s].pc = "deducting" =>
           job[s].pc = "deducting" /\ call'[s] = call[s]
    BY <2>3, <2>4
  <2>10. \A q \in Requests : q \notin overlapped \cup broken => Once(q)'
    BY <2>1, <2>8, <2>9 DEF Order, Once
  <2>11. QED
    BY <2>1, <2>5, <2>6, <2>7, <2>10 DEF Order, Counts
<1>2. CASE Levelled(t)
  <2>1. /\ job[t].pc = "levelling" /\ M!ReturnCheck(t)
        /\ UNCHANGED <<request, call, deductedFor, approvals, overlapped, broken>>
    BY <1>2 DEF Levelled, walletVars, historyVars
  <2>2. deductedFor[job[t].r] > 0 /\ request[job[t].r].approvedAt
    BY <2>1 DEF Order, Turn, CompPc
  <2>3. /\ job'[t].pc = "completing" /\ job'[t].r = job[t].r
        /\ \A s \in Slots \ {t} : job'[s] = job[s]
    BY <1>2 DEF Levelled, Goto, Known, Job
  <2>4. ChecksOK' /\ \A s \in Slots \ {t} : check'[s] = check[s]
    BY <2>1, CheckEnds
  <2>5. \A s \in Slots : Turn(s)'
    BY <2>1, <2>2, <2>3, <2>4 DEF Order, Turn, CompPc
  <2>6. \A q \in Requests : RowInOrder(q)'
    BY <2>1 DEF Order, RowInOrder
  <2>7. \A q \in Requests, s \in Slots : Paying(s, q)' <=> Paying(s, q)
    BY <2>1, <2>3 DEF Paying, CompPc
  <2>8. \A s \in Slots : job'[s].pc = "deducting" => job[s].pc = "deducting"
    BY <2>3
  <2>9. \A q \in Requests : q \notin overlapped \cup broken => Once(q)'
    BY <2>1, <2>7, <2>8 DEF Order, Once
  <2>10. QED
    BY <2>1, <2>4, <2>5, <2>6, <2>9 DEF Order, Counts
<1>3. CASE Abandon(t)
  <2>1. /\ job'[t].pc = "idle" /\ \A s \in Slots \ {t} : job'[s] = job[s]
        /\ UNCHANGED <<request, deductedFor, approvals, overlapped, broken>>
    BY <1>3 DEF Abandon, EndJob, IdleJob, Known, historyVars
  <2>2. CASE job[t].pc = "levelling"
    <3>1. check[t].pc = "failed" /\ M!ReturnCheck(t) /\ UNCHANGED walletVars
      BY <1>3, <2>2 DEF Abandon
    <3>2. job[t].r \in broken
      BY <2>2, <3>1 DEF Order, Turn
    <3>3. ChecksOK' /\ \A s \in Slots \ {t} : check'[s] = check[s]
      BY <3>1, CheckEnds
    <3>4. \A s \in Slots : GoesOn(s) \/ Leaves(s)
      BY <2>1, <3>1, <3>2, <3>3 DEF Order, Turn, walletVars, GoesOn, Leaves, CompPc
    <3>5. QED
      BY <2>1, <3>3, <3>4, Undisturbed
  <2>3. CASE job[t].pc = "deducting"
    <3>1. call[t].pc = "failed" /\ W!Return(t) /\ UNCHANGED memberVars
      BY <1>3, <2>3 DEF Abandon
    <3>2. \A s \in Slots \ {t} : call'[s] = call[s]
      BY <3>1, OtherFrames
    <3>3. PICK r \in Requests : r = job[t].r
      BY <2>3 DEF Known, CompPc
    <3>4. \A s \in Slots : Turn(s)'
      BY <2>1, <3>1, <3>2 DEF Order, Turn, memberVars, CompPc
    <3>5. \A q \in Requests : RowInOrder(q)'
      BY <2>1 DEF Order, RowInOrder
    <3>6. ASSUME NEW q \in Requests, q \notin overlapped \cup broken PROVE Once(q)'
      <4>1. Once(q)
        BY <3>6 DEF Order
      <4>2. \A s \in Slots : Paying(s, q)' =>
               Paying(s, q) /\ job'[s] = job[s] /\ call'[s] = call[s]
        BY <2>1, <3>2 DEF Paying, CompPc
      <4>3. CASE q = r
        <5>1. deductedFor[r] < approvals[r]
          BY <2>3, <3>1, <3>3, <4>1, <4>3 DEF Once, Paying, CompPc
        <5>2. QED
          BY <2>1, <4>1, <4>2, <4>3, <5>1 DEF Once
      <4>4. CASE q # r
        <5>1. \A s \in Slots : Paying(s, q) => Paying(s, q)'
          BY <2>1, <3>3, <4>4 DEF Paying
        <5>2. QED
          BY <2>1, <4>1, <4>2, <5>1 DEF Once
      <4>5. QED
        BY <4>3, <4>4
    <3>7. QED
      BY <2>1, <3>1, <3>4, <3>5, <3>6 DEF Order, Counts, memberVars, ChecksOK
  <2>4. QED
    BY <1>3, <2>2, <2>3 DEF Abandon
<1>4. QED
  BY <1>1, <1>2, <1>3

LEMMA OrderStep ==
    ASSUME Known, W!TypeOK, ChecksOK, Order, [Next]_vars
    PROVE  ChecksOK' /\ Order'
<1>1. ASSUME NEW t \in Slots,
             \/ Buying(t) \/ Level(t) \/ FailJob(t) \/ FailService(t)
             \/ \E u \in Users, g \in Grams : CreateSellRequest(t, u, g) \/ Buy(t, u, g)
      PROVE  ChecksOK' /\ Order'
  BY <1>1, QuietSteps
<1>2. ASSUME NEW t \in Slots, Deducted(t) \/ Levelled(t) \/ Abandon(t)
      PROVE  ChecksOK' /\ Order'
  BY <1>2, ReturnSteps
<1>3. ASSUME \/ \E t \in Slots : InsertRequest(t) \/ WriteCompleted(t)
             \/ \E r \in Requests : ApproveSellRequest(r) \/ CancelSellRequest(r)
      PROVE  ChecksOK' /\ Order'
  <2>1. Order'
    BY <1>3, RowSteps
  <2>2. check' = check
    BY <1>3 DEF InsertRequest, WriteCompleted, ApproveSellRequest, CancelSellRequest, memberVars
  <2>3. QED
    BY <2>1, <2>2 DEF ChecksOK
<1>4. ASSUME NEW t \in Slots, NEW r \in Requests, CompleteSellRequest(t, r)
      PROVE  ChecksOK' /\ Order'
  <2>1. check' = check
    BY <1>4 DEF CompleteSellRequest, BeginCompletion, memberVars
  <2>2. QED
    BY <1>4, <2>1, CompleteStep DEF ChecksOK
<1>5. ASSUME NEW t \in Slots, Deduct(t) PROVE ChecksOK' /\ Order'
  <2>1. check' = check
    BY <1>5 DEF Deduct, memberVars
  <2>2. QED
    BY <1>5, <2>1, DeductStep DEF ChecksOK
<1>6. ASSUME Crash PROVE ChecksOK' /\ Order'
  BY <1>6, CrashStep
<1>7. ASSUME UNCHANGED <<request, job, call, memberVars, historyVars>> PROVE ChecksOK' /\ Order'
  <2>1. \A s \in Slots : GoesOn(s)
    BY <1>7 DEF Order, Turn, memberVars, GoesOn
  <2>2. QED
    BY <1>7, <2>1, Undisturbed DEF memberVars, historyVars, ChecksOK
<1>8. ASSUME NEW u \in Users, OpenWallet(u)
      PROVE  UNCHANGED <<request, job, call, memberVars, historyVars>>
  BY <1>8 DEF OpenWallet, W!CreateWallet
<1>9. ASSUME UNCHANGED vars PROVE UNCHANGED <<request, job, call, memberVars, historyVars>>
  BY <1>9 DEF vars, walletVars
<1>10. QED
  BY <1>1, <1>2, <1>3, <1>4, <1>5, <1>6, <1>7, <1>8, <1>9 DEF Next, Run

LEMMA TypedInit == Init => W!TypeOK
<1>1. WP!WalletAssumption
  BY SellAssumption DEF SellAssumption, WP!WalletAssumption
<1>2. W!Init => WP!Init
  BY DEF W!Init, WP!Init, W!EmptyAccount, WP!EmptyAccount, W!IdleFrame, WP!IdleFrame
<1>3. QED
  BY <1>1, <1>2, SameTypes, WP!TypeInit DEF Init

(* Gold leaves a wallet for a request in its order: completed was          *)
(* deducted, deducted was approved, and one approval pays for one          *)
(* deduction unless completions overlapped or broke off.                   *)
THEOREM SalesInOrder == Spec => []DeductionsInOrder
<1> DEFINE Inv == Known /\ W!TypeOK /\ ChecksOK /\ Order
<1>1. Init => Inv
  BY KnownInit, TypedInit, ChecksInit, OrderInit
<1>2. Inv /\ [Next]_vars => Inv'
  BY KnownStep, WalletTyped, OrderStep
<1>3. Inv => DeductionsInOrder
  BY DEF Order, RowInOrder, Once, DeductionsInOrder
<1>4. QED
  BY <1>1, <1>2, <1>3, PTL DEF Spec
-----------------------------------------------------------------------------
(***************************************************************************)
(* Refinement: every behaviour of the sell requests is a behaviour of the  *)
(* wallet service, so the theorems about Wallet hold of the wallets here.  *)
(***************************************************************************)
THEOREM ImplementsWallet == Spec => W!Spec
<1>1. Init => W!Init
  BY DEF Init
<1>2. Known /\ [Next]_vars => [W!Next]_(W!vars)
  <2>1. UNCHANGED walletVars => UNCHANGED W!vars
    BY DEF walletVars, W!vars, W!walletVars, W!historyVars
  <2>2. QED
    BY <2>1, WalletStep
<1>3. QED
  BY <1>1, <1>2, KnownInit, KnownStep, PTL DEF Spec, W!Spec

(* In particular no sale overdraws a wallet, whatever payments, clicks and *)
(* failures come between the check of the balance and its write.           *)
THEOREM NoSaleOverdraws == Spec => []W!Solvent
<1>1. WP!WalletAssumption
  BY SellAssumption DEF SellAssumption, WP!WalletAssumption
<1>2. W!Init => WP!Init
  BY DEF W!Init, WP!Init, W!EmptyAccount, WP!EmptyAccount, W!IdleFrame, WP!IdleFrame
<1>3. [W!Next]_(W!vars) => [WP!Next]_(WP!vars)
  BY SameNext DEF W!vars, W!walletVars, W!historyVars, WP!vars, WP!walletVars, WP!historyVars
<1>4. WP!Solvent => W!Solvent
  BY DEF WP!Solvent, W!Solvent
<1>5. WP!Spec => []WP!Solvent
  BY <1>1, WP!NeverNegative
<1>6. QED
  BY ImplementsWallet, <1>2, <1>3, <1>4, <1>5, PTL DEF W!Spec, WP!Spec
-----------------------------------------------------------------------------
(***************************************************************************)
(* Types.  The rows of MembershipConfig give levels a threshold.           *)
(***************************************************************************)
TableOK == DOMAIN Thresholds \subseteq Levels /\ \A l \in DOMAIN Thresholds : Thresholds[l] \in Int

MemberOK ==
    /\ level \in [Users -> Levels]
    /\ check \in [Slots -> M!CheckFrame]
    /\ \A t \in Slots : check[t].pc # "idle" => check[t].user \in Users

LEMMA MemberInit == Init => MemberOK
BY SellAssumption DEF Init, M!ServiceInit, M!IdleCheck, M!CheckFrame, M!CheckPc, MemberOK

(* The steps a handler takes of a membership check.                        *)
CheckMoves ==
    \/ \E t \in Slots :
          \/ \E u \in Users : M!StartCheck(t, u)
          \/ M!StepCheck(t) \/ M!FailCheck(t) \/ M!ReturnCheck(t)
    \/ M!ForgetChecks /\ UNCHANGED level
    \/ UNCHANGED memberVars

LEMMA MemberStep == ASSUME TableOK, MemberOK, W!TypeOK, CheckMoves PROVE MemberOK'
<1> USE DEF MemberOK, M!CheckFrame, M!CheckPc
<1>1. ASSUME NEW t \in Slots, NEW u \in Users, M!StartCheck(t, u) PROVE MemberOK'
  BY <1>1 DEF M!StartCheck
<1>2. ASSUME NEW t \in Slots, M!ReadTotal(t) PROVE MemberOK'
  <2>1. check[t].user \in Users /\ wallet[check[t].user].purchased \in Int
    BY <1>2 DEF M!ReadTotal, W!TypeOK, W!Account
  <2>2. QED
    BY <1>2, <2>1 DEF M!ReadTotal, M!Goto
<1>3. ASSUME NEW t \in Slots, M!ReadConfigs(t) PROVE MemberOK'
  <2>1. PICK l \in M!LevelsFor(Thresholds, check[t].total) :
           check' = [check EXCEPT ![t].pc = "user", ![t].next = l]
    BY <1>3 DEF M!ReadConfigs
  <2>2. l \in Levels
    BY SellAssumption DEF M!LevelsFor, M!Reached, TableOK
  <2>3. check[t].user \in Users
    BY <1>3 DEF M!ReadConfigs
  <2>4. QED
    BY <1>3, <2>1, <2>2, <2>3 DEF M!ReadConfigs
<1>4. ASSUME NEW t \in Slots, M!ReadUser(t) \/ M!UpdateLevel(t) \/ M!FailCheck(t)
      PROVE  MemberOK'
  <2>1. check[t].pc # "idle" /\ check[t].user \in Users /\ check[t].next \in Levels
    BY <1>4 DEF M!ReadUser, M!UpdateLevel, M!FailCheck
  <2>2. level' \in [Users -> Levels]
    BY <1>4, <2>1 DEF M!ReadUser, M!UpdateLevel, M!FailCheck
  <2>3. \E pc \in M!CheckPc : check' = [check EXCEPT ![t].pc = pc]
    BY <1>4 DEF M!ReadUser, M!UpdateLevel, M!FailCheck, M!Goto
  <2>4. QED
    BY <2>1, <2>2, <2>3
<1>5. ASSUME NEW t \in Slots, M!ReturnCheck(t) PROVE MemberOK'
  BY <1>5, SellAssumption DEF M!ReturnCheck, M!IdleCheck
<1>6. CASE M!ForgetChecks /\ UNCHANGED level
  BY <1>6, SellAssumption DEF M!ForgetChecks, M!IdleCheck
<1>7. CASE UNCHANGED memberVars
  BY <1>7 DEF memberVars
<1>8. QED
  BY <1>1, <1>2, <1>3, <1>4, <1>5, <1>6, <1>7 DEF CheckMoves, M!StepCheck

LEMMA MemberTyped == TableOK /\ MemberOK => M!ServiceTypeOK
<1>1. <<>> \in [{} -> Seq(M!Row)]
  OBVIOUS
<1>2. QED
  BY <1>1 DEF TableOK, MemberOK, M!ServiceTypeOK

Records ==
    /\ overlapped \in SUBSET Requests /\ broken \in SUBSET Requests
    /\ reopened \in SUBSET Requests
    /\ clicks \in Nat /\ faults \in Nat

LEMMA TypesStep == Known /\ Records /\ [Next]_vars => CheckMoves /\ Records'
<1> SUFFICES ASSUME Known, Records, [Next]_vars PROVE CheckMoves /\ Records'
  OBVIOUS
<1> USE DEF CheckMoves, Records
<1>1. ASSUME NEW t \in Slots, InsertRequest(t) \/ Deduct(t) \/ WriteCompleted(t) \/ Buying(t)
                                 \/ \E u \in Users, g \in Grams :
                                        CreateSellRequest(t, u, g) \/ Buy(t, u, g)
      PROVE  CheckMoves /\ Records'
  BY <1>1 DEF InsertRequest, Deduct, WriteCompleted, Buying, CreateSellRequest, Buy, historyVars
<1>2. ASSUME NEW t \in Slots, Deducted(t) \/ Level(t) \/ Levelled(t) \/ Abandon(t)
      PROVE  CheckMoves /\ Records'
  <2>1. job[t].pc = "deducting" => job[t].user \in Users
    BY DEF Known, CompPc
  <2>2. QED
    BY <1>2, <2>1 DEF Deducted, Level, Levelled, Abandon, historyVars
<1>3. ASSUME NEW r \in Requests, ApproveSellRequest(r) \/ CancelSellRequest(r)
      PROVE  CheckMoves /\ Records'
  BY <1>3 DEF ApproveSellRequest, CancelSellRequest, Click, Reopen
<1>4. ASSUME NEW t \in Slots, NEW r \in Requests, CompleteSellRequest(t, r)
      PROVE  CheckMoves /\ Records'
  BY <1>4 DEF CompleteSellRequest, BeginCompletion
<1>5. ASSUME NEW t \in Slots, FailJob(t) \/ FailService(t) PROVE CheckMoves /\ Records'
  BY <1>5 DEF FailJob, FailService, Fault, Break
<1>6. CASE Crash
  BY <1>6 DEF Crash, Fault, Break
<1>7. ASSUME NEW u \in Users, OpenWallet(u) PROVE CheckMoves /\ Records'
  BY <1>7 DEF OpenWallet, historyVars
<1>8. CASE UNCHANGED vars
  BY <1>8 DEF vars, historyVars
<1>9. QED
  BY <1>1, <1>2, <1>3, <1>4, <1>5, <1>6, <1>7, <1>8 DEF Next, Run

(* Requests, handlers, wallets, checks and the records of the past keep    *)
(* their types.                                                            *)
THEOREM TypeCorrect == ASSUME TableOK PROVE Spec => []TypeOK
<1> DEFINE Inv == Known /\ W!TypeOK /\ ChecksOK /\ Order /\ MemberOK /\ Records
<1>1. Init => Inv
  BY KnownInit, TypedInit, ChecksInit, OrderInit, MemberInit DEF Init, Records
<1>2. Inv /\ [Next]_vars => Inv'
  BY KnownStep, WalletTyped, OrderStep, TypesStep, MemberStep
<1>3. Inv => TypeOK
  BY MemberTyped DEF Known, Order, Counts, Records, TypeOK
<1>4. QED
  BY <1>1, <1>2, <1>3, PTL DEF Spec
-----------------------------------------------------------------------------
(***************************************************************************)
(* The books.  Sums over finite sets, from the theorems about the wallet.  *)
(***************************************************************************)
LEMMA SameSum == ASSUME NEW f, NEW S PROVE WP!SumFunctionOnSet(f, S) = SumFunctionOnSet(f, S)
BY DEF WP!SumFunctionOnSet, WP!FoldFunctionOnSet, WP!MapThenFoldSet,
       SumFunctionOnSet, FoldFunctionOnSet, MapThenFoldSet

LEMMA SameFinite == ASSUME NEW S PROVE WP!IsFiniteSet(S) <=> IsFiniteSet(S)
BY DEF WP!IsFiniteSet, IsFiniteSet

LEMMA SumNothing == ASSUME NEW f PROVE SumFunctionOnSet(f, {}) = 0
<1>1. WP!WalletAssumption
  BY SellAssumption DEF SellAssumption, WP!WalletAssumption
<1>2. QED
  BY <1>1, WP!SumNothing, SameSum

LEMMA SumMore ==
    ASSUME NEW f, NEW S, IsFiniteSet(S), \A x \in S : f[x] \in Int, NEW x \in S
    PROVE  SumFunctionOnSet(f, S) = f[x] + SumFunctionOnSet(f, S \ {x})
<1>1. WP!WalletAssumption
  BY SellAssumption DEF SellAssumption, WP!WalletAssumption
<1>2. WP!IsFiniteSet(S)
  BY SameFinite
<1>3. WP!SumFunctionOnSet(f, S) = f[x] + WP!SumFunctionOnSet(f, S \ {x})
  BY <1>1, <1>2, WP!SumMore
<1>4. /\ WP!SumFunctionOnSet(f, S) = SumFunctionOnSet(f, S)
      /\ WP!SumFunctionOnSet(f, S \ {x}) = SumFunctionOnSet(f, S \ {x})
  BY SameSum
<1>5. QED
  BY <1>3, <1>4

LEMMA SumInt ==
    ASSUME NEW f, NEW S, IsFiniteSet(S), \A x \in S : f[x] \in Int
    PROVE  SumFunctionOnSet(f, S) \in Int
<1>1. WP!WalletAssumption
  BY SellAssumption DEF SellAssumption, WP!WalletAssumption
<1>2. WP!IsFiniteSet(S)
  BY SameFinite
<1>3. \A x \in S : WP!SumFunctionOnSet(f, S) \in Int
  BY <1>1, <1>2, WP!SumMore
<1>4. S = {} => SumFunctionOnSet(f, S) = 0
  BY SumNothing
<1>5. QED
  BY <1>3, <1>4, SameSum

LEMMA SumSame ==
    ASSUME NEW f, NEW e, NEW S, IsFiniteSet(S), \A x \in S : f[x] = e[x]
    PROVE  SumFunctionOnSet(f, S) = SumFunctionOnSet(e, S)
<1>1. WP!WalletAssumption
  BY SellAssumption DEF SellAssumption, WP!WalletAssumption
<1>2. WP!IsFiniteSet(S)
  BY SameFinite
<1>3. WP!SumFunctionOnSet(f, S) = WP!SumFunctionOnSet(e, S)
  BY <1>1, <1>2, WP!SumSame
<1>4. QED
  BY <1>3, SameSum

-----------------------------------------------------------------------------
(* What one step does to the rows: a new one, or none.                     *)
SameRow(r) ==
    /\ request'[r].user = request[r].user
    /\ request'[r].grams = request[r].grams
    /\ request'[r].status = "NONE" <=> request[r].status = "NONE"

(* The insert that ends createSellRequest.                                 *)
Inserts(t, r) ==
    /\ InsertRequest(t)
    /\ request[r].status = "NONE"
    /\ request'[r].status = "PENDING" /\ request'[r].user = job[t].user
    /\ \A q \in Requests \ {r} : request'[q] = request[q]

LEMMA InsertWrites ==
    ASSUME Known, NEW t \in Slots, InsertRequest(t)
    PROVE  \E r \in Requests : Inserts(t, r)
<1> DEFINE row == [NoRequest EXCEPT !.status = "PENDING", !.user = job[t].user,
                                    !.grams = job[t].grams]
<1>1. PICK r \in Requests :
         request[r].status = "NONE" /\ request' = [request EXCEPT ![r] = row]
  BY DEF InsertRequest
<1>2. row.status = "PENDING" /\ row.user = job[t].user
  BY DEF NoRequest
<1> HIDE DEF row
<1>3. QED
  BY <1>1, <1>2 DEF Known, Inserts

LEMMA RowsStay ==
    ASSUME Known, [Next]_vars
    PROVE  \/ \A r \in Requests : SameRow(r)
           \/ \E t \in Slots, r \in Requests : Inserts(t, r)
<1> USE DEF SameRow
<1>1. ASSUME NEW r \in Requests, ApproveSellRequest(r) \/ CancelSellRequest(r)
      PROVE  \A q \in Requests : SameRow(q)
  BY <1>1, RowStatus DEF ApproveSellRequest, CancelSellRequest, Status
<1>2. ASSUME NEW t \in Slots, WriteCompleted(t) PROVE \A q \in Requests : SameRow(q)
  <2>1. job[t].r \in Requests /\ request[job[t].r].status # "NONE"
    BY <1>2 DEF WriteCompleted, Known, CompPc
  <2>2. QED
    BY <1>2, <2>1, RowStatus DEF WriteCompleted, Status
<1>3. ASSUME \/ \E t \in Slots :
                \/ Deduct(t) \/ Deducted(t) \/ Level(t) \/ Levelled(t) \/ Buying(t)
                \/ Abandon(t) \/ FailJob(t) \/ FailService(t)
                \/ \E u \in Users, g \in Grams : CreateSellRequest(t, u, g) \/ Buy(t, u, g)
                \/ \E r \in Requests : CompleteSellRequest(t, r)
             \/ \E u \in Users : OpenWallet(u)
             \/ Crash \/ UNCHANGED vars
      PROVE  request' = request
  BY <1>3 DEF Deduct, Deducted, Level, Levelled, Buying, Abandon, FailJob, FailService,
     CreateSellRequest, Buy, CompleteSellRequest, BeginCompletion, OpenWallet, Crash, vars
<1>4. QED
  BY <1>1, <1>2, <1>3, InsertWrites DEF Next, Run

LEMMA RowStays ==
    ASSUME Known, [Next]_vars, NEW r \in Requests, request[r].status # "NONE"
    PROVE  SameRow(r)
BY RowsStay DEF SameRow, Inserts

(* The service calls of a handler fit its step.                            *)
CallFits(t) ==
    LET r == job[t].r IN
    /\ job[t].pc = "deducting" =>
          /\ call[t].pc # "idle" /\ call[t].op = "SELL_DEDUCT" /\ call[t].ref = r
          /\ call[t].user = request[r].user /\ call[t].grams = request[r].grams
    /\ job[t].pc = "buying" =>
          call[t].pc # "idle" /\ call[t].op = "PURCHASE" /\ call[t].ref \notin Requests
    /\ job[t].pc \notin {"deducting", "buying"} => call[t].pc = "idle"

Made == {r \in Requests : request[r].status # "NONE"}
Busy == {t \in Slots : call[t].pc # "idle"}

Fit ==
    /\ IsFiniteSet(Made) /\ IsFiniteSet(Busy)
    /\ \A r \in Requests : request[r].status = "NONE" => request[r].user = Nil
    /\ \A t \in Slots : CallFits(t)

LEMMA FitInit == Init => Fit
<1> SUFFICES ASSUME Init PROVE Fit
  OBVIOUS
<1>1. Made = {} /\ Busy = {}
  BY DEF Init, Made, Busy, NoRequest, W!Init, W!IdleFrame
<1>2. IsFiniteSet(Made) /\ IsFiniteSet(Busy)
  BY <1>1, FS_EmptySet
<1>3. \A r \in Requests : request[r].user = Nil
  BY DEF Init, NoRequest
<1>4. \A t \in Slots : CallFits(t)
  BY DEF Init, CallFits, IdleJob, W!Init, W!IdleFrame
<1>5. QED
  BY <1>2, <1>3, <1>4 DEF Fit

LEMMA MadeFinite == ASSUME Known, IsFiniteSet(Made), [Next]_vars PROVE IsFiniteSet(Made')
<1>1. ASSUME NEW t \in Slots, NEW r \in Requests, Inserts(t, r) PROVE IsFiniteSet(Made')
  <2>1. Made' \subseteq Made \cup {r}
    BY <1>1 DEF Inserts, Made
  <2>2. IsFiniteSet(Made \cup {r})
    BY FS_AddElement
  <2>3. QED
    BY <2>1, <2>2, FS_Subset
<1>2. ASSUME \A r \in Requests : SameRow(r) PROVE IsFiniteSet(Made')
  <2>1. Made' = Made
    BY <1>2 DEF Made, SameRow
  <2>2. QED
    BY <2>1
<1>3. QED
  BY <1>1, <1>2, RowsStay

(* The steps of the handler in slot t leave those in other slots alone.    *)
SlotStep(t) ==
    \/ InsertRequest(t) \/ WriteCompleted(t)
    \/ Deduct(t) \/ Deducted(t) \/ Level(t) \/ Levelled(t) \/ Buying(t)
    \/ Abandon(t) \/ FailJob(t) \/ FailService(t)
    \/ \E u \in Users, g \in Grams : CreateSellRequest(t, u, g) \/ Buy(t, u, g)
    \/ \E r \in Requests : CompleteSellRequest(t, r)

Click1 == \E r \in Requests : ApproveSellRequest(r) \/ CancelSellRequest(r)

Quiet == UNCHANGED <<request, job, wallet, ledger, call, debited, torn, historyVars>>

LEMMA StepKinds ==
    ASSUME [Next]_vars
    PROVE  (\E t \in Slots : SlotStep(t)) \/ Crash \/ Click1 \/ Quiet
<1>1. ASSUME NEW u \in Users, OpenWallet(u) PROVE Quiet
  BY <1>1 DEF OpenWallet, W!CreateWallet, W!historyVars, Quiet
<1>2. CASE UNCHANGED vars
  BY <1>2 DEF vars, walletVars, Quiet
<1>3. QED
  BY <1>1, <1>2 DEF Next, Run, SlotStep, Click1

Others(t) == \A s \in Slots \ {t} : job'[s] = job[s] /\ call'[s] = call[s]

LEMMA CallMoves ==
    ASSUME W!TypeOK, NEW t \in Slots, W!Step(t) \/ W!Fail(t)
    PROVE  /\ call[t].pc # "idle" /\ call'[t].pc # "idle"
           /\ call'[t].op = call[t].op /\ call'[t].user = call[t].user
           /\ call'[t].grams = call[t].grams /\ call'[t].ref = call[t].ref
<1> USE DEF W!TypeOK, W!Frame
<1>1. CASE W!ReadForAdd(t) \/ W!ReadForDeduct(t)
  BY <1>1 DEF W!ReadForAdd, W!ReadForDeduct, W!TakeSnapshot
<1>2. CASE W!RefuseDeduct(t) \/ W!LogTransaction(t) \/ W!Fail(t)
  BY <1>2 DEF W!RefuseDeduct, W!LogTransaction, W!Fail, W!Goto
<1>3. CASE W!WriteAdd(t)
  BY <1>3 DEF W!WriteAdd, W!Goto
<1>4. CASE W!WriteDeduct(t)
  BY <1>4 DEF W!WriteDeduct, W!Goto
<1>5. QED
  BY <1>1, <1>2, <1>3, <1>4 DEF W!Step

LEMMA CallEnds ==
    ASSUME W!TypeOK, NEW t \in Slots, W!Return(t)
    PROVE  call'[t].pc = "idle"
BY DEF W!TypeOK, W!Return, W!IdleFrame

LEMMA OthersStay ==
    ASSUME Known, W!TypeOK, NEW t \in Slots, SlotStep(t)
    PROVE  Others(t)
<1> USE DEF Others
<1>0. job \in [Slots -> Job]
  BY DEF Known
<1>1. CASE Deduct(t) \/ Deducted(t) \/ Buying(t) \/ Abandon(t) \/ FailService(t)
  <2>1. \A s \in Slots \ {t} : call'[s] = call[s]
    BY <1>1, OtherFrames DEF Deduct, Deducted, Buying, Abandon, FailService, walletVars
  <2>2. QED
    BY <1>0, <1>1, <2>1 DEF Deduct, Deducted, Buying, Abandon, FailService, EndJob, Goto
<1>2. CASE InsertRequest(t) \/ WriteCompleted(t) \/ Level(t) \/ Levelled(t) \/ FailJob(t)
             \/ \E u \in Users, g \in Grams : CreateSellRequest(t, u, g)
  BY <1>0, <1>2 DEF InsertRequest, WriteCompleted, Level, Levelled, FailJob, CreateSellRequest,
     walletVars, EndJob, Goto
<1>3. ASSUME NEW u \in Users, NEW g \in Grams, Buy(t, u, g) PROVE Others(t)
  BY <1>0, <1>3 DEF Buy, W!AddGrams, W!Start, W!TypeOK
<1>4. ASSUME NEW r \in Requests, CompleteSellRequest(t, r) PROVE Others(t)
  BY <1>0, <1>4 DEF CompleteSellRequest, BeginCompletion, W!DeductGrams, W!Start, W!TypeOK
<1>5. QED
  BY <1>1, <1>2, <1>3, <1>4 DEF SlotStep

LEMMA OwnFits ==
    ASSUME Known, W!TypeOK, Fit, [Next]_vars, NEW t \in Slots, SlotStep(t)
    PROVE  CallFits(t)'
<1> USE DEF CallFits
<1>0. job \in [Slots -> Job] /\ CallFits(t)
  BY DEF Known, Fit
<1>00. job[t].pc \in CompPc => SameRow(job[t].r)
  BY RowStays DEF Known
<1>1. CASE InsertRequest(t) \/ WriteCompleted(t) \/ FailJob(t)
  BY <1>0, <1>1 DEF InsertRequest, WriteCompleted, FailJob, walletVars, EndJob, IdleJob
<1>2. CASE Level(t)
  BY <1>0, <1>2 DEF Level, walletVars
<1>10. CASE Levelled(t)
  <2>1. job'[t].pc = "completing" /\ call'[t] = call[t] /\ job[t].pc = "levelling"
    BY <1>0, <1>10 DEF Levelled, walletVars, Goto, Job
  <2>2. QED
    BY <1>0, <2>1
<1>11. ASSUME NEW u \in Users, NEW g \in Grams, CreateSellRequest(t, u, g) PROVE CallFits(t)'
  BY <1>0, <1>11 DEF CreateSellRequest, walletVars
<1>3. CASE Deduct(t)
  BY <1>0, <1>3, CallMoves DEF Deduct
<1>4. CASE Deducted(t)
  BY <1>0, <1>4, CallEnds DEF Deducted, Goto
<1>5. CASE Buying(t)
  BY <1>0, <1>5, CallMoves, CallEnds DEF Buying, EndJob, IdleJob
<1>6. CASE Abandon(t)
  BY <1>0, <1>6, CallEnds DEF Abandon, walletVars, EndJob, IdleJob
<1>7. CASE FailService(t)
  BY <1>0, <1>7, CallMoves DEF FailService, walletVars
<1>8. ASSUME NEW u \in Users, NEW g \in Grams, Buy(t, u, g) PROVE CallFits(t)'
  BY <1>0, <1>8 DEF Buy, W!AddGrams, W!Start, W!TypeOK, IdleJob
<1>9. ASSUME NEW r \in Requests, CompleteSellRequest(t, r) PROVE CallFits(t)'
  BY <1>0, <1>9 DEF CompleteSellRequest, BeginCompletion, W!DeductGrams, W!Start, W!TypeOK
<1>12. QED
  BY <1>1, <1>2, <1>3, <1>4, <1>5, <1>6, <1>7, <1>8, <1>9, <1>10, <1>11 DEF SlotStep

LEMMA FitStep ==
    ASSUME Known, W!TypeOK, Fit, [Next]_vars
    PROVE  Fit'
<1>1. IsFiniteSet(Made')
  BY MadeFinite DEF Fit
<1>2. \A r \in Requests : request'[r].status = "NONE" => request'[r].user = Nil
  BY RowsStay DEF Fit, SameRow, Inserts
<1>3. \A s \in Slots : job[s].pc \in CompPc => SameRow(job[s].r)
  BY RowStays DEF Known
<1>4. ASSUME NEW t \in Slots, SlotStep(t)
      PROVE  IsFiniteSet(Busy') /\ \A s \in Slots : CallFits(s)'
  <2>1. Others(t)
    BY <1>4, OthersStay
  <2>2. Busy' \subseteq Busy \cup {t}
    BY <2>1 DEF Busy, Others
  <2>3. IsFiniteSet(Busy')
    BY <2>2, FS_AddElement, FS_Subset DEF Fit
  <2>4. ASSUME NEW s \in Slots \ {t} PROVE CallFits(s)'
    <3>1. CallFits(s) /\ job'[s] = job[s] /\ call'[s] = call[s]
      BY <2>1 DEF Fit, Others
    <3>2. QED
      BY <1>3, <3>1 DEF CallFits, SameRow, CompPc
  <2>5. CallFits(t)'
    BY <1>4, OwnFits
  <2>6. QED
    BY <2>3, <2>4, <2>5
<1>5. CASE Crash
  <2>1. Busy' = {} /\ \A s \in Slots : job'[s].pc = "idle" /\ call'[s].pc = "idle"
    BY <1>5 DEF Crash, W!Crash, W!IdleFrame, IdleJob, Busy
  <2>2. IsFiniteSet(Busy') /\ \A s \in Slots : CallFits(s)'
    BY <2>1, FS_EmptySet DEF CallFits
  <2>3. QED
    BY <1>1, <1>2, <2>2 DEF Fit
<1>6. CASE Click1 \/ Quiet
  <2>1. job' = job /\ call' = call
    BY <1>6 DEF Click1, ApproveSellRequest, CancelSellRequest, walletVars, Quiet
  <2>2. Busy' = Busy /\ \A s \in Slots : CallFits(s)'
    BY <1>3, <2>1 DEF Fit, Busy, CallFits, SameRow, CompPc
  <2>3. QED
    BY <1>1, <1>2, <2>2 DEF Fit
<1>7. QED
  BY <1>1, <1>2, <1>4, <1>5, <1>6, StepKinds DEF Fit

-----------------------------------------------------------------------------
(* Where the counters and the ledger are written.                          *)
Pays(t, r) ==
    /\ Deduct(t) /\ W!WriteDeduct(t) /\ r \in Requests
    /\ job[t].pc = "deducting" /\ job[t].r = r /\ call[t].user = request[r].user

Logs(t) == (Deduct(t) \/ Buying(t)) /\ W!LogTransaction(t)

LEMMA WriteOnly ==
    ASSUME Known, W!TypeOK, Fit, [Next]_vars
    PROVE  \/ UNCHANGED <<debited, deductedFor>>
           \/ \E t \in Slots, r \in Requests : Pays(t, r)
<1>1. ASSUME NEW t \in Slots, W!Step(t) PROVE UNCHANGED debited \/ W!WriteDeduct(t)
  BY <1>1 DEF W!Step, W!ReadForAdd, W!ReadForDeduct, W!RefuseDeduct, W!WriteAdd, W!LogTransaction,
     W!TakeSnapshot, W!historyVars
<1>2. ASSUME NEW t \in Slots, Deduct(t)
      PROVE  UNCHANGED <<debited, deductedFor>> \/ \E r \in Requests : Pays(t, r)
  <2>1. /\ job[t].r \in Requests /\ call[t].user = request[job[t].r].user
        /\ W!Step(t) /\ job[t].pc = "deducting"
    BY <1>2 DEF Deduct, Known, CompPc, Fit, CallFits
  <2>2. CASE W!WriteDeduct(t)
    BY <1>2, <2>1, <2>2 DEF Pays
  <2>3. CASE ~W!WriteDeduct(t)
    BY <1>1, <1>2, <2>1, <2>3 DEF Deduct
  <2>4. QED
    BY <2>2, <2>3
<1>3. ASSUME NEW t \in Slots, Buying(t) PROVE UNCHANGED <<debited, deductedFor>>
  <2>1. ~W!WriteDeduct(t)
    BY <1>3 DEF Buying, Fit, CallFits, W!WriteDeduct
  <2>2. QED
    BY <1>1, <1>3, <2>1 DEF Buying, historyVars, W!Return, W!historyVars
<1>4. ASSUME NEW t \in Slots, SlotStep(t), ~Deduct(t), ~Buying(t)
      PROVE  UNCHANGED <<debited, deductedFor>>
  BY <1>4 DEF SlotStep, InsertRequest, WriteCompleted, Deducted, Level, Levelled, Abandon, FailJob,
     FailService, CreateSellRequest, Buy, CompleteSellRequest, BeginCompletion, walletVars,
     historyVars, W!Return, W!Fail, W!AddGrams, W!DeductGrams, W!Start, W!historyVars
<1>5. ASSUME Crash \/ Click1 \/ Quiet PROVE UNCHANGED <<debited, deductedFor>>
  BY <1>5 DEF Crash, W!Crash, Click1, ApproveSellRequest, CancelSellRequest, walletVars, Quiet,
     historyVars
<1>6. QED
  BY <1>2, <1>3, <1>4, <1>5, StepKinds

LEMMA LogOnly ==
    ASSUME Known, W!TypeOK, Fit, [Next]_vars
    PROVE  UNCHANGED ledger \/ \E t \in Slots : Logs(t)
<1>1. ASSUME NEW t \in Slots, W!Step(t) PROVE UNCHANGED ledger \/ W!LogTransaction(t)
  BY <1>1 DEF W!Step, W!ReadForAdd, W!ReadForDeduct, W!RefuseDeduct, W!WriteAdd, W!WriteDeduct,
     W!TakeSnapshot, W!historyVars
<1>2. ASSUME NEW t \in Slots, Deduct(t) \/ Buying(t) PROVE UNCHANGED ledger \/ Logs(t)
  BY <1>1, <1>2 DEF Deduct, Buying, W!Return, Logs
<1>3. ASSUME NEW t \in Slots, SlotStep(t), ~Deduct(t), ~Buying(t) PROVE UNCHANGED ledger
  BY <1>3 DEF SlotStep, InsertRequest, WriteCompleted, Deducted, Level, Levelled, Abandon, FailJob,
     FailService, CreateSellRequest, Buy, CompleteSellRequest, BeginCompletion, walletVars,
     W!Return, W!Fail, W!AddGrams, W!DeductGrams, W!Start
<1>4. ASSUME Crash \/ Click1 \/ Quiet PROVE UNCHANGED ledger
  BY <1>4 DEF Crash, W!Crash, Click1, ApproveSellRequest, CancelSellRequest, walletVars, Quiet
<1>5. QED
  BY <1>2, <1>3, <1>4, StepKinds

(* A call that logs appends one row, of its own user and reference.        *)
LEMMA LogWrites ==
    ASSUME W!TypeOK, NEW t \in Slots, W!LogTransaction(t)
    PROVE  /\ call[t].user \in Users /\ call[t].pc = "log" /\ call'[t].pc = "done"
           /\ \A u \in Users \ {call[t].user} : ledger'[u] = ledger[u]
           /\ \E row : /\ row.ref = call[t].ref
                       /\ ledger'[call[t].user] = Append(ledger[call[t].user], row)
<1>1. call[t].user \in Users /\ call[t].pc = "log" /\ call'[t].pc = "done"
  BY DEF W!TypeOK, W!Frame, W!LogTransaction, W!Goto
<1> DEFINE row == [type |-> call[t].op, grams |-> call[t].grams, ref |-> call[t].ref,
                   before |-> call[t].snap.balance, after |-> W!BalanceAfter(t)]
<1>2. row.ref = call[t].ref
  OBVIOUS
<1>3. ledger' = [ledger EXCEPT ![call[t].user] = Append(@, row)]
  BY DEF W!LogTransaction
<1> HIDE DEF row
<1>4. /\ ledger'[call[t].user] = Append(ledger[call[t].user], row)
      /\ \A u \in Users \ {call[t].user} : ledger'[u] = ledger[u]
  BY <1>1, <1>3 DEF W!TypeOK
<1>5. QED
  BY <1>1, <1>2, <1>4

-----------------------------------------------------------------------------
(* No ledger row names a request before it exists.                         *)
Logged ==
    \A u \in Users : \A i \in 1..Len(ledger[u]) :
        ledger[u][i].ref \in Requests => request[ledger[u][i].ref].status # "NONE"

LEMMA LoggedStep ==
    ASSUME Known, W!TypeOK, Fit, Logged, [Next]_vars
    PROVE  Logged'
<1>1. \A r \in Requests : request[r].status # "NONE" => request'[r].status # "NONE"
  BY RowStays DEF SameRow
<1>2. CASE UNCHANGED ledger
  BY <1>1, <1>2 DEF Logged
<1>3. ASSUME NEW t \in Slots, Logs(t) PROVE Logged'
  <2>1. call[t].ref \in Requests => request[call[t].ref].status # "NONE"
    BY <1>3 DEF Logs, Deduct, Buying, Fit, CallFits, Known, CompPc
  <2>2. /\ call[t].user \in Users
        /\ \A u \in Users \ {call[t].user} : ledger'[u] = ledger[u]
    BY <1>3, LogWrites DEF Logs
  <2>3. PICK row : row.ref = call[t].ref /\ ledger'[call[t].user] = Append(ledger[call[t].user], row)
    BY <1>3, LogWrites DEF Logs
  <2> SUFFICES ASSUME NEW u \in Users, NEW i \in 1..Len(ledger'[u]), ledger'[u][i].ref \in Requests
               PROVE  request'[ledger'[u][i].ref].status # "NONE"
    BY DEF Logged
  <2>5. CASE u # call[t].user
    BY <1>1, <2>2, <2>5 DEF Logged
  <2>6. CASE u = call[t].user
    <3>1. ledger[u] \in Seq(W!LedgerRow)
      BY DEF W!TypeOK
    <3>2. \/ i \in 1..Len(ledger[u]) /\ ledger'[u][i] = ledger[u][i]
          \/ ledger'[u][i] = row
      BY <2>3, <2>6, <3>1
    <3>3. QED
      BY <1>1, <2>1, <2>3, <3>2 DEF Logged
  <2>7. QED
    BY <2>5, <2>6
<1>4. QED
  BY <1>2, <1>3, LogOnly

-----------------------------------------------------------------------------
(* As many rows name a request as deductions were written for it, but for  *)
(* those about to be logged.                                               *)
Logging(t, r) == Paying(t, r) /\ call[t].pc = "log"
Pending(r) == {t \in Slots : Logging(t, r)}

Tallied(u, r) == Cardinality(Rows(u, r)) = deductedFor[r] - Cardinality(Pending(r))
Tally == \A u \in Users \ torn, r \in Requests : request[r].user = u => Tallied(u, r)

LEMMA PendingIs ==
    ASSUME NEW r \in Requests
    PROVE  {t \in Completing(r) : call[t].pc = "log"} = Pending(r)
BY DEF Completing, Pending, Logging, Paying, CompPc

LEMMA PendingFinite == ASSUME Fit, NEW r \in Requests PROVE IsFiniteSet(Pending(r))
<1>1. Pending(r) \subseteq Busy
  BY DEF Pending, Logging, Busy
<1>2. QED
  BY <1>1, FS_Subset DEF Fit

LEMMA RowsFinite == ASSUME NEW u \in Users, NEW r, W!TypeOK PROVE IsFiniteSet(Rows(u, r))
<1>1. Len(ledger[u]) \in Nat
  BY DEF W!TypeOK
<1>2. IsFiniteSet(1..Len(ledger[u])) /\ Rows(u, r) \subseteq 1..Len(ledger[u])
  BY <1>1, FS_Interval DEF Rows
<1>3. QED
  BY <1>2, FS_Subset

(* A handler is about to log because it just wrote, and no longer because  *)
(* it logged or was cut off.                                               *)
LEMMA LoggingMoves ==
    ASSUME Known, W!TypeOK, Fit, [Next]_vars, NEW t \in Slots, NEW r \in Requests
    PROVE  \/ Logging(t, r)' <=> Logging(t, r)
           \/ Pays(t, r) /\ ~Logging(t, r) /\ Logging(t, r)'
           \/ Logging(t, r) /\ ~Logging(t, r)' /\ (Logs(t) \/ request[r].user \in torn')
<1>0. /\ job \in [Slots -> Job] /\ call \in [Slots -> W!Frame] /\ CallFits(t)
      /\ Logging(t, r) => job[t].pc = "deducting" /\ job[t].r = r /\ call[t].pc = "log"
                          /\ call[t].user = request[r].user /\ request[r].user \in Users
      /\ job[t].pc = "deducting" => job[t].r \in Requests
  BY DEF Known, W!TypeOK, Fit, CallFits, Logging, Paying, CompPc
<1>1. ASSUME NEW s \in Slots \ {t}, SlotStep(s) PROVE Logging(t, r)' <=> Logging(t, r)
  BY <1>1, OthersStay DEF Others, Logging, Paying
<1>2. CASE Crash
  <2>1. ~Logging(t, r)'
    BY <1>2 DEF Crash, IdleJob, Logging, Paying, CompPc
  <2>2. Logging(t, r) => request[r].user \in torn'
    BY <1>0, <1>2 DEF Crash, W!Crash
  <2>3. QED
    BY <2>1, <2>2
<1>3. CASE Click1 \/ Quiet
  BY <1>3 DEF Click1, ApproveSellRequest, CancelSellRequest, walletVars, Quiet, Logging, Paying
<1>4. CASE Deduct(t)
  <2>1. /\ job' = job /\ job[t].pc = "deducting" /\ call[t].op = "SELL_DEDUCT" /\ W!Step(t)
        /\ call[t].user = request[job[t].r].user
    BY <1>0, <1>4 DEF Deduct, CallFits
  <2>2. CASE W!WriteDeduct(t)
    <3>1. call[t].pc = "write" /\ call'[t].pc = "log"
      BY <2>1, <2>2, DeductFrame
    <3>2. job[t].r = r => Pays(t, r)
      BY <1>4, <2>1, <2>2 DEF Pays
    <3>3. QED
      BY <1>0, <2>1, <3>1, <3>2 DEF Logging, Paying, CompPc
  <2>3. CASE call[t].pc = "log" /\ call'[t].pc = "done"
    <3>1. W!LogTransaction(t)
      BY <2>1, <2>3 DEF W!Step, W!ReadForAdd, W!ReadForDeduct, W!RefuseDeduct, W!WriteAdd, W!WriteDeduct
    <3>2. QED
      BY <1>0, <1>4, <2>1, <2>3, <3>1 DEF Logging, Paying, CompPc, Logs
  <2>4. CASE call[t].pc = "read" /\ call'[t].pc \in {"write", "failed"}
    BY <2>1, <2>4 DEF Logging, Paying
  <2>5. QED
    BY <2>1, <2>2, <2>3, <2>4, DeductFrame
<1>5. CASE FailService(t)
  <2>1. job' = job /\ (job[t].pc = "deducting" => W!Fail(t))
    BY <1>5 DEF FailService
  <2>2. W!Fail(t) => /\ call'[t].pc = "failed"
                     /\ call[t].pc = "log" => call[t].user \in torn'
    BY <1>0 DEF W!Fail, W!Goto, W!Frame
  <2>3. job[t].pc # "deducting" => ~Logging(t, r) /\ (call'[t].pc = "idle" \/ job[t].pc = "buying")
    BY <1>0, <1>5 DEF FailService, walletVars, CallFits
  <2>4. QED
    BY <1>0, <2>1, <2>2, <2>3 DEF Logging, Paying, CompPc
<1>6. ASSUME \/ InsertRequest(t) \/ WriteCompleted(t) \/ FailJob(t) \/ Level(t) \/ Levelled(t)
             \/ Deducted(t) \/ Abandon(t) \/ Buying(t)
             \/ \E u \in Users, g \in Grams : CreateSellRequest(t, u, g) \/ Buy(t, u, g)
             \/ \E q \in Requests : CompleteSellRequest(t, q)
      PROVE  ~Logging(t, r) /\ ~Logging(t, r)'
  <2>1. ~Logging(t, r)
    BY <1>0, <1>6 DEF InsertRequest, WriteCompleted, FailJob, Level, Levelled, Deducted, Abandon,
       Buying, CreateSellRequest, Buy, CompleteSellRequest, BeginCompletion, W!Return
  <2>2. job'[t].pc \notin CompPc \/ call'[t].pc \in {"idle", "read"}
    <3>1. CASE InsertRequest(t) \/ WriteCompleted(t) \/ FailJob(t) \/ Abandon(t)
      BY <1>0, <3>1 DEF InsertRequest, WriteCompleted, FailJob, Abandon, EndJob, IdleJob, CompPc
    <3>2. CASE Level(t) \/ Levelled(t)
      BY <1>0, <3>2 DEF Level, Levelled, walletVars, CallFits
    <3>3. CASE Deducted(t)
      BY <3>3, CallEnds DEF Deducted
    <3>4. CASE Buying(t)
      BY <1>0, <3>4 DEF Buying, EndJob, IdleJob, CompPc
    <3>5. ASSUME NEW u \in Users, NEW g \in Grams, CreateSellRequest(t, u, g) \/ Buy(t, u, g)
          PROVE  job'[t].pc \notin CompPc
      BY <1>0, <3>5 DEF CreateSellRequest, Buy, IdleJob, CompPc
    <3>6. ASSUME NEW q \in Requests, CompleteSellRequest(t, q) PROVE call'[t].pc = "read"
      BY <1>0, <3>6 DEF CompleteSellRequest, BeginCompletion, W!DeductGrams, W!Start
    <3>7. QED
      BY <1>6, <3>1, <3>2, <3>3, <3>4, <3>5, <3>6
  <2>3. QED
    BY <2>1, <2>2 DEF Logging, Paying
<1>7. QED
  BY <1>1, <1>2, <1>3, <1>4, <1>5, <1>6, StepKinds DEF SlotStep

LEMMA RowsAppended ==
    ASSUME W!TypeOK, NEW u \in Users, NEW r, NEW row, ledger'[u] = Append(ledger[u], row)
    PROVE  \/ row.ref # r /\ Rows(u, r)' = Rows(u, r)
           \/ row.ref = r /\ Cardinality(Rows(u, r)') = Cardinality(Rows(u, r)) + 1
<1> DEFINE n == Len(ledger[u])
<1>1. ledger[u] \in Seq(W!LedgerRow) /\ n \in Nat
  BY DEF W!TypeOK
<1>2. /\ Len(ledger'[u]) = n + 1
      /\ \A i \in 1..n : ledger'[u][i] = ledger[u][i]
      /\ ledger'[u][n + 1] = row
  BY <1>1
<1> HIDE DEF n
<1>3. Rows(u, r)' = {i \in 1..(n + 1) : ledger'[u][i].ref = r} /\ Rows(u, r) = {i \in 1..n : ledger[u][i].ref = r}
  BY <1>2 DEF Rows, n
<1>4. \A i : i \in 1..(n + 1) <=> i \in 1..n \/ i = n + 1
  BY <1>1 DEF n
<1>5. CASE row.ref # r
  BY <1>2, <1>3, <1>4, <1>5
<1>6. CASE row.ref = r
  <2>1. Rows(u, r)' = Rows(u, r) \cup {n + 1} /\ n + 1 \notin Rows(u, r)
    BY <1>1, <1>2, <1>3, <1>4, <1>6
  <2>2. QED
    BY <1>6, <2>1, RowsFinite, FS_AddElement
<1>7. QED
  BY <1>5, <1>6

LEMMA TornGrows == ASSUME [Next]_vars, Known PROVE torn \subseteq torn'
<1>1. W!Next => torn \subseteq torn'
  <2>1. ASSUME NEW t \in Slots, W!Step(t) \/ W!Return(t) PROVE torn' = torn
    BY <2>1 DEF W!Step, W!ReadForAdd, W!ReadForDeduct, W!RefuseDeduct, W!WriteAdd, W!WriteDeduct,
       W!LogTransaction, W!TakeSnapshot, W!Return, W!historyVars
  <2>2. ASSUME NEW t \in Slots, W!Fail(t) PROVE torn \subseteq torn'
    BY <2>2 DEF W!Fail
  <2>3. QED
    BY <2>1, <2>2 DEF W!Next, W!CreateWallet, W!AddGrams, W!DeductGrams, W!Start, W!Crash, W!historyVars
<1>2. QED
  BY <1>1, WalletStep DEF walletVars

LEMMA TallyStep ==
    ASSUME Known, W!TypeOK, Order, Fit, Logged, Tally, [Next]_vars
    PROVE  Tally'
<1> SUFFICES ASSUME NEW u \in Users \ torn', NEW r \in Requests, request'[r].user = u
             PROVE  Tallied(u, r)'
  BY DEF Tally
<1>0. /\ u \notin torn /\ deductedFor \in [Requests -> Nat]
      /\ IsFiniteSet(Pending(r)) /\ IsFiniteSet(Rows(u, r))
  BY TornGrows, PendingFinite, RowsFinite DEF Order, Counts
<1>1. ASSUME NEW t \in Slots, Inserts(t, r) PROVE Tallied(u, r)'
  <2>1. /\ request[r].status = "NONE" /\ ledger' = ledger
        /\ deductedFor'[r] = deductedFor[r] /\ deductedFor[r] \in Nat
    BY <1>0, <1>1 DEF Inserts, InsertRequest, walletVars, historyVars
  <2>2. \A s \in Slots : ~Logging(s, r) /\ ~Pays(s, r)
    BY <2>1 DEF Known, Logging, Paying, Pays, CompPc
  <2>3. \A s \in Slots : ~Logging(s, r)'
    BY <2>2, LoggingMoves
  <2>4. Pending(r)' = {}
    BY <2>3 DEF Pending
  <2>5. deductedFor[r] = 0
    BY <2>1 DEF Order, RowInOrder
  <2>6. Rows(u, r)' = {}
    BY <2>1 DEF Logged, Rows
  <2>7. QED
    BY <2>1, <2>4, <2>5, <2>6, FS_EmptySet DEF Tallied
<1>2. ASSUME SameRow(r) PROVE Tallied(u, r)'
  <2>0. request[r].user = u /\ Tallied(u, r) /\ u \in Users
    BY <1>0, <1>2 DEF SameRow, Tally
  <2>1. ASSUME NEW t \in Slots, Pays(t, r) PROVE Tallied(u, r)'
    <3>1. /\ ledger' = ledger /\ call[t].pc = "write"
          /\ deductedFor' = [deductedFor EXCEPT ![r] = @ + 1]
      BY <2>1 DEF Pays, Deduct, W!WriteDeduct
    <3>2. ~Logging(t, r)
      BY <3>1 DEF Logging
    <3>3. Logging(t, r)'
      BY <2>1 DEF Pays, Deduct, W!WriteDeduct, W!Goto, W!TypeOK, W!Frame, Logging, Paying, CompPc
    <3>4. \A s \in Slots \ {t} : Logging(s, r)' <=> Logging(s, r)
      BY <2>1, OthersStay DEF Pays, SlotStep, Others, Logging, Paying
    <3>5. Pending(r)' = Pending(r) \cup {t} /\ t \notin Pending(r)
      BY <3>2, <3>3, <3>4 DEF Pending
    <3>6. Cardinality(Pending(r)') = Cardinality(Pending(r)) + 1
      BY <1>0, <3>5, FS_AddElement
    <3>7. Rows(u, r)' = Rows(u, r)
      BY <3>1 DEF Rows
    <3>8. deductedFor'[r] = deductedFor[r] + 1 /\ deductedFor[r] \in Nat
      BY <1>0, <3>1
    <3>9. Cardinality(Pending(r)) \in Nat
      BY <1>0, FS_CardinalityType
    <3>10. QED
      BY <2>0, <3>6, <3>7, <3>8, <3>9 DEF Tallied
  <2>2. ASSUME \A t \in Slots : ~Pays(t, r) PROVE deductedFor'[r] = deductedFor[r]
    <3>1. ASSUME NEW t \in Slots, NEW q \in Requests, Pays(t, q) PROVE deductedFor'[r] = deductedFor[r]
      <4>1. q # r /\ deductedFor' = [deductedFor EXCEPT ![q] = @ + 1]
        BY <2>2, <3>1 DEF Pays, Deduct
      <4>2. QED
        BY <1>0, <4>1
    <3>2. QED
      BY <3>1, WriteOnly
  <2>3. ASSUME NEW t \in Slots, Logs(t), Logging(t, r) PROVE Tallied(u, r)'
    <3>1. /\ job[t].pc = "deducting" /\ call[t].ref = r /\ call[t].user = u /\ Deduct(t)
          /\ W!LogTransaction(t)
      BY <2>0, <2>3 DEF Logging, Paying, CompPc, Logs, Buying, Fit, CallFits
    <3>2. ~Logging(t, r)'
      BY <3>1, LogWrites DEF Logging
    <3>3. \A s \in Slots \ {t} : Logging(s, r)' <=> Logging(s, r)
      BY <3>1, OthersStay DEF SlotStep, Others, Logging, Paying
    <3>4. Pending(r)' = Pending(r) \ {t} /\ t \in Pending(r)
      BY <2>3, <3>2, <3>3 DEF Pending
    <3>5. /\ Cardinality(Pending(r)') = Cardinality(Pending(r)) - 1
          /\ Cardinality(Pending(r)) \in Nat
      BY <1>0, <3>4, FS_RemoveElement, FS_CardinalityType
    <3>6. PICK row : row.ref = r /\ ledger'[u] = Append(ledger[u], row)
      BY <3>1, LogWrites
    <3>7. /\ Cardinality(Rows(u, r)') = Cardinality(Rows(u, r)) + 1
          /\ Cardinality(Rows(u, r)) \in Nat
      BY <1>0, <2>0, <3>6, RowsAppended, FS_CardinalityType
    <3>8. \A s \in Slots : ~Pays(s, r)
      <4>1. ~W!WriteDeduct(t)
        BY <3>1 DEF W!WriteDeduct, W!LogTransaction
      <4>2. deductedFor' = deductedFor
        BY <3>1, <4>1 DEF Deduct
      <4>3. ASSUME NEW s \in Slots, Pays(s, r) PROVE FALSE
        BY <1>0, <4>2, <4>3 DEF Pays, Deduct
      <4>4. QED
        BY <4>3
    <3>9. deductedFor'[r] = deductedFor[r] /\ deductedFor[r] \in Nat
      BY <1>0, <2>2, <3>8
    <3>10. QED
      BY <2>0, <3>5, <3>7, <3>9 DEF Tallied
  <2>4. ASSUME \A t \in Slots : ~Pays(t, r) /\ ~(Logs(t) /\ Logging(t, r)) PROVE Tallied(u, r)'
    <3>1. \A t \in Slots : Logging(t, r)' <=> Logging(t, r)
      BY <2>0, <2>4, LoggingMoves
    <3>2. Pending(r)' = Pending(r)
      BY <3>1 DEF Pending
    <3>3. ASSUME NEW t \in Slots, Logs(t) PROVE Rows(u, r)' = Rows(u, r)
      <4>1. call[t].pc = "log" /\ call[t].user \in Users
        BY <3>3, LogWrites DEF Logs
      <4>2. call[t].ref = r => Logging(t, r)
        BY <3>3, <4>1 DEF Logs, Deduct, Buying, Fit, CallFits, Logging, Paying, CompPc
      <4>3. CASE call[t].user = u
        <5>1. PICK row : row.ref = call[t].ref /\ ledger'[u] = Append(ledger[u], row)
          BY <3>3, <4>3, LogWrites DEF Logs
        <5>2. row.ref # r
          BY <2>4, <3>3, <4>2, <5>1
        <5>3. QED
          BY <2>0, <5>1, <5>2, RowsAppended
      <4>4. CASE call[t].user # u
        <5>1. ledger'[u] = ledger[u]
          BY <2>0, <3>3, <4>4, LogWrites DEF Logs
        <5>2. QED
          BY <5>1 DEF Rows
      <4>5. QED
        BY <4>3, <4>4
    <3>4. UNCHANGED ledger => Rows(u, r)' = Rows(u, r)
      BY DEF Rows
    <3>5. Rows(u, r)' = Rows(u, r)
      BY <3>3, <3>4, LogOnly
    <3>6. deductedFor'[r] = deductedFor[r]
      BY <2>2, <2>4
    <3>7. QED
      BY <2>0, <3>2, <3>5, <3>6 DEF Tallied
  <2>5. QED
    BY <2>1, <2>3, <2>4
<1>3. CASE \E t \in Slots, q \in Requests : Inserts(t, q) /\ q # r
  BY <1>2, <1>3 DEF Inserts, SameRow
<1>4. QED
  BY <1>1, <1>2, <1>3, RowsStay

-----------------------------------------------------------------------------
(* What is booked in debited: the COMPLETED requests, and those whose      *)
(* completion is past the write of the wallet.                             *)
Undone == overlapped \cup broken \cup reopened

Deep(t, r) == Paying(t, r) /\ (job[t].pc # "deducting" \/ call[t].pc \in {"log", "done"})
Due(r) == request[r].status = "COMPLETED" \/ \E t \in Slots : Deep(t, r)
Booked(u) == {r \in Requests : request[r].user = u /\ Due(r)}
Calm(u) == \A r \in Requests : request[r].user = u => r \notin Undone

Open(r) == (\E t \in Slots : Paying(t, r)) => request[r].status # "COMPLETED"

Books ==
    /\ \A u \in Users : Calm(u) => debited[u] = SumFunctionOnSet(GramsOf, Booked(u))
    /\ \A r \in Requests \ Undone : Open(r)

LEMMA BooksInit == Init => Books
<1> SUFFICES ASSUME Init PROVE Books
  OBVIOUS
<1>1. \A u \in Users : Booked(u) = {} /\ debited[u] = 0
  BY SellAssumption DEF Init, W!Init, Booked, NoRequest
<1>2. \A r \in Requests : Open(r)
  BY DEF Init, Open, NoRequest
<1>3. QED
  BY <1>1, <1>2, SumNothing DEF Books

LEMMA UndoneGrows == ASSUME Known, [Next]_vars PROVE Undone \subseteq Undone'
<1>1. ASSUME NEW t \in Slots, SlotStep(t) PROVE Undone \subseteq Undone'
  BY <1>1 DEF SlotStep, InsertRequest, WriteCompleted, Deduct, Deducted, Level, Levelled, Buying,
     Abandon, FailJob, FailService, CreateSellRequest, Buy, CompleteSellRequest, BeginCompletion,
     historyVars, Break, Undone
<1>2. CASE Crash \/ Click1 \/ Quiet
  BY <1>2 DEF Crash, Break, Click1, ApproveSellRequest, CancelSellRequest, Reopen, Quiet,
     historyVars, Undone
<1>3. QED
  BY <1>1, <1>2, StepKinds

(* A completion that broke off is on record.                               *)
LEMMA Broken ==
    ASSUME Known, Order, NEW t \in Slots, NEW r \in Requests, Paying(t, r),
           FailJob(t) \/ FailService(t) \/ Crash \/ (Abandon(t) /\ job[t].pc = "levelling")
    PROVE  r \in Undone'
<1>1. r \in broken'
  BY DEF FailJob, FailService, Crash, Abandon, Break, Completing, Paying, CompPc, Order, Turn,
     historyVars
<1>2. QED
  BY <1>1 DEF Undone

(* Who is deep in a completion of r stays so until the status is written.  *)
LEMMA DeepMoves ==
    ASSUME Known, W!TypeOK, Order, Fit, [Next]_vars, NEW t \in Slots, NEW r \in Requests,
           r \notin Undone'
    PROVE  \/ Deep(t, r)' <=> Deep(t, r)
           \/ Pays(t, r)
           \/ WriteCompleted(t) /\ job[t].r = r
<1>0. /\ job \in [Slots -> Job] /\ call \in [Slots -> W!Frame] /\ CallFits(t)
  BY DEF Known, W!TypeOK, Fit
<1>1. ASSUME NEW s \in Slots \ {t}, SlotStep(s) PROVE Deep(t, r)' <=> Deep(t, r)
  BY <1>1, OthersStay DEF Others, Deep, Paying
<1>2. CASE Crash
  <2>1. ~Deep(t, r)'
    BY <1>2 DEF Crash, IdleJob, Deep, Paying, CompPc
  <2>2. ~Deep(t, r)
    BY <1>2, Broken DEF Deep
  <2>3. QED
    BY <2>1, <2>2
<1>3. CASE Click1 \/ Quiet
  BY <1>3 DEF Click1, ApproveSellRequest, CancelSellRequest, walletVars, Quiet, Deep, Paying
<1>4. CASE Deduct(t)
  <2>1. /\ job' = job /\ job[t].pc = "deducting" /\ call[t].op = "SELL_DEDUCT" /\ W!Step(t)
        /\ call[t].user = request[job[t].r].user
    BY <1>0, <1>4 DEF Deduct, CallFits
  <2>2. CASE W!WriteDeduct(t)
    <3>1. job[t].r = r => Pays(t, r)
      BY <1>4, <2>1, <2>2 DEF Pays
    <3>2. QED
      BY <2>1, <3>1 DEF Deep, Paying
  <2>3. CASE call[t].pc = "log" /\ call'[t].pc = "done"
    BY <2>1, <2>3 DEF Deep, Paying
  <2>4. CASE call[t].pc = "read" /\ call'[t].pc \in {"write", "failed"}
    BY <2>1, <2>4 DEF Deep, Paying
  <2>5. QED
    BY <2>1, <2>2, <2>3, <2>4, DeductFrame
<1>5. CASE FailJob(t) \/ FailService(t)
  <2>1. ~Deep(t, r)
    BY <1>5, Broken DEF Deep
  <2>2. ~Deep(t, r)'
    <3>1. ~Paying(t, r)
      BY <1>5, Broken
    <3>2. job'[t] = job[t] \/ job'[t] = IdleJob
      BY <1>0, <1>5 DEF FailJob, FailService, EndJob
    <3>3. QED
      BY <3>1, <3>2 DEF Deep, Paying, IdleJob, CompPc
  <2>3. QED
    BY <2>1, <2>2
<1>6. CASE Abandon(t)
  <2>1. ~Deep(t, r)'
    BY <1>0, <1>6 DEF Abandon, EndJob, IdleJob, Deep, Paying, CompPc
  <2>2. ~Deep(t, r)
    BY <1>6, Broken DEF Abandon, Deep
  <2>3. QED
    BY <2>1, <2>2
<1>7. CASE Deducted(t)
  <2>1. /\ job[t].pc = "deducting" /\ call[t].pc = "done"
        /\ job'[t].pc = "levelling" /\ job'[t].r = job[t].r
    BY <1>0, <1>7 DEF Deducted, Goto, Job
  <2>2. QED
    BY <2>1 DEF Deep, Paying, CompPc
<1>8. CASE Level(t) \/ Levelled(t)
  <2>1. /\ job[t].pc = "levelling" /\ job'[t].pc \in {"levelling", "completing"}
        /\ job'[t].r = job[t].r
    BY <1>0, <1>8 DEF Level, Levelled, Goto, Job
  <2>2. QED
    BY <2>1 DEF Deep, Paying, CompPc
<1>9. CASE WriteCompleted(t)
  <2>1. job[t].r # r => ~Deep(t, r)
    BY DEF Deep, Paying
  <2>2. ~Deep(t, r)'
    BY <1>0, <1>9 DEF WriteCompleted, EndJob, IdleJob, Deep, Paying, CompPc
  <2>3. QED
    BY <1>9, <2>1, <2>2
<1>10. CASE InsertRequest(t) \/ Buying(t)
             \/ \E u \in Users, g \in Grams : CreateSellRequest(t, u, g) \/ Buy(t, u, g)
  <2>1. job[t].pc \notin CompPc /\ job'[t].pc \notin CompPc
    BY <1>0, <1>10 DEF InsertRequest, Buying, CreateSellRequest, Buy, EndJob, IdleJob, CompPc
  <2>2. QED
    BY <2>1 DEF Deep, Paying
<1>11. ASSUME NEW q \in Requests, CompleteSellRequest(t, q) PROVE ~Deep(t, r) /\ ~Deep(t, r)'
  <2>1. job[t].pc = "idle" /\ job'[t].pc = "deducting" /\ call'[t].pc = "read"
    BY <1>0, <1>11 DEF CompleteSellRequest, BeginCompletion, W!DeductGrams, W!Start
  <2>2. QED
    BY <2>1 DEF Deep, Paying, CompPc
<1>12. QED
  BY <1>1, <1>2, <1>3, <1>4, <1>5, <1>6, <1>7, <1>8, <1>9, <1>10, <1>11, StepKinds DEF SlotStep

(* A status becomes COMPLETED at the end of a completion, and stays so     *)
(* unless the request is reopened.                                         *)
LEMMA StatusMoves ==
    ASSUME Known, [Next]_vars, NEW r \in Requests, r \notin Undone'
    PROVE  \/ request'[r].status = "COMPLETED" <=> request[r].status = "COMPLETED"
           \/ \E t \in Slots : WriteCompleted(t) /\ job[t].r = r /\ request'[r].status = "COMPLETED"
<1>0. request \in [Requests -> RequestRow]
  BY DEF Known
<1>1. ASSUME NEW q \in Requests, ApproveSellRequest(q) \/ CancelSellRequest(q)
      PROVE  request'[r].status = "COMPLETED" <=> request[r].status = "COMPLETED"
  <2>1. CASE q # r
    BY <1>0, <1>1, <2>1 DEF ApproveSellRequest, CancelSellRequest
  <2>2. CASE q = r
    <3>1. request'[r].status \in {"APPROVED", "CANCELLED"}
      BY <1>1, <2>2, RowStatus DEF ApproveSellRequest, CancelSellRequest, Status
    <3>2. request[r].status # "COMPLETED"
      BY <1>1, <2>2 DEF ApproveSellRequest, CancelSellRequest, Reopen, Undone
    <3>3. QED
      BY <3>1, <3>2
  <2>3. QED
    BY <2>1, <2>2
<1>2. ASSUME NEW t \in Slots, WriteCompleted(t)
      PROVE  IF job[t].r = r THEN request'[r].status = "COMPLETED" ELSE request'[r] = request[r]
  BY <1>0, <1>2 DEF WriteCompleted, RequestRow
<1>3. ASSUME NEW t \in Slots, NEW q \in Requests, Inserts(t, q)
      PROVE  request'[r].status = "COMPLETED" <=> request[r].status = "COMPLETED"
  BY <1>3 DEF Inserts
<1>4. ASSUME \/ \E t \in Slots :
                \/ Deduct(t) \/ Deducted(t) \/ Level(t) \/ Levelled(t) \/ Buying(t)
                \/ Abandon(t) \/ FailJob(t) \/ FailService(t)
                \/ \E u \in Users, g \in Grams : CreateSellRequest(t, u, g) \/ Buy(t, u, g)
                \/ \E q \in Requests : CompleteSellRequest(t, q)
             \/ Crash \/ Quiet
      PROVE  request' = request
  BY <1>4 DEF Deduct, Deducted, Level, Levelled, Buying, Abandon, FailJob, FailService,
     CreateSellRequest, Buy, CompleteSellRequest, BeginCompletion, Crash, Quiet
<1>5. QED
  BY <1>1, <1>2, <1>3, <1>4, InsertWrites, StepKinds DEF SlotStep, Click1

LEMMA PayingMoves ==
    ASSUME Known, W!TypeOK, [Next]_vars, NEW t \in Slots, NEW r \in Requests, Paying(t, r)'
    PROVE  Paying(t, r) \/ CompleteSellRequest(t, r)
<1>0. job \in [Slots -> Job]
  BY DEF Known
<1>1. ASSUME NEW s \in Slots \ {t}, SlotStep(s) PROVE Paying(t, r)
  BY <1>1, OthersStay DEF Others, Paying
<1>2. CASE Crash \/ Click1 \/ Quiet
  <2>1. job' = job \/ job'[t] = IdleJob
    BY <1>2 DEF Crash, Click1, ApproveSellRequest, CancelSellRequest, Quiet
  <2>2. QED
    BY <2>1 DEF Paying, IdleJob, CompPc
<1>3. CASE Deducted(t) \/ Levelled(t) \/ Deduct(t) \/ Level(t) \/ FailService(t) \/ Buying(t)
  <2>1. job'[t] = job[t] \/ job'[t] = IdleJob
           \/ (job[t].pc \in {"deducting", "levelling"} /\ job'[t].r = job[t].r)
    BY <1>0, <1>3 DEF Deducted, Levelled, Deduct, Level, FailService, Buying, EndJob, Goto, Job
  <2>2. QED
    BY <2>1 DEF Paying, IdleJob, CompPc
<1>4. CASE InsertRequest(t) \/ WriteCompleted(t) \/ Abandon(t) \/ FailJob(t)
  <2>1. job'[t] = IdleJob
    BY <1>0, <1>4 DEF InsertRequest, WriteCompleted, Abandon, FailJob, EndJob
  <2>2. QED
    BY <2>1 DEF Paying, IdleJob, CompPc
<1>5. ASSUME NEW u \in Users, NEW g \in Grams, CreateSellRequest(t, u, g) \/ Buy(t, u, g)
      PROVE  FALSE
  <2>1. job'[t].pc \notin CompPc
    BY <1>0, <1>5 DEF CreateSellRequest, Buy, IdleJob, CompPc
  <2>2. QED
    BY <2>1 DEF Paying
<1>6. ASSUME NEW q \in Requests, CompleteSellRequest(t, q) PROVE CompleteSellRequest(t, r)
  <2>1. job'[t].r = q
    BY <1>0, <1>6 DEF CompleteSellRequest, BeginCompletion
  <2>2. QED
    BY <1>6, <2>1 DEF Paying
<1>7. QED
  BY <1>1, <1>2, <1>3, <1>4, <1>5, <1>6, StepKinds DEF SlotStep

LEMMA DueStays ==
    ASSUME Known, W!TypeOK, Order, Fit, [Next]_vars, NEW r \in Requests,
           r \notin Undone', \A t \in Slots : ~Pays(t, r)
    PROVE  Due(r)' <=> Due(r)
<1>1. ASSUME NEW t \in Slots, WriteCompleted(t), job[t].r = r, request'[r].status = "COMPLETED"
      PROVE  Due(r) /\ Due(r)'
  BY <1>1 DEF WriteCompleted, Due, Deep, Paying, CompPc
<1>2. ASSUME \A t \in Slots : ~(WriteCompleted(t) /\ job[t].r = r)
      PROVE  Due(r)' <=> Due(r)
  <2>1. \A t \in Slots : Deep(t, r)' <=> Deep(t, r)
    BY <1>2, DeepMoves
  <2>2. request'[r].status = "COMPLETED" <=> request[r].status = "COMPLETED"
    BY <1>2, StatusMoves
  <2>3. QED
    BY <2>1, <2>2 DEF Due
<1>3. ASSUME NEW t \in Slots, WriteCompleted(t), job[t].r = r PROVE request'[r].status = "COMPLETED"
  BY <1>3 DEF WriteCompleted, Known, RequestRow
<1>4. QED
  BY <1>1, <1>2, <1>3

LEMMA OpenStep ==
    ASSUME Known, W!TypeOK, Order, Fit, Books, [Next]_vars, NEW r \in Requests, r \notin Undone'
    PROVE  Open(r)'
<1> SUFFICES ASSUME NEW t \in Slots, Paying(t, r)', request'[r].status = "COMPLETED" PROVE FALSE
  BY DEF Open
<1>0. r \notin Undone /\ Open(r) /\ Once(r)
  BY UndoneGrows DEF Books, Order, Undone
<1>1. ASSUME NEW s \in Slots, WriteCompleted(s), job[s].r = r PROVE FALSE
  <2>1. Paying(s, r)
    BY <1>1 DEF WriteCompleted, Paying, CompPc
  <2>2. ~Paying(s, r)'
    BY <1>1 DEF WriteCompleted, EndJob, IdleJob, Known, Paying, CompPc
  <2>3. t # s /\ Paying(t, r)
    BY <1>1, <2>2, OthersStay DEF SlotStep, Others, Paying
  <2>4. QED
    BY <1>0, <2>1, <2>3 DEF Once
<1>2. ASSUME request[r].status = "COMPLETED" PROVE FALSE
  <2>1. ~CompleteSellRequest(t, r)
    BY <1>2 DEF CompleteSellRequest
  <2>2. QED
    BY <1>0, <1>2, <2>1, PayingMoves DEF Open
<1>3. QED
  BY <1>1, <1>2, StatusMoves

LEMMA BooksStep ==
    ASSUME Known, W!TypeOK, Order, Fit, Books, [Next]_vars
    PROVE  Books'
<1> SUFFICES ASSUME NEW u \in Users, Calm(u)'
             PROVE  debited'[u] = SumFunctionOnSet(GramsOf', Booked(u)')
  BY OpenStep DEF Books
<1>0. /\ request \in [Requests -> RequestRow] /\ debited \in [Users -> Int]
      /\ \A r \in Requests : request[r].status # "NONE" =>
            request[r].user \in Users /\ request[r].grams \in Int
      /\ Nil \notin Users
  BY SellAssumption DEF Known, RequestRow, W!TypeOK
<1>1. ASSUME NEW r \in Requests, request[r].user = u PROVE SameRow(r)
  BY <1>0, <1>1, RowStays DEF Fit
<1>2. Calm(u) /\ \A r \in Requests : request[r].user = u => r \notin Undone /\ r \notin Undone'
  BY <1>1, UndoneGrows DEF Calm, SameRow
<1>3. /\ Booked(u) \subseteq Requests /\ IsFiniteSet(Booked(u))
      /\ \A r \in Booked(u) : request[r].user = u /\ GramsOf[r] \in Int /\ GramsOf'[r] = GramsOf[r]
  <2>1. \A r \in Booked(u) : r \in Requests /\ request[r].user = u
    BY DEF Booked
  <2>2. \A r \in Booked(u) : r \in Made /\ request[r].grams \in Int
    BY <1>0, <2>1 DEF Fit, Made, RequestRow
  <2>3. IsFiniteSet(Booked(u))
    BY <2>2, FS_Subset DEF Fit
  <2>4. \A r \in Booked(u) : GramsOf'[r] = GramsOf[r]
    BY <1>1, <2>1 DEF GramsOf, SameRow
  <2>5. QED
    BY <2>1, <2>2, <2>3, <2>4 DEF GramsOf
<1>4. debited[u] = SumFunctionOnSet(GramsOf, Booked(u))
  BY <1>2 DEF Books
<1>5. ASSUME NEW t \in Slots, NEW q \in Requests, Inserts(t, q), request'[q].user = u
      PROVE  ~Due(q)'
  <2>1. \A s \in Slots : ~Paying(s, q) /\ ~CompleteSellRequest(s, q)
    BY <1>5 DEF Inserts, Known, Paying, CompleteSellRequest
  <2>2. \A s \in Slots : ~Paying(s, q)'
    BY <2>1, PayingMoves
  <2>3. QED
    BY <1>5, <2>2 DEF Inserts, Due, Deep
<1>6. \A r \in Requests : request'[r].user = u => request[r].user = u \/ ~Due(r)'
  BY <1>5, RowsStay DEF SameRow, Inserts
<1>7. ASSUME \A t \in Slots, r \in Requests : Pays(t, r) => request[r].user # u
      PROVE  debited'[u] = SumFunctionOnSet(GramsOf', Booked(u)')
  <2>1. debited'[u] = debited[u]
    <3>1. ASSUME NEW t \in Slots, NEW r \in Requests, Pays(t, r) PROVE debited'[u] = debited[u]
      BY <1>0, <1>7, <3>1 DEF Pays, W!WriteDeduct
    <3>2. QED
      BY <3>1, WriteOnly
  <2>2. \A r \in Requests : request[r].user = u => (Due(r)' <=> Due(r)) /\ request'[r].user = u
    BY <1>1, <1>2, <1>7, DueStays DEF SameRow
  <2>3. Booked(u)' = Booked(u)
    BY <1>6, <2>2 DEF Booked
  <2>4. SumFunctionOnSet(GramsOf', Booked(u)) = SumFunctionOnSet(GramsOf, Booked(u))
    BY <1>3, SumSame
  <2>5. QED
    BY <1>4, <2>1, <2>3, <2>4
<1>8. ASSUME NEW t \in Slots, NEW p \in Requests, Pays(t, p), request[p].user = u
      PROVE  debited'[u] = SumFunctionOnSet(GramsOf', Booked(u)')
  <2>1. /\ job[t].pc = "deducting" /\ job[t].r = p /\ call[t].pc = "write" /\ call[t].user = u
        /\ call[t].grams = request[p].grams /\ job' = job /\ call'[t].pc = "log"
        /\ debited'[u] = debited[u] + request[p].grams
    BY <1>0, <1>8 DEF Pays, Deduct, W!WriteDeduct, W!Goto, W!TypeOK, W!Frame, Fit, CallFits
  <2>2. Paying(t, p)
    BY <2>1 DEF Paying, CompPc
  <2>3. p \notin Undone' /\ Open(p) /\ Once(p)
    BY <1>2, <1>8 DEF Books, Order, Undone
  <2>4. ~Due(p)
    BY <2>1, <2>2, <2>3 DEF Due, Deep, Open, Once
  <2>5. Due(p)' /\ request'[p].user = u
    BY <1>1, <1>8, <2>1, <2>2 DEF Due, Deep, Paying, SameRow
  <2>6. \A r \in Requests \ {p}, s \in Slots : ~Pays(s, r)
    <3>1. ASSUME NEW s \in Slots, NEW r \in Requests, Pays(s, r) PROVE s = t
      <4>1. call'[s] # call[s]
        BY <3>1 DEF Pays, W!WriteDeduct, W!Goto, W!TypeOK, W!Frame
      <4>2. QED
        BY <1>8, <4>1, OthersStay DEF Pays, SlotStep, Others
    <3>2. QED
      BY <2>1, <3>1 DEF Pays
  <2>7. \A r \in Requests \ {p} :
           request[r].user = u => (Due(r)' <=> Due(r)) /\ request'[r].user = u
    BY <1>1, <1>2, <2>6, DueStays DEF SameRow
  <2>8. Booked(u)' = Booked(u) \cup {p} /\ p \notin Booked(u)
    BY <1>6, <2>4, <2>5, <2>7 DEF Booked
  <2> DEFINE B == Booked(u)'
  <2>9. B \ {p} = Booked(u) /\ p \in B /\ IsFiniteSet(B)
    BY <1>3, <2>8, FS_AddElement
  <2>10. GramsOf'[p] = request[p].grams /\ request[p].grams \in Int
    BY <1>0, <1>1, <1>8 DEF GramsOf, SameRow, RequestRow
  <2>11. \A r \in B : GramsOf'[r] \in Int
    BY <1>3, <2>8, <2>10
  <2> HIDE DEF B
  <2>12. SumFunctionOnSet(GramsOf', B) = GramsOf'[p] + SumFunctionOnSet(GramsOf', B \ {p})
    BY <2>9, <2>11, SumMore
  <2>13. SumFunctionOnSet(GramsOf', Booked(u)) = SumFunctionOnSet(GramsOf, Booked(u))
    BY <1>3, SumSame
  <2>14. SumFunctionOnSet(GramsOf', B \ {p}) = debited[u] /\ debited[u] \in Int
    BY <1>0, <1>4, <2>9, <2>13
  <2>15. GramsOf'[p] + debited[u] = debited[u] + request[p].grams
    BY <2>10, <2>14
  <2>16. QED
    BY <2>1, <2>12, <2>14, <2>15 DEF B
<1>9. QED
  BY <1>7, <1>8

(* Ledger and wallet tell of every sale, for every number of users,        *)
(* requests, handlers, clicks and failures.                                *)
THEOREM SalesAreBooked == Spec => []SalesBooked
<1> DEFINE Inv == Known /\ W!TypeOK /\ ChecksOK /\ Order /\ Fit /\ Logged /\ Tally /\ Books
<1>1. Init => Inv
  <2>1. Init => Logged /\ Tally
    <3> SUFFICES ASSUME Init PROVE Logged /\ Tally
      OBVIOUS
    <3>1. /\ \A u \in Users : ledger[u] = <<>>
          /\ \A r \in Requests : deductedFor[r] = 0 /\ Pending(r) = {}
      BY DEF Init, W!Init, IdleJob, Pending, Logging, Paying, CompPc
    <3>2. \A u \in Users : Len(ledger[u]) = 0
      BY <3>1
    <3>3. \A u \in Users, r \in Requests : Rows(u, r) = {}
      BY <3>2 DEF Rows
    <3>4. Logged
      <4>1. \A u \in Users : 1..Len(ledger[u]) = {}
        BY <3>2
      <4>2. QED
        BY <4>1 DEF Logged
    <3>5. Tally
      <4>1. Cardinality({}) = 0
        BY FS_EmptySet
      <4>2. ASSUME NEW u \in Users, NEW r \in Requests PROVE Tallied(u, r)
        <5>1. Cardinality(Rows(u, r)) = 0
          BY <3>3, <4>1
        <5>2. Cardinality(Pending(r)) = 0 /\ deductedFor[r] = 0
          BY <3>1, <4>1
        <5>3. QED
          BY <5>1, <5>2 DEF Tallied
      <4>3. QED
        BY <4>2 DEF Tally
    <3>6. QED
      BY <3>4, <3>5
  <2>2. QED
    BY <2>1, KnownInit, TypedInit, ChecksInit, OrderInit, FitInit, BooksInit
<1>2. Inv /\ [Next]_vars => Inv'
  BY KnownStep, WalletTyped, OrderStep, FitStep, LoggedStep, TallyStep, BooksStep
<1>3. Inv /\ W!ExactWhenSerial => SalesBooked
  <2> SUFFICES ASSUME Inv, W!ExactWhenSerial PROVE SalesBooked
    OBVIOUS
  <2>1. ASSUME NEW u \in Users \ torn, NEW r \in Requests, request[r].user = u
        PROVE  Cardinality(Rows(u, r))
                  = deductedFor[r] - Cardinality({t \in Completing(r) : call[t].pc = "log"})
    BY <2>1, PendingIs DEF Tally, Tallied
  <2>2. ASSUME NEW u \in Users \ contended,
               \A r \in Requests : request[r].user = u =>
                  Completing(r) = {} /\ r \notin (overlapped \cup broken \cup reopened)
        PROVE  wallet[u].sold = SumFunctionOnSet(GramsOf, Sold(u))
    <3>1. Calm(u)
      BY <2>2 DEF Calm, Undone
    <3>2. \A r \in Requests, t \in Slots : request[r].user = u => ~Deep(t, r)
      BY <2>2 DEF Completing, Deep, Paying, CompPc
    <3>3. Booked(u) = Sold(u)
      BY <3>2 DEF Booked, Due, Sold
    <3>4. debited[u] = SumFunctionOnSet(GramsOf, Booked(u))
      BY <3>1 DEF Books
    <3>5. wallet[u].sold = debited[u]
      BY <2>2 DEF W!ExactWhenSerial
    <3>6. QED
      BY <3>3, <3>4, <3>5
  <2>3. QED
    BY <2>1, <2>2 DEF SalesBooked
<1>4. Spec => []W!ExactWhenSerial
  <2>1. WP!WalletAssumption
    BY SellAssumption DEF SellAssumption, WP!WalletAssumption
  <2>2. W!Init => WP!Init
    BY DEF W!Init, WP!Init, W!EmptyAccount, WP!EmptyAccount, W!IdleFrame, WP!IdleFrame
  <2>3. [W!Next]_(W!vars) => [WP!Next]_(WP!vars)
    BY SameNext DEF W!vars, W!walletVars, W!historyVars, WP!vars, WP!walletVars, WP!historyVars
  <2>4. WP!ExactWhenSerial => W!ExactWhenSerial
    BY DEF WP!ExactWhenSerial, W!ExactWhenSerial
  <2>5. WP!Spec => []WP!ExactWhenSerial
    BY <2>1, WP!SerialIsExact
  <2>6. QED
    BY ImplementsWallet, <2>2, <2>3, <2>4, <2>5, PTL DEF W!Spec, WP!Spec
<1>5. QED
  BY <1>1, <1>2, <1>3, <1>4, PTL DEF Spec
=============================================================================
