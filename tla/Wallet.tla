------------------------------- MODULE Wallet -------------------------------
(***************************************************************************)
(* backend/src/wallet/wallet.service.ts: the gold balance of every user.   *)
(*                                                                         *)
(* addGrams and deductGrams read the Wallet row, compute the new columns   *)
(* in JavaScript, write them back as absolute values and then insert a     *)
(* WalletTransaction row.  Each of the three is a database call of its own *)
(* (no transaction), so the calls of concurrent requests interleave        *)
(* between them and a failure leaves the earlier ones in place.            *)
(*                                                                         *)
(* Amounts are integers that count the smallest tradeable unit, half a     *)
(* gram (purchase.service.ts validatePurchaseAmount).                      *)
(***************************************************************************)
EXTENDS Integers, Sequences

CONSTANTS
    Users,     \* user ids
    Slots,     \* request handlers that can be in flight at the same time
    Refs,      \* reference ids: the purchases and sell requests
    Grams,     \* amounts the callers pass, in half grams
    Nil,       \* "no user" / "no reference" in an idle call frame
    MaxCalls   \* bound: how many wallet calls are ever started

ASSUME WalletAssumption ==
    /\ Grams \subseteq Int
    /\ Nil \notin Users
    /\ Nil \notin Refs
    /\ MaxCalls \in Nat

VARIABLES
    opened,   \* users that have a Wallet row
    wallet,   \* wallet[u]: the columns of the row
    ledger,   \* ledger[u]: the WalletTransaction rows, in order of insertion
    call,     \* call[t]: the addGrams / deductGrams call slot t is executing
    calls     \* number of calls started, for MaxCalls

(* History variables: no counterpart in the code, they record the past.    *)
VARIABLES
    credited,   \* credited[u]: total of all addGrams writes to the row
    debited,    \* debited[u]: total of all deductGrams writes to the row
    crossed,    \* users whose row a credit and a deduction held read at once
    contended,  \* users with two calls at once past their read
    torn        \* users with a write whose ledger row was never inserted

walletVars == <<opened, wallet, ledger, call, calls>>
historyVars == <<credited, debited, crossed, contended, torn>>
vars == <<walletVars, historyVars>>

Ops == {"PURCHASE", "SELL_DEDUCT"}
Account == [balance: Int, purchased: Int, sold: Int]
EmptyAccount == [balance |-> 0, purchased |-> 0, sold |-> 0]
LedgerRow == [type: Ops, grams: Int, before: Int, after: Int, ref: Refs]
CallPc == {"idle", "read", "write", "log", "done", "failed"}
Frame == [pc: CallPc, op: Ops, user: Users \cup {Nil}, grams: Int,
          ref: Refs \cup {Nil}, snap: Account]
IdleFrame == [pc |-> "idle", op |-> "PURCHASE", user |-> Nil, grams |-> 0,
              ref |-> Nil, snap |-> EmptyAccount]

(***************************************************************************)
(* Slot t has read u's row and not yet written it; slot t is past its read *)
(* of u's row and has not finished.                                        *)
(***************************************************************************)
HoldsRead(t, u) == call[t].user = u /\ call[t].pc = "write"
PastRead(t, u) == call[t].user = u /\ call[t].pc \in {"write", "log"}

Goto(t, pc) == call' = [call EXCEPT ![t].pc = pc]

(* MUTANT of BalanceAfter: deductGrams was copied from addGrams.            *)
BalanceAfterPlus(t) == call[t].snap.balance + call[t].grams

(***************************************************************************)
(* The columns a call writes, computed from its snapshot of the row and    *)
(* not from the row as it is when the write runs: addGrams writes balance  *)
(* and totalPurchased, deductGrams balance and totalSold.                  *)
(***************************************************************************)
BalanceAfter(t) ==
    IF call[t].op = "PURCHASE" THEN call[t].snap.balance + call[t].grams
                               ELSE call[t].snap.balance - call[t].grams
-----------------------------------------------------------------------------
Init ==
    /\ opened = {}
    /\ wallet = [u \in Users |-> EmptyAccount]
    /\ ledger = [u \in Users |-> <<>>]
    /\ call = [t \in Slots |-> IdleFrame]
    /\ calls = 0
    /\ credited = [u \in Users |-> 0]
    /\ debited = [u \in Users |-> 0]
    /\ crossed = {}
    /\ contended = {}
    /\ torn = {}

(* MUTANT of CreateWallet: the upsert's update clause resets the columns.   *)
CreateWalletResets(u) ==
    /\ opened' = opened \cup {u}
    /\ wallet' = [wallet EXCEPT ![u] = EmptyAccount]
    /\ UNCHANGED <<ledger, call, calls, historyVars>>

(* createWalletForUser from AuthService.register: an upsert that leaves an *)
(* existing row alone.                                                     *)
CreateWallet(u) ==
    /\ opened' = opened \cup {u}
    /\ UNCHANGED <<wallet, ledger, call, calls, historyVars>>

(* A service starts addGrams or deductGrams; amounts <= 0 are refused      *)
(* before the database is touched.                                         *)
Start(t, op, u, g, r) ==
    /\ call[t].pc = "idle"
    /\ calls < MaxCalls
    /\ g > 0
    /\ call' = [call EXCEPT ![t] =
                 [pc |-> "read", op |-> op, user |-> u, grams |-> g, ref |-> r,
                  snap |-> EmptyAccount]]
    /\ calls' = calls + 1
    /\ UNCHANGED <<opened, wallet, ledger, historyVars>>

(* MUTANT of AddGrams: the caller leaves out the optional referenceId.      *)
AddGramsUnreferenced(t, u, g, r) == Start(t, "PURCHASE", u, g, Nil)

AddGrams(t, u, g, r) == Start(t, "PURCHASE", u, g, r)
(* MUTANT of DeductGrams: the caller leaves out the optional referenceId.   *)
DeductGramsUnreferenced(t, u, g, r) == Start(t, "SELL_DEDUCT", u, g, Nil)

DeductGrams(t, u, g, r) == Start(t, "SELL_DEDUCT", u, g, r)

(* The row goes into the call's locals; record which calls overlap it.     *)
TakeSnapshot(t) ==
    LET u == call[t].user
        others == Slots \ {t}
    IN  /\ call' = [call EXCEPT ![t].pc = "write", ![t].snap = wallet[u]]
        /\ crossed' = IF \E s \in others : HoldsRead(s, u) /\ call[s].op # call[t].op
                      THEN crossed \cup {u} ELSE crossed
        /\ contended' = IF \E s \in others : PastRead(s, u)
                        THEN contended \cup {u} ELSE contended
        /\ UNCHANGED <<wallet, ledger, calls, credited, debited, torn>>

(* addGrams reads through the upsert, so a missing wallet is created.      *)
ReadForAdd(t) ==
    /\ call[t].pc = "read" /\ call[t].op = "PURCHASE"
    /\ opened' = opened \cup {call[t].user}
    /\ TakeSnapshot(t)

ReadForDeduct(t) ==
    /\ call[t].pc = "read" /\ call[t].op = "SELL_DEDUCT"
    /\ call[t].user \in opened
    /\ wallet[call[t].user].balance >= call[t].grams
    /\ UNCHANGED opened
    /\ TakeSnapshot(t)

(* WALLET_NOT_FOUND or INSUFFICIENT_BALANCE.                               *)
RefuseDeduct(t) ==
    /\ call[t].pc = "read" /\ call[t].op = "SELL_DEDUCT"
    /\ \/ call[t].user \notin opened
       \/ wallet[call[t].user].balance < call[t].grams
    /\ Goto(t, "failed")
    /\ UNCHANGED <<opened, wallet, ledger, calls, historyVars>>

WriteAdd(t) ==
    LET c == call[t] IN
    /\ c.pc = "write" /\ c.op = "PURCHASE"
    /\ wallet' = [wallet EXCEPT ![c.user] =
                   [balance |-> BalanceAfter(t),
                    purchased |-> c.snap.purchased + c.grams,
                    sold |-> @.sold]]
    /\ credited' = [credited EXCEPT ![c.user] = @ + c.grams]
    /\ Goto(t, "log")
    /\ UNCHANGED <<opened, ledger, calls, debited, crossed, contended, torn>>

(* MUTANT of WriteDeduct: decrements of the current row.                    *)
WriteDeductDecrement(t) ==
    LET c == call[t] IN
    /\ c.pc = "write" /\ c.op = "SELL_DEDUCT"
    /\ wallet' = [wallet EXCEPT ![c.user] =
                   [@ EXCEPT !.balance = @ - c.grams, !.sold = @ + c.grams]]
    /\ debited' = [debited EXCEPT ![c.user] = @ + c.grams]
    /\ Goto(t, "log")
    /\ UNCHANGED <<opened, ledger, calls, credited, crossed, contended, torn>>

(* MUTANT of WriteDeduct: totalSoldGrams is not written.                    *)
WriteDeductUnsold(t) ==
    LET c == call[t] IN
    /\ c.pc = "write" /\ c.op = "SELL_DEDUCT"
    /\ wallet' = [wallet EXCEPT ![c.user].balance = BalanceAfter(t)]
    /\ debited' = [debited EXCEPT ![c.user] = @ + c.grams]
    /\ Goto(t, "log")
    /\ UNCHANGED <<opened, ledger, calls, credited, crossed, contended, torn>>

WriteDeduct(t) ==
    LET c == call[t] IN
    /\ c.pc = "write" /\ c.op = "SELL_DEDUCT"
    /\ wallet' = [wallet EXCEPT ![c.user] =
                   [balance |-> BalanceAfter(t),
                    purchased |-> @.purchased,
                    sold |-> c.snap.sold + c.grams]]
    /\ debited' = [debited EXCEPT ![c.user] = @ + c.grams]
    /\ Goto(t, "log")
    /\ UNCHANGED <<opened, ledger, calls, credited, crossed, contended, torn>>

(* MUTANT of LogTransaction: balanceBefore read again after the update.     *)
LogTransactionReread(t) ==
    LET c == call[t] IN
    /\ c.pc = "log"
    /\ ledger' = [ledger EXCEPT ![c.user] =
                   Append(@, [type |-> c.op, grams |-> c.grams, ref |-> c.ref,
                              before |-> wallet[c.user].balance,
                              after |-> BalanceAfter(t)])]
    /\ Goto(t, "done")
    /\ UNCHANGED <<opened, wallet, calls, historyVars>>

(* walletTransaction.create, with the balances of the snapshot.            *)
LogTransaction(t) ==
    LET c == call[t] IN
    /\ c.pc = "log"
    /\ ledger' = [ledger EXCEPT ![c.user] =
                   Append(@, [type |-> c.op, grams |-> c.grams, ref |-> c.ref,
                              before |-> c.snap.balance, after |-> BalanceAfter(t)])]
    /\ Goto(t, "done")
    /\ UNCHANGED <<opened, wallet, calls, historyVars>>

(* A database call of the handler rejects.  The step it belongs to may or  *)
(* may not have been applied: failing at pc X is the call before X applied *)
(* and its answer lost, or the call at X never applied.                    *)
Fail(t) ==
    /\ call[t].pc \in {"read", "write", "log", "done"}
    /\ torn' = IF call[t].pc = "log" THEN torn \cup {call[t].user} ELSE torn
    /\ Goto(t, "failed")
    /\ UNCHANGED <<opened, wallet, ledger, calls, credited, debited, crossed, contended>>

(* The caller takes the result.                                            *)
Return(t) ==
    /\ call[t].pc \in {"done", "failed"}
    /\ call' = [call EXCEPT ![t] = IdleFrame]
    /\ UNCHANGED <<opened, wallet, ledger, calls, historyVars>>

(* The backend process dies and is restarted (restart: always): every call *)
(* in flight is gone, the database keeps what was written.                 *)
Crash ==
    /\ torn' = torn \cup {u \in Users : \E t \in Slots :
                             call[t].user = u /\ call[t].pc = "log"}
    /\ call' = [t \in Slots |-> IdleFrame]
    /\ UNCHANGED <<opened, wallet, ledger, calls, credited, debited, crossed, contended>>

(* One step of a call that is running.                                     *)
Step(t) ==
    \/ ReadForAdd(t)
    \/ ReadForDeduct(t)
    \/ RefuseDeduct(t)
    \/ WriteAdd(t)
    \/ WriteDeduct(t)
    \/ LogTransaction(t)

Next ==
    \/ \E u \in Users : CreateWallet(u)
    \/ \E t \in Slots, u \in Users, g \in Grams, r \in Refs :
           AddGrams(t, u, g, r) \/ DeductGrams(t, u, g, r)
    \/ \E t \in Slots : Step(t) \/ Fail(t) \/ Return(t)
    \/ Crash

Spec == Init /\ [][Next]_vars
-----------------------------------------------------------------------------
(* The shape of the rows and of the calls in flight.                       *)
TypeOK ==
    /\ opened \in SUBSET Users
    /\ wallet \in [Users -> Account]
    /\ ledger \in [Users -> Seq(LedgerRow)]
    /\ call \in [Slots -> Frame]
    /\ \A t \in Slots : call[t].pc # "idle" => call[t].user \in Users /\ call[t].ref \in Refs
    /\ calls \in Nat
    /\ credited \in [Users -> Int]
    /\ debited \in [Users -> Int]
    /\ crossed \in SUBSET Users
    /\ contended \in SUBSET Users
    /\ torn \in SUBSET Users

(* No balance and no total is ever negative, whatever calls interleave and *)
(* wherever they fail.  deductGrams checks the balance and writes it in    *)
(* different database calls; what saves it is that it writes the checked   *)
(* snapshot minus the amount, not a decrement of the current row.          *)
Solvent ==
    \A u \in Users : wallet[u].balance >= 0 /\ wallet[u].purchased >= 0 /\ wallet[u].sold >= 0

(* Gold never appears from nothing: overlapping calls may lose an update,  *)
(* but a balance or total never exceeds what was actually credited or      *)
(* deducted.                                                               *)
NoGoldFromNothing ==
    \A u \in Users :
        /\ wallet[u].balance <= credited[u]
        /\ wallet[u].purchased <= credited[u]
        /\ wallet[u].sold <= debited[u]

(* balanceGrams = totalPurchasedGrams - totalSoldGrams on every wallet on  *)
(* which no credit and no deduction held a read of the row together;       *)
(* credits among themselves, or deductions, may overlap freely.            *)
BalanceSheet ==
    \A u \in Users \ crossed : wallet[u].balance = wallet[u].purchased - wallet[u].sold

(* A wallet whose calls never overlapped has lost nothing: its columns are *)
(* the sums of what was credited and deducted, whatever failed or crashed. *)
ExactWhenSerial ==
    \A u \in Users \ contended :
        /\ wallet[u].purchased = credited[u]
        /\ wallet[u].sold = debited[u]
        /\ wallet[u].balance = credited[u] - debited[u]

(* The balance the ledger of u ends with.                                  *)
LedgerBalance(u) ==
    IF ledger[u] = <<>> THEN 0 ELSE ledger[u][Len(ledger[u])].after

(* The audit trail reconciles: on a wallet whose calls never overlapped    *)
(* and none of whose writes was cut off from its row, every row starts     *)
(* from the balance the row before it ended with, and the last row ends    *)
(* with the balance of the wallet as soon as no call is about to log.      *)
LedgerReconciles ==
    \A u \in Users \ (contended \cup torn) :
        /\ \A i \in 1..Len(ledger[u]) :
               ledger[u][i].before = IF i = 1 THEN 0 ELSE ledger[u][i-1].after
        /\ (\A t \in Slots : ~(call[t].user = u /\ call[t].pc = "log"))
               => wallet[u].balance = LedgerBalance(u)
=============================================================================
