---------------------------- MODULE WalletProofs ----------------------------
(* Theorems about Wallet: what holds for every set of users, requests,     *)
(* amounts and references and for any number of calls.                     *)
EXTENDS Wallet, Functions, FiniteSetTheorems, WellFoundedInduction, TLAPS

-----------------------------------------------------------------------------
(* The call frames alone: the part of TypeOK most steps disturb.           *)
CallsOK ==
    /\ call \in [Slots -> Frame]
    /\ \A t \in Slots : call[t].pc # "idle" => call[t].user \in Users /\ call[t].ref \in Refs

LEMMA GotoFrame ==
    ASSUME CallsOK, NEW t \in Slots, NEW pc \in CallPc, Goto(t, pc), call[t].pc # "idle"
    PROVE  /\ CallsOK'
           /\ call'[t] = [call[t] EXCEPT !.pc = pc]
           /\ \A s \in Slots \ {t} : call'[s] = call[s]
<1>1. [call[t] EXCEPT !.pc = pc] \in Frame
  BY DEF CallsOK, Frame, CallPc
<1>2. QED
  BY <1>1 DEF CallsOK, Goto, Frame

LEMMA TypeInit == Init => TypeOK
BY WalletAssumption
   DEF Init, TypeOK, Account, EmptyAccount, IdleFrame, Frame, CallPc, Ops

LEMMA TypeStep == TypeOK /\ [Next]_vars => TypeOK'
<1> SUFFICES ASSUME TypeOK, [Next]_vars PROVE TypeOK'
  OBVIOUS
<1>0. CallsOK
  BY DEF TypeOK, CallsOK
<1> DEFINE Rest ==
      /\ opened \in SUBSET Users
      /\ wallet \in [Users -> Account]
      /\ ledger \in [Users -> Seq(LedgerRow)]
      /\ calls \in Nat
      /\ credited \in [Users -> Int]
      /\ debited \in [Users -> Int]
      /\ crossed \in SUBSET Users
      /\ contended \in SUBSET Users
      /\ torn \in SUBSET Users
<1>00. Rest
  BY DEF TypeOK
<1>q. SUFFICES CallsOK' /\ Rest'
  BY DEF TypeOK, CallsOK
<1>1. ASSUME NEW u \in Users, CreateWallet(u) PROVE CallsOK' /\ Rest'
  BY <1>0, <1>00, <1>1 DEF CreateWallet, historyVars, CallsOK
<1>2. ASSUME NEW t \in Slots, NEW u \in Users, NEW g \in Grams, NEW r \in Refs,
             AddGrams(t, u, g, r) \/ DeductGrams(t, u, g, r)
      PROVE CallsOK' /\ Rest'
  <2>1. PICK op \in Ops : Start(t, op, u, g, r)
    BY <1>2 DEF AddGrams, DeductGrams, Ops
  <2>2. [pc |-> "read", op |-> op, user |-> u, grams |-> g, ref |-> r,
         snap |-> EmptyAccount] \in Frame
    BY WalletAssumption DEF Account, EmptyAccount, Frame, CallPc
  <2>3. CallsOK'
    BY <1>0, <2>1, <2>2 DEF Start, CallsOK
  <2>4. Rest'
    BY <1>00, <2>1, WalletAssumption DEF Start, historyVars
  <2>5. QED
    BY <2>3, <2>4
<1>3. ASSUME NEW t \in Slots, ReadForAdd(t) \/ ReadForDeduct(t)
      PROVE CallsOK' /\ Rest'
  <2>1. TakeSnapshot(t) /\ call[t].user \in Users /\ opened' \in SUBSET Users
    BY <1>0, <1>00, <1>3 DEF ReadForAdd, ReadForDeduct, CallsOK
  <2>2. [call[t] EXCEPT !.pc = "write", !.snap = wallet[call[t].user]] \in Frame
    BY <1>0, <1>00, <2>1 DEF CallsOK, Frame, CallPc
  <2>3. CallsOK'
    BY <1>0, <1>3, <2>1, <2>2 DEF TakeSnapshot, CallsOK, ReadForAdd, ReadForDeduct, Frame
  <2>4. Rest'
    BY <1>00, <2>1 DEF TakeSnapshot
  <2>5. QED
    BY <2>3, <2>4
<1>4. ASSUME NEW t \in Slots, RefuseDeduct(t) \/ Fail(t) PROVE CallsOK' /\ Rest'
  <2>1. Goto(t, "failed") /\ call[t].pc # "idle"
    BY <1>4 DEF RefuseDeduct, Fail
  <2>2. CallsOK'
    BY <1>0, <2>1, GotoFrame DEF CallPc
  <2>3. Rest'
    BY <1>0, <1>00, <1>4, <2>1 DEF RefuseDeduct, Fail, historyVars, CallsOK
  <2>4. QED
    BY <2>2, <2>3
<1>5. ASSUME NEW t \in Slots, WriteAdd(t) \/ WriteDeduct(t) PROVE CallsOK' /\ Rest'
  <2>1. Goto(t, "log") /\ call[t].pc # "idle"
    BY <1>5 DEF WriteAdd, WriteDeduct
  <2>2. CallsOK'
    BY <1>0, <2>1, GotoFrame DEF CallPc
  <2>3. BalanceAfter(t) \in Int /\ call[t].grams \in Int /\ call[t].snap \in Account
    BY <1>0 DEF CallsOK, Frame, BalanceAfter, Account
  <2>4. wallet' \in [Users -> Account]
    <3>1. wallet[call[t].user] \in Account
      BY <1>0, <1>00, <2>1 DEF CallsOK
    <3>2. CASE WriteAdd(t)
      <4>1. [balance |-> BalanceAfter(t),
             purchased |-> call[t].snap.purchased + call[t].grams,
             sold |-> wallet[call[t].user].sold] \in Account
        BY <2>3, <3>1 DEF Account
      <4>2. QED
        BY <1>00, <3>2, <4>1 DEF WriteAdd
    <3>3. CASE WriteDeduct(t)
      <4>1. [balance |-> BalanceAfter(t),
             purchased |-> wallet[call[t].user].purchased,
             sold |-> call[t].snap.sold + call[t].grams] \in Account
        BY <2>3, <3>1 DEF Account
      <4>2. QED
        BY <1>00, <3>3, <4>1 DEF WriteDeduct
    <3>4. QED
      BY <1>5, <3>2, <3>3
  <2>5. credited' \in [Users -> Int] /\ debited' \in [Users -> Int]
    BY <1>00, <1>5, <2>3 DEF WriteAdd, WriteDeduct
  <2>6. Rest'
    BY <1>00, <1>5, <2>4, <2>5 DEF WriteAdd, WriteDeduct
  <2>7. QED
    BY <2>2, <2>6
<1>6. ASSUME NEW t \in Slots, LogTransaction(t) PROVE CallsOK' /\ Rest'
  <2>1. Goto(t, "done") /\ call[t].pc # "idle"
    BY <1>6 DEF LogTransaction
  <2>2. CallsOK'
    BY <1>0, <2>1, GotoFrame DEF CallPc
  <2>3. [type |-> call[t].op, grams |-> call[t].grams, ref |-> call[t].ref,
         before |-> call[t].snap.balance, after |-> BalanceAfter(t)] \in LedgerRow
    BY <1>0, <2>1 DEF CallsOK, Frame, BalanceAfter, Account, LedgerRow
  <2>4. Rest'
    BY <1>0, <1>00, <1>6, <2>1, <2>3 DEF LogTransaction, historyVars, CallsOK
  <2>5. QED
    BY <2>2, <2>4
<1>7. ASSUME NEW t \in Slots, Return(t) PROVE CallsOK' /\ Rest'
  BY <1>0, <1>00, <1>7
     DEF Return, historyVars, CallsOK, IdleFrame, Account, EmptyAccount, Frame, CallPc, Ops
<1>8. ASSUME Crash PROVE CallsOK' /\ Rest'
  BY <1>0, <1>00, <1>8
     DEF Crash, CallsOK, IdleFrame, Account, EmptyAccount, Frame, CallPc, Ops
<1>9. ASSUME UNCHANGED vars PROVE CallsOK' /\ Rest'
  BY <1>0, <1>00, <1>9 DEF vars, walletVars, historyVars, CallsOK
<1>10. QED
  BY <1>1, <1>2, <1>3, <1>4, <1>5, <1>6, <1>7, <1>8, <1>9 DEF Next, Step

(* Every state of the specification is type correct.                       *)
THEOREM TypeCorrect == Spec => []TypeOK
BY TypeInit, TypeStep, PTL DEF Spec
-----------------------------------------------------------------------------
(***************************************************************************)
(* What a step does to the rows and to the calls that hold a read: it      *)
(* takes a snapshot, it writes, or it leaves both alone.                   *)
(***************************************************************************)
Read(t) ==
    /\ TakeSnapshot(t)
    /\ call[t].pc = "read"
    /\ call[t].op = "SELL_DEDUCT" => wallet[call[t].user].balance >= call[t].grams

Quiet ==
    /\ UNCHANGED <<wallet, credited, debited, crossed, contended>>
    /\ \A t \in Slots :
          /\ call'[t].pc \in {"write", "log"} => call'[t] = call[t]
          /\ call'[t].pc = "read" => call'[t] = call[t] \/ call'[t].grams > 0

LEMMA StepEffect ==
    ASSUME TypeOK, [Next]_vars
    PROVE  \/ Quiet
           \/ \E t \in Slots : Read(t) \/ WriteAdd(t) \/ WriteDeduct(t)
<1>0. CallsOK
  BY DEF TypeOK, CallsOK
<1>1. ASSUME NEW u \in Users, CreateWallet(u) PROVE Quiet
  BY <1>1 DEF CreateWallet, historyVars, Quiet
<1>2. ASSUME NEW t \in Slots, NEW u \in Users, NEW g \in Grams, NEW r \in Refs,
             AddGrams(t, u, g, r) \/ DeductGrams(t, u, g, r)
      PROVE Quiet
  <2>1. PICK op \in Ops : Start(t, op, u, g, r)
    BY <1>2 DEF AddGrams, DeductGrams, Ops
  <2>2. QED
    BY <1>0, <2>1 DEF Start, historyVars, Quiet, CallsOK
<1>3. ASSUME NEW t \in Slots, ReadForAdd(t) \/ ReadForDeduct(t) PROVE Read(t)
  BY <1>3 DEF ReadForAdd, ReadForDeduct, Read
<1>4. ASSUME NEW t \in Slots, RefuseDeduct(t) \/ Fail(t) \/ LogTransaction(t)
      PROVE Quiet
  <2>1. PICK pc \in {"failed", "done"} : Goto(t, pc) /\ call[t].pc # "idle"
    BY <1>4 DEF RefuseDeduct, Fail, LogTransaction
  <2>2. /\ call'[t] = [call[t] EXCEPT !.pc = pc]
        /\ \A s \in Slots \ {t} : call'[s] = call[s]
    BY <1>0, <2>1, GotoFrame DEF CallPc
  <2>3. call'[t].pc = pc
    BY <1>0, <2>2 DEF CallsOK, Frame
  <2>4. UNCHANGED <<wallet, credited, debited, crossed, contended>>
    BY <1>4 DEF RefuseDeduct, Fail, LogTransaction, historyVars
  <2>5. QED
    BY <2>2, <2>3, <2>4 DEF Quiet
<1>5. ASSUME NEW t \in Slots, Return(t) PROVE Quiet
  BY <1>0, <1>5 DEF Return, historyVars, Quiet, CallsOK, IdleFrame
<1>6. ASSUME Crash PROVE Quiet
  BY <1>0, <1>6 DEF Crash, Quiet, CallsOK, IdleFrame
<1>7. ASSUME UNCHANGED vars PROVE Quiet
  BY <1>7 DEF vars, walletVars, historyVars, Quiet
<1>8. QED
  BY <1>1, <1>2, <1>3, <1>4, <1>5, <1>6, <1>7 DEF Next, Step

(* The frame a snapshot and the frame a write leave behind.                *)
LEMMA ReadFrame ==
    ASSUME TypeOK, NEW t \in Slots, Read(t)
    PROVE  /\ call[t].user \in Users
           /\ call'[t].pc = "write"
           /\ call'[t].op = call[t].op
           /\ call'[t].user = call[t].user
           /\ call'[t].grams = call[t].grams
           /\ call'[t].snap = wallet[call[t].user]
           /\ \A s \in Slots \ {t} : call'[s] = call[s]
BY DEF TypeOK, Read, TakeSnapshot, Frame

LEMMA WriteFrame ==
    ASSUME TypeOK, NEW t \in Slots, WriteAdd(t) \/ WriteDeduct(t)
    PROVE  /\ call[t].user \in Users
           /\ call'[t].pc = "log"
           /\ call'[t].op = call[t].op
           /\ call'[t].user = call[t].user
           /\ call'[t].grams = call[t].grams
           /\ call'[t].snap = call[t].snap
           /\ \A s \in Slots \ {t} : call'[s] = call[s]
BY DEF TypeOK, WriteAdd, WriteDeduct, Goto, Frame
-----------------------------------------------------------------------------
(***************************************************************************)
(* Bounds.  A snapshot lies between zero and what was ever credited or     *)
(* deducted, and a deduction's snapshot covers its amount; both stay true  *)
(* of a stale snapshot because the totals only grow.                       *)
(***************************************************************************)
SnapshotBounded(t) ==
    LET c == call[t] IN
    /\ c.pc \in {"read", "write"} => c.grams > 0
    /\ c.pc = "write" =>
         /\ c.snap.balance >= 0   /\ c.snap.balance <= credited[c.user]
         /\ c.snap.purchased >= 0 /\ c.snap.purchased <= credited[c.user]
         /\ c.snap.sold >= 0      /\ c.snap.sold <= debited[c.user]
         /\ c.op = "SELL_DEDUCT" => c.snap.balance >= c.grams

Bounds ==
    /\ Solvent
    /\ NoGoldFromNothing
    /\ \A t \in Slots : SnapshotBounded(t)

LEMMA BoundsInit == Init => Bounds
BY DEF Init, Bounds, Solvent, NoGoldFromNothing, SnapshotBounded, EmptyAccount, IdleFrame

LEMMA BoundsStep == TypeOK /\ Bounds /\ [Next]_vars => Bounds'
<1> SUFFICES ASSUME TypeOK, Bounds, [Next]_vars PROVE Bounds'
  OBVIOUS
<1>1. CASE Quiet
  BY <1>1 DEF Quiet, Bounds, Solvent, NoGoldFromNothing, SnapshotBounded
<1>2. ASSUME NEW t \in Slots, Read(t) PROVE Bounds'
  <2>1. UNCHANGED <<wallet, credited, debited>>
    BY <1>2 DEF Read, TakeSnapshot
  <2>2. SnapshotBounded(t)'
    BY <1>2, <2>1, ReadFrame
       DEF Read, Bounds, Solvent, NoGoldFromNothing, SnapshotBounded, TypeOK, Ops, Frame
  <2>3. \A s \in Slots \ {t} : SnapshotBounded(s)'
    BY <1>2, <2>1, ReadFrame DEF Bounds, SnapshotBounded
  <2>4. QED
    BY <2>1, <2>2, <2>3 DEF Bounds, Solvent, NoGoldFromNothing
<1>3. ASSUME NEW t \in Slots, WriteAdd(t) PROVE Bounds'
  <2> DEFINE u == call[t].user
  <2>1. /\ u \in Users /\ call[t].grams \in Int /\ call[t].grams > 0
        /\ call[t].snap \in Account
    BY <1>3, WriteFrame DEF WriteAdd, Bounds, SnapshotBounded, TypeOK, Frame
  <2>2. /\ wallet'[u] = [balance |-> call[t].snap.balance + call[t].grams,
                         purchased |-> call[t].snap.purchased + call[t].grams,
                         sold |-> wallet[u].sold]
        /\ \A v \in Users \ {u} : wallet'[v] = wallet[v]
        /\ credited'[u] = credited[u] + call[t].grams
        /\ \A v \in Users \ {u} : credited'[v] = credited[v]
        /\ debited' = debited
    BY <1>3, <2>1 DEF WriteAdd, BalanceAfter, TypeOK
  <2>b. /\ SnapshotBounded(t) /\ call[t].pc = "write"
        /\ call[t].snap.balance \in Int /\ call[t].snap.purchased \in Int
        /\ call[t].snap.sold \in Int
        /\ \A v \in Users : credited[v] \in Int /\ debited[v] \in Int /\ wallet[v] \in Account
    BY <1>3, <2>1 DEF WriteAdd, Bounds, TypeOK, Account
  <2>3. Solvent' /\ NoGoldFromNothing'
    <3>1. /\ wallet'[u].balance >= 0 /\ wallet'[u].purchased >= 0 /\ wallet'[u].sold >= 0
          /\ wallet'[u].balance <= credited'[u] /\ wallet'[u].purchased <= credited'[u]
          /\ wallet'[u].sold <= debited'[u]
      BY <1>3, <2>1, <2>2, <2>b
         DEF WriteAdd, Bounds, Solvent, NoGoldFromNothing, SnapshotBounded, Account
    <3>2. QED
      BY <2>2, <3>1 DEF Bounds, Solvent, NoGoldFromNothing
  <2>4. SnapshotBounded(t)'
    BY <1>3, WriteFrame DEF SnapshotBounded
  <2>5. \A s \in Slots \ {t} : SnapshotBounded(s)'
    <3>1. \A v \in Users : credited'[v] >= credited[v] /\ debited'[v] >= debited[v]
      BY <2>1, <2>2, <2>b
    <3> TAKE s \in Slots \ {t}
    <3>2. SnapshotBounded(s) /\ call'[s] = call[s]
      BY <1>3, WriteFrame DEF Bounds
    <3>3. CASE call[s].pc = "write"
      <4>1. call[s].user \in Users /\ call[s].snap \in Account
        BY <3>3 DEF TypeOK, Frame
      <4>2. QED
        BY <2>1, <2>2, <2>b, <3>1, <3>2, <3>3, <4>1 DEF SnapshotBounded, Account
    <3>4. QED
      BY <3>2, <3>3 DEF SnapshotBounded
  <2>6. QED
    BY <2>3, <2>4, <2>5 DEF Bounds
<1>4. ASSUME NEW t \in Slots, WriteDeduct(t) PROVE Bounds'
  <2> DEFINE u == call[t].user
  <2>1. /\ u \in Users /\ call[t].grams \in Int /\ call[t].grams > 0
        /\ call[t].snap \in Account
    BY <1>4, WriteFrame DEF WriteDeduct, Bounds, SnapshotBounded, TypeOK, Frame
  <2>2. /\ wallet'[u] = [balance |-> call[t].snap.balance - call[t].grams,
                         purchased |-> wallet[u].purchased,
                         sold |-> call[t].snap.sold + call[t].grams]
        /\ \A v \in Users \ {u} : wallet'[v] = wallet[v]
        /\ debited'[u] = debited[u] + call[t].grams
        /\ \A v \in Users \ {u} : debited'[v] = debited[v]
        /\ credited' = credited
    BY <1>4, <2>1 DEF WriteDeduct, BalanceAfter, TypeOK
  <2>b. /\ SnapshotBounded(t) /\ call[t].pc = "write"
        /\ call[t].snap.balance \in Int /\ call[t].snap.purchased \in Int
        /\ call[t].snap.sold \in Int
        /\ \A v \in Users : credited[v] \in Int /\ debited[v] \in Int /\ wallet[v] \in Account
    BY <1>4, <2>1 DEF WriteDeduct, Bounds, TypeOK, Account
  <2>3. Solvent' /\ NoGoldFromNothing'
    <3>1. /\ wallet'[u].balance >= 0 /\ wallet'[u].purchased >= 0 /\ wallet'[u].sold >= 0
          /\ wallet'[u].balance <= credited'[u] /\ wallet'[u].purchased <= credited'[u]
          /\ wallet'[u].sold <= debited'[u]
      BY <1>4, <2>1, <2>2, <2>b
         DEF WriteDeduct, Bounds, Solvent, NoGoldFromNothing, SnapshotBounded, Account
    <3>2. QED
      BY <2>2, <3>1 DEF Bounds, Solvent, NoGoldFromNothing
  <2>4. SnapshotBounded(t)'
    BY <1>4, WriteFrame DEF SnapshotBounded
  <2>5. \A s \in Slots \ {t} : SnapshotBounded(s)'
    <3>1. \A v \in Users : credited'[v] >= credited[v] /\ debited'[v] >= debited[v]
      BY <2>1, <2>2, <2>b
    <3> TAKE s \in Slots \ {t}
    <3>2. SnapshotBounded(s) /\ call'[s] = call[s]
      BY <1>4, WriteFrame DEF Bounds
    <3>3. CASE call[s].pc = "write"
      <4>1. call[s].user \in Users /\ call[s].snap \in Account
        BY <3>3 DEF TypeOK, Frame
      <4>2. QED
        BY <2>1, <2>2, <2>b, <3>1, <3>2, <3>3, <4>1 DEF SnapshotBounded, Account
    <3>4. QED
      BY <3>2, <3>3 DEF SnapshotBounded
  <2>6. QED
    BY <2>3, <2>4, <2>5 DEF Bounds
<1>5. QED
  BY <1>1, <1>2, <1>3, <1>4, StepEffect

(* deductGrams never makes a balance negative, however its calls overlap,  *)
(* fail or are cut off.                                                    *)
THEOREM NeverNegative == Spec => []Solvent
<1>1. Spec => []Bounds
  BY TypeInit, TypeStep, BoundsInit, BoundsStep, PTL DEF Spec
<1>2. Bounds => Solvent
  BY DEF Bounds
<1>3. QED
  BY <1>1, <1>2, PTL

(* Overlapping addGrams and deductGrams calls never leave a user with more *)
(* gold, or higher totals, than was credited and deducted.                 *)
THEOREM NeverMinted == Spec => []NoGoldFromNothing
<1>1. Spec => []Bounds
  BY TypeInit, TypeStep, BoundsInit, BoundsStep, PTL DEF Spec
<1>2. Bounds => NoGoldFromNothing
  BY DEF Bounds
<1>3. QED
  BY <1>1, <1>2, PTL
-----------------------------------------------------------------------------
(***************************************************************************)
(* The balance sheet.  On a wallet that was never crossed the calls that   *)
(* hold a read are all credits or all deductions, so the column that their *)
(* kind does not write is still what their snapshots say.                  *)
(***************************************************************************)
SheetHolds(a) == a.balance = a.purchased - a.sold

Sheet ==
    /\ \A u \in Users \ crossed : SheetHolds(wallet[u])
    /\ \A u \in Users \ crossed, t \in Slots : HoldsRead(t, u) =>
         /\ SheetHolds(call[t].snap)
         /\ call[t].op = "PURCHASE" => call[t].snap.sold = wallet[u].sold
         /\ call[t].op = "SELL_DEDUCT" => call[t].snap.purchased = wallet[u].purchased
    /\ \A u \in Users \ crossed, s, t \in Slots :
         HoldsRead(s, u) /\ HoldsRead(t, u) => call[s].op = call[t].op

LEMMA SheetInit == Init => Sheet
BY DEF Init, Sheet, SheetHolds, HoldsRead, EmptyAccount, IdleFrame

LEMMA SheetStep == TypeOK /\ Sheet /\ [Next]_vars => Sheet'
<1> SUFFICES ASSUME TypeOK, Sheet, [Next]_vars PROVE Sheet'
  OBVIOUS
<1>1. CASE Quiet
  BY <1>1 DEF Quiet, Sheet, SheetHolds, HoldsRead
<1>2. ASSUME NEW t \in Slots, Read(t) PROVE Sheet'
  <2> DEFINE u == call[t].user
  <2>1. wallet' = wallet /\ crossed \subseteq crossed'
        /\ (u \notin crossed' => \A s \in Slots \ {t} : HoldsRead(s, u) => call[s].op = call[t].op)
    BY <1>2 DEF Read, TakeSnapshot
  <2>2. \A s \in Slots \ {t}, v \in Users : HoldsRead(s, v)' <=> HoldsRead(s, v)
    BY <1>2, ReadFrame DEF HoldsRead
  <2>3. \A v \in Users : HoldsRead(t, v)' <=> v = u
    BY <1>2, ReadFrame DEF HoldsRead
  <2>4. (\A v \in Users \ crossed : SheetHolds(wallet[v]))'
    BY <2>1 DEF Sheet
  <2>5. (\A v \in Users \ crossed, s \in Slots : HoldsRead(s, v) =>
           /\ SheetHolds(call[s].snap)
           /\ call[s].op = "PURCHASE" => call[s].snap.sold = wallet[v].sold
           /\ call[s].op = "SELL_DEDUCT" => call[s].snap.purchased = wallet[v].purchased)'
    BY <1>2, <2>1, <2>2, <2>3, ReadFrame DEF Sheet, SheetHolds
  <2>6. (\A v \in Users \ crossed, s, r \in Slots :
           HoldsRead(s, v) /\ HoldsRead(r, v) => call[s].op = call[r].op)'
    BY <1>2, <2>1, <2>2, <2>3, ReadFrame DEF Sheet
  <2>7. QED
    BY <2>4, <2>5, <2>6 DEF Sheet
<1>3. ASSUME NEW t \in Slots, WriteAdd(t) \/ WriteDeduct(t) PROVE Sheet'
  <2> DEFINE u == call[t].user
  <2>0. u \in Users /\ HoldsRead(t, u) /\ crossed' = crossed /\ call[t].op \in Ops
    BY <1>3, WriteFrame DEF WriteAdd, WriteDeduct, HoldsRead, TypeOK, Frame
  <2>1. \A s \in Slots, v \in Users :
           HoldsRead(s, v)' => s # t /\ HoldsRead(s, v) /\ call'[s] = call[s]
    BY <1>3, WriteFrame DEF HoldsRead
  <2>2. \A v \in Users \ {u} : wallet'[v] = wallet[v]
    BY <1>3 DEF WriteAdd, WriteDeduct, TypeOK
  <2>3. call[t].grams \in Int /\ call[t].snap \in Account /\ wallet[u] \in Account
    BY <2>0 DEF TypeOK, Frame
  <2>4. CASE WriteAdd(t)
    <3>1. wallet'[u] = [balance |-> call[t].snap.balance + call[t].grams,
                        purchased |-> call[t].snap.purchased + call[t].grams,
                        sold |-> wallet[u].sold]
          /\ call[t].op = "PURCHASE"
      BY <2>0, <2>4 DEF WriteAdd, BalanceAfter, TypeOK
    <3>2. u \notin crossed => SheetHolds(wallet'[u])
      BY <2>0, <2>3, <3>1 DEF Sheet, SheetHolds, Account
    <3>3. \A s \in Slots : u \notin crossed /\ HoldsRead(s, u)
                            => call[s].op = "PURCHASE" /\ call[s].snap.sold = wallet'[u].sold
      BY <2>0, <3>1 DEF Sheet
    <3>4. QED
      BY <2>0, <2>1, <2>2, <3>2, <3>3 DEF Sheet
  <2>5. CASE WriteDeduct(t)
    <3>1. wallet'[u] = [balance |-> call[t].snap.balance - call[t].grams,
                        purchased |-> wallet[u].purchased,
                        sold |-> call[t].snap.sold + call[t].grams]
          /\ call[t].op = "SELL_DEDUCT"
      BY <2>0, <2>5 DEF WriteDeduct, BalanceAfter, TypeOK
    <3>2. u \notin crossed => SheetHolds(wallet'[u])
      BY <2>0, <2>3, <3>1 DEF Sheet, SheetHolds, Account
    <3>3. \A s \in Slots : u \notin crossed /\ HoldsRead(s, u)
                            => call[s].op = "SELL_DEDUCT"
                               /\ call[s].snap.purchased = wallet'[u].purchased
      BY <2>0, <3>1 DEF Sheet
    <3>4. QED
      BY <2>0, <2>1, <2>2, <3>2, <3>3 DEF Sheet
  <2>6. QED
    BY <1>3, <2>4, <2>5
<1>4. QED
  BY <1>1, <1>2, <1>3, StepEffect

(* balance = purchased - sold on every wallet whose credits and deductions *)
(* never held a read of the row together.                                  *)
THEOREM BooksBalance == Spec => []BalanceSheet
<1>1. Spec => []Sheet
  BY TypeInit, TypeStep, SheetInit, SheetStep, PTL DEF Spec
<1>2. Sheet => BalanceSheet
  BY DEF Sheet, SheetHolds, BalanceSheet
<1>3. QED
  BY <1>1, <1>2, PTL
-----------------------------------------------------------------------------
(***************************************************************************)
(* Exactness.  On a wallet that was never contended at most one call is    *)
(* past its read, and the snapshot it is about to write is the row.        *)
(***************************************************************************)
Exact ==
    /\ ExactWhenSerial
    /\ \A u \in Users \ contended, s, t \in Slots :
          PastRead(s, u) /\ PastRead(t, u) => s = t
    /\ \A u \in Users \ contended, t \in Slots :
          HoldsRead(t, u) => call[t].snap = wallet[u]

LEMMA ExactInit == Init => Exact
BY DEF Init, Exact, ExactWhenSerial, HoldsRead, PastRead, EmptyAccount, IdleFrame

LEMMA ExactStep == TypeOK /\ Exact /\ [Next]_vars => Exact'
<1> SUFFICES ASSUME TypeOK, Exact, [Next]_vars PROVE Exact'
  OBVIOUS
<1>1. CASE Quiet
  <2>1. \A s \in Slots, u \in Users :
           /\ PastRead(s, u)' => PastRead(s, u) /\ call'[s] = call[s]
           /\ HoldsRead(s, u)' => HoldsRead(s, u) /\ call'[s] = call[s]
    BY <1>1 DEF Quiet, PastRead, HoldsRead
  <2>2. QED
    BY <1>1, <2>1 DEF Quiet, Exact, ExactWhenSerial
<1>2. ASSUME NEW t \in Slots, Read(t) PROVE Exact'
  <2> DEFINE u == call[t].user
  <2>1. /\ UNCHANGED <<wallet, credited, debited>>
        /\ contended \subseteq contended'
        /\ u \notin contended' => \A s \in Slots \ {t} : ~PastRead(s, u)
    BY <1>2 DEF Read, TakeSnapshot
  <2>2. \A s \in Slots \ {t}, v \in Users :
           /\ PastRead(s, v)' => PastRead(s, v)
           /\ HoldsRead(s, v)' => HoldsRead(s, v) /\ call'[s] = call[s]
    BY <1>2, ReadFrame DEF HoldsRead, PastRead
  <2>3. \A v \in Users : PastRead(t, v)' \/ HoldsRead(t, v)' => v = u
    BY <1>2, ReadFrame DEF HoldsRead, PastRead
  <2>4. ExactWhenSerial'
    BY <2>1 DEF Exact, ExactWhenSerial
  <2>5. (\A v \in Users \ contended, s, r \in Slots :
           PastRead(s, v) /\ PastRead(r, v) => s = r)'
    BY <2>1, <2>2, <2>3 DEF Exact
  <2>6. (\A v \in Users \ contended, s \in Slots : HoldsRead(s, v) => call[s].snap = wallet[v])'
    BY <1>2, <2>1, <2>2, <2>3, ReadFrame DEF Exact
  <2>7. QED
    BY <2>4, <2>5, <2>6 DEF Exact
<1>3. ASSUME NEW t \in Slots, WriteAdd(t) \/ WriteDeduct(t) PROVE Exact'
  <2> DEFINE u == call[t].user
  <2>0. u \in Users /\ HoldsRead(t, u) /\ PastRead(t, u) /\ contended' = contended
    BY <1>3, WriteFrame DEF WriteAdd, WriteDeduct, HoldsRead, PastRead
  <2>1. \A s \in Slots, v \in Users :
           /\ PastRead(s, v)' => PastRead(s, v)
           /\ HoldsRead(s, v)' => s # t /\ HoldsRead(s, v) /\ call'[s] = call[s]
    BY <1>3, WriteFrame DEF HoldsRead, PastRead, WriteAdd, WriteDeduct
  <2>2. \A v \in Users \ {u} : wallet'[v] = wallet[v] /\ credited'[v] = credited[v]
                                /\ debited'[v] = debited[v]
    BY <1>3 DEF WriteAdd, WriteDeduct, TypeOK
  <2>3. /\ call[t].grams \in Int /\ wallet[u] \in Account
        /\ credited[u] \in Int /\ debited[u] \in Int
    BY <2>0 DEF TypeOK, Frame
  <2>4. ASSUME u \notin contended
        PROVE  /\ wallet'[u].purchased = credited'[u]
               /\ wallet'[u].sold = debited'[u]
               /\ wallet'[u].balance = credited'[u] - debited'[u]
    <3>1. call[t].snap = wallet[u]
      BY <2>0, <2>4 DEF Exact
    <3>2. CASE WriteAdd(t)
      <4>1. /\ wallet'[u] = [balance |-> wallet[u].balance + call[t].grams,
                             purchased |-> wallet[u].purchased + call[t].grams,
                             sold |-> wallet[u].sold]
            /\ credited'[u] = credited[u] + call[t].grams
            /\ debited'[u] = debited[u]
        BY <2>0, <3>1, <3>2 DEF WriteAdd, BalanceAfter, TypeOK
      <4>2. QED
        BY <2>0, <2>3, <2>4, <4>1 DEF Exact, ExactWhenSerial, Account
    <3>3. CASE WriteDeduct(t)
      <4>1. /\ wallet'[u] = [balance |-> wallet[u].balance - call[t].grams,
                             purchased |-> wallet[u].purchased,
                             sold |-> wallet[u].sold + call[t].grams]
            /\ debited'[u] = debited[u] + call[t].grams
            /\ credited'[u] = credited[u]
        BY <2>0, <3>1, <3>3 DEF WriteDeduct, BalanceAfter, TypeOK
      <4>2. QED
        BY <2>0, <2>3, <2>4, <4>1 DEF Exact, ExactWhenSerial, Account
    <3>4. QED
      BY <1>3, <3>2, <3>3
  <2>5. ExactWhenSerial'
    BY <2>0, <2>2, <2>4 DEF Exact, ExactWhenSerial
  <2>6. \A s \in Slots : u \notin contended /\ HoldsRead(s, u) => s = t
    BY <2>0 DEF Exact, HoldsRead, PastRead
  <2>7. (\A v \in Users \ contended, s \in Slots : HoldsRead(s, v) => call[s].snap = wallet[v])'
    BY <2>0, <2>1, <2>2, <2>6 DEF Exact
  <2>8. (\A v \in Users \ contended, s, r \in Slots :
           PastRead(s, v) /\ PastRead(r, v) => s = r)'
    BY <2>0, <2>1 DEF Exact
  <2>9. QED
    BY <2>5, <2>7, <2>8 DEF Exact
<1>4. QED
  BY <1>1, <1>2, <1>3, StepEffect

(* A wallet whose calls never overlapped holds exactly what was credited   *)
(* and deducted, whatever failed or crashed between their steps.           *)
THEOREM SerialIsExact == Spec => []ExactWhenSerial
<1>1. Spec => []Exact
  BY TypeInit, TypeStep, ExactInit, ExactStep, PTL DEF Spec
<1>2. Exact => ExactWhenSerial
  BY DEF Exact
<1>3. QED
  BY <1>1, <1>2, PTL
-----------------------------------------------------------------------------
(***************************************************************************)
(* The trail of the ledger.  Between the write of a call and its row the   *)
(* ledger still ends with the balance the call started from, and the       *)
(* wallet already has the balance the row will end with.                   *)
(***************************************************************************)
Logging(t, u) == call[t].user = u /\ call[t].pc = "log"

Chained(u) ==
    \A i \in 1..Len(ledger[u]) :
        ledger[u][i].before = IF i = 1 THEN 0 ELSE ledger[u][i-1].after

Trailed(u) ==
    /\ Chained(u)
    /\ (\A t \in Slots : ~Logging(t, u)) => wallet[u].balance = LedgerBalance(u)
    /\ \A t \in Slots : Logging(t, u) =>
          call[t].snap.balance = LedgerBalance(u) /\ wallet[u].balance = BalanceAfter(t)

Trail == \A u \in Users \ (contended \cup torn) : Trailed(u)

LEMMA TrailInit == Init => Trail
<1> SUFFICES ASSUME Init, NEW u \in Users PROVE Trailed(u)
  BY DEF Trail
<1>1. ledger[u] = <<>> /\ wallet[u].balance = 0
  BY DEF Init, EmptyAccount
<1>2. Chained(u)
  <2>1. \A i \in 1..Len(<<>>) : FALSE
    OBVIOUS
  <2>2. QED
    BY <1>1, <2>1 DEF Chained
<1>3. \A t \in Slots : ~Logging(t, u)
  BY DEF Init, Logging, IdleFrame
<1>4. QED
  BY <1>1, <1>2, <1>3 DEF Trailed, LedgerBalance

(* A step that leaves the row and the ledger of a user alone, and the      *)
(* calls about to log on them, keeps the trail of that user.               *)
LEMMA TrailKept ==
    ASSUME NEW u \in Users, Trailed(u),
           ledger'[u] = ledger[u], wallet'[u] = wallet[u],
           \A t \in Slots : Logging(t, u)' <=> Logging(t, u),
           \A t \in Slots : Logging(t, u) => call'[t] = call[t]
    PROVE  Trailed(u)'
<1>1. Chained(u)'
  BY DEF Trailed, Chained
<1>2. LedgerBalance(u)' = LedgerBalance(u)
  BY DEF LedgerBalance
<1>3. (\A t \in Slots : ~Logging(t, u))' => (wallet[u].balance = LedgerBalance(u))'
  BY <1>2 DEF Trailed
<1>4. ASSUME NEW t \in Slots, Logging(t, u)'
      PROVE  (call[t].snap.balance = LedgerBalance(u) /\ wallet[u].balance = BalanceAfter(t))'
  <2>1. Logging(t, u) /\ call'[t] = call[t]
    BY <1>4
  <2>2. call[t].snap.balance = LedgerBalance(u) /\ wallet[u].balance = BalanceAfter(t)
    BY <2>1 DEF Trailed
  <2>3. QED
    BY <1>2, <2>1, <2>2 DEF BalanceAfter
<1>5. QED
  BY <1>1, <1>3, <1>4 DEF Trailed

(* A step that leaves rows, ledger and the calls about to log alone.       *)
Steady ==
    /\ UNCHANGED <<wallet, ledger>>
    /\ contended \subseteq contended' /\ torn \subseteq torn'
    /\ \A t \in Slots, u \in Users \ torn' :
          /\ Logging(t, u)' <=> Logging(t, u)
          /\ Logging(t, u) => call'[t] = call[t]

LEMMA TrailEffect ==
    ASSUME TypeOK, [Next]_vars
    PROVE  \/ Steady
           \/ \E t \in Slots : WriteAdd(t) \/ WriteDeduct(t) \/ LogTransaction(t)
<1>0. CallsOK
  BY DEF TypeOK, CallsOK
<1>1. ASSUME NEW u \in Users, CreateWallet(u) PROVE Steady
  BY <1>1 DEF CreateWallet, historyVars, Steady, Logging
<1>2. ASSUME NEW t \in Slots, NEW u \in Users, NEW g \in Grams, NEW r \in Refs,
             AddGrams(t, u, g, r) \/ DeductGrams(t, u, g, r)
      PROVE Steady
  <2>1. PICK op \in Ops : Start(t, op, u, g, r)
    BY <1>2 DEF AddGrams, DeductGrams, Ops
  <2>2. QED
    BY <1>0, <2>1 DEF Start, historyVars, Steady, Logging, CallsOK
<1>3. ASSUME NEW t \in Slots, ReadForAdd(t) \/ ReadForDeduct(t) PROVE Steady
  <2>1. Read(t) /\ UNCHANGED <<wallet, ledger, torn>> /\ contended \subseteq contended'
    BY <1>3 DEF ReadForAdd, ReadForDeduct, Read, TakeSnapshot
  <2>2. QED
    BY <2>1, ReadFrame DEF Steady, Logging, Read
<1>4. ASSUME NEW t \in Slots, RefuseDeduct(t) \/ Fail(t) PROVE Steady
  <2>1. Goto(t, "failed") /\ call[t].pc # "idle"
    BY <1>4 DEF RefuseDeduct, Fail
  <2>2. /\ call'[t] = [call[t] EXCEPT !.pc = "failed"]
        /\ \A s \in Slots \ {t} : call'[s] = call[s]
    BY <1>0, <2>1, GotoFrame DEF CallPc
  <2>3. call'[t].pc = "failed"
    BY <1>0, <2>2 DEF CallsOK, Frame
  <2>4. /\ UNCHANGED <<wallet, ledger, contended>> /\ torn \subseteq torn'
        /\ call[t].pc = "log" => call[t].user \in torn'
    BY <1>4 DEF RefuseDeduct, Fail, historyVars
  <2>5. QED
    BY <2>2, <2>3, <2>4 DEF Steady, Logging
<1>5. ASSUME NEW t \in Slots, Return(t) PROVE Steady
  BY <1>0, <1>5 DEF Return, historyVars, Steady, Logging, CallsOK, IdleFrame
<1>6. ASSUME Crash PROVE Steady
  <2>1. \A t \in Slots : call'[t].pc = "idle"
    BY <1>6 DEF Crash, IdleFrame
  <2>2. \A t \in Slots, u \in Users \ torn' : ~Logging(t, u)
    BY <1>6 DEF Crash, Logging
  <2>3. QED
    BY <1>6, <2>1, <2>2 DEF Crash, Steady, Logging
<1>7. ASSUME UNCHANGED vars PROVE Steady
  BY <1>7 DEF vars, walletVars, historyVars, Steady, Logging
<1>8. QED
  BY <1>1, <1>2, <1>3, <1>4, <1>5, <1>6, <1>7 DEF Next, Step

(* A row that starts from the end of a chain makes it longer.              *)
LEMMA AppendRow ==
    ASSUME TypeOK, NEW u \in Users, NEW row \in LedgerRow, Chained(u),
           row.before = LedgerBalance(u), ledger'[u] = Append(ledger[u], row)
    PROVE  Chained(u)' /\ LedgerBalance(u)' = row.after
<1> DEFINE n == Len(ledger[u])
<1>1. ledger[u] \in Seq(LedgerRow) /\ n \in Nat
  BY DEF TypeOK
<1>2. /\ Len(ledger'[u]) = n + 1
      /\ ledger'[u][n + 1] = row
      /\ \A i \in 1..n : ledger'[u][i] = ledger[u][i]
  BY <1>1
<1>3. ledger'[u] # <<>>
  BY <1>1, <1>2
<1>4. ASSUME NEW i \in 1..(n + 1)
      PROVE  ledger'[u][i].before = IF i = 1 THEN 0 ELSE ledger'[u][i-1].after
  <2>1. CASE i \in 1..n
    BY <1>1, <1>2, <2>1 DEF Chained
  <2>2. CASE i = n + 1 /\ n = 0
    BY <1>1, <1>2, <2>2 DEF LedgerBalance
  <2>3. CASE i = n + 1 /\ n > 0
    <3>1. ledger[u] # <<>> /\ row.before = ledger[u][n].after
      BY <1>1, <2>3 DEF LedgerBalance
    <3>2. i # 1 /\ i - 1 = n /\ n \in 1..n
      BY <1>1, <2>3
    <3>3. QED
      BY <1>2, <2>3, <3>1, <3>2
  <2>4. QED
    BY <1>1, <2>1, <2>2, <2>3
<1>5. QED
  BY <1>2, <1>3, <1>4 DEF Chained, LedgerBalance

LEMMA TrailStep == TypeOK /\ Exact /\ Trail /\ [Next]_vars => Trail'
<1> SUFFICES ASSUME TypeOK, Exact, Trail, [Next]_vars PROVE Trail'
  OBVIOUS
<1>1. CASE Steady
  <2> SUFFICES ASSUME NEW u \in Users \ (contended' \cup torn') PROVE Trailed(u)'
    BY DEF Trail
  <2>1. Trailed(u)
    BY <1>1 DEF Steady, Trail
  <2>2. ledger' = ledger /\ wallet' = wallet
    BY <1>1 DEF Steady
  <2>3. \A t \in Slots : /\ Logging(t, u)' <=> Logging(t, u)
                         /\ Logging(t, u) => call'[t] = call[t]
    BY <1>1 DEF Steady
  <2>4. QED
    BY <2>1, <2>2, <2>3, TrailKept
<1>2. ASSUME NEW t \in Slots, WriteAdd(t) \/ WriteDeduct(t) PROVE Trail'
  <2>0. PICK u \in Users : u = call[t].user
    BY <1>2, WriteFrame
  <2>1. /\ HoldsRead(t, u) /\ PastRead(t, u)
        /\ UNCHANGED <<ledger, contended, torn>>
    BY <1>2, <2>0 DEF WriteAdd, WriteDeduct, HoldsRead, PastRead
  <2>2. /\ \A v \in Users \ {u} : wallet'[v] = wallet[v]
        /\ wallet'[u].balance = BalanceAfter(t) /\ BalanceAfter(t)' = BalanceAfter(t)
    <3>1. BalanceAfter(t)' = BalanceAfter(t)
      BY <1>2, WriteFrame DEF BalanceAfter
    <3>2. CASE WriteAdd(t)
      BY <2>0, <3>1, <3>2 DEF WriteAdd, TypeOK
    <3>3. CASE WriteDeduct(t)
      BY <2>0, <3>1, <3>3 DEF WriteDeduct, TypeOK
    <3>4. QED
      BY <1>2, <3>2, <3>3
  <2>3. /\ call'[t].snap = call[t].snap /\ Logging(t, u)'
        /\ \A s \in Slots \ {t} : call'[s] = call[s]
        /\ \A v \in Users : v # u => ~Logging(t, v) /\ ~Logging(t, v)'
    BY <1>2, <2>0, WriteFrame DEF WriteAdd, WriteDeduct, Logging
  <2>4. ASSUME NEW v \in Users \ (contended \cup torn), v # u PROVE Trailed(v)'
    <3>1. \A s \in Slots : (Logging(s, v)' <=> Logging(s, v))
                          /\ (Logging(s, v) => call'[s] = call[s])
      BY <2>3, <2>4 DEF Logging
    <3>2. Trailed(v) /\ ledger'[v] = ledger[v] /\ wallet'[v] = wallet[v]
      BY <2>1, <2>2, <2>4 DEF Trail
    <3>3. QED
      BY <3>1, <3>2, TrailKept
  <2>5. ASSUME u \notin contended \cup torn PROVE Trailed(u)'
    <3>1. Trailed(u) /\ Chained(u)' /\ LedgerBalance(u)' = LedgerBalance(u)
      <4>1. Trailed(u) /\ ledger' = ledger
        BY <2>1, <2>5 DEF Trail
      <4>2. Chained(u)'
        BY <4>1 DEF Trailed, Chained
      <4>3. QED
        BY <4>1, <4>2 DEF LedgerBalance
    <3>2. \A s \in Slots \ {t} : ~Logging(s, u)
      BY <2>1, <2>5 DEF Exact, PastRead, Logging
    <3>3. ~Logging(t, u)
      BY <2>1 DEF HoldsRead, Logging
    <3>4. call[t].snap = wallet[u] /\ wallet[u].balance = LedgerBalance(u)
      BY <2>1, <2>5, <3>1, <3>2, <3>3 DEF Exact, Trailed
    <3>5. \A s \in Slots : Logging(s, u)' => s = t
      BY <2>3, <3>2 DEF Logging
    <3>6. (call[t].snap.balance = LedgerBalance(u) /\ wallet[u].balance = BalanceAfter(t))'
      BY <2>2, <2>3, <3>1, <3>4
    <3>7. QED
      BY <2>3, <3>1, <3>5, <3>6 DEF Trailed
  <2>6. QED
    BY <2>1, <2>4, <2>5 DEF Trail
<1>3. ASSUME NEW t \in Slots, LogTransaction(t) PROVE Trail'
  <2> DEFINE row == [type |-> call[t].op, grams |-> call[t].grams, ref |-> call[t].ref,
                     before |-> call[t].snap.balance, after |-> BalanceAfter(t)]
  <2>0. PICK u \in Users : u = call[t].user
    BY <1>3 DEF LogTransaction, TypeOK
  <2>1. /\ Logging(t, u) /\ PastRead(t, u)
        /\ UNCHANGED <<wallet, contended, torn>>
    BY <1>3, <2>0 DEF LogTransaction, Logging, PastRead, historyVars
  <2>2. row \in LedgerRow
    BY <1>3 DEF LogTransaction, TypeOK, Frame, Account, LedgerRow, BalanceAfter
  <2>3. /\ ledger'[u] = Append(ledger[u], row)
        /\ \A v \in Users \ {u} : ledger'[v] = ledger[v]
    BY <1>3, <2>0 DEF LogTransaction, TypeOK
  <2>4. CallsOK /\ call[t].pc # "idle" /\ Goto(t, "done")
    BY <1>3 DEF LogTransaction, TypeOK, CallsOK
  <2>5. /\ call'[t].pc = "done"
        /\ \A s \in Slots \ {t} : call'[s] = call[s]
    BY <2>4, GotoFrame DEF CallsOK, CallPc, Frame
  <2>6. ASSUME NEW v \in Users \ (contended \cup torn), v # u PROVE Trailed(v)'
    <3>1. \A s \in Slots : (Logging(s, v)' <=> Logging(s, v))
                          /\ (Logging(s, v) => call'[s] = call[s])
      BY <2>1, <2>5, <2>6 DEF Logging
    <3>2. Trailed(v) /\ ledger'[v] = ledger[v] /\ wallet'[v] = wallet[v]
      BY <2>1, <2>3, <2>6 DEF Trail
    <3>3. QED
      BY <3>1, <3>2, TrailKept
  <2>7. ASSUME u \notin contended \cup torn PROVE Trailed(u)'
    <3>1. Trailed(u)
      BY <2>1, <2>7 DEF Trail
    <3>2. Chained(u)' /\ LedgerBalance(u)' = BalanceAfter(t)
      <4>1. Chained(u) /\ row.before = LedgerBalance(u)
        BY <2>1, <3>1 DEF Trailed
      <4>2. Chained(u)' /\ LedgerBalance(u)' = row.after
        BY <2>1, <2>2, <2>3, <4>1, AppendRow
      <4>3. QED
        BY <4>2
    <3>3. \A s \in Slots : ~Logging(s, u)'
      BY <2>1, <2>5, <2>7 DEF Exact, PastRead, Logging
    <3>4. wallet'[u].balance = BalanceAfter(t)
      BY <2>1, <3>1 DEF Trailed
    <3>5. QED
      BY <3>2, <3>3, <3>4 DEF Trailed
  <2>8. QED
    BY <2>1, <2>6, <2>7 DEF Trail
<1>4. QED
  BY <1>1, <1>2, <1>3, TrailEffect

(* The ledger of a wallet whose calls never overlapped and whose writes    *)
(* all got their row explains its balance row by row.                      *)
THEOREM LedgerExplains == Spec => []LedgerReconciles
<1>1. Spec => []Trail
  BY TypeInit, TypeStep, ExactInit, ExactStep, TrailInit, TrailStep, PTL DEF Spec
<1>2. Trail => LedgerReconciles
  BY DEF Trail, Trailed, Chained, Logging, LedgerReconciles
<1>3. QED
  BY <1>1, <1>2, PTL
-----------------------------------------------------------------------------
(***************************************************************************)
(* Sums over finite sets, for the books of the handlers: what              *)
(* SumFunctionOnSet adds up does not depend on the order.  Each fact is    *)
(* shown of a least set, by size, of which it would be false.              *)
(***************************************************************************)
First(s) == CHOOSE x \in s : TRUE

(* g is, or at least obeys, the recursion that adds up f over the subsets  *)
(* of T.                                                                   *)
Sums(g, f, T) == \A s \in SUBSET T : g[s] = IF s = {} THEN 0 ELSE f[First(s)] + g[s \ {First(s)}]

IsSum(g, f, T) == g = [s \in SUBSET T |-> IF s = {} THEN 0 ELSE f[First(s)] + g[s \ {First(s)}]]

(* A set of numbers without a least member is empty.                       *)
LEMMA LeastNumber ==
    ASSUME NEW B \in SUBSET Nat, B # {}
    PROVE  \E n \in B : \A m \in B : n <= m
<1>1. PICK n \in B : \A m \in B : ~(<<m, n>> \in OpToRel(<, Nat))
  BY WFMin, NatLessThanWellFounded
<1>2. \A m \in B : ~(m < n)
  BY <1>1 DEF OpToRel
<1>3. QED
  BY <1>2

LEMMA FirstIn == ASSUME NEW s, s # {} PROVE First(s) \in s
BY DEF First

LEMMA Smaller ==
    ASSUME NEW s, IsFiniteSet(s), NEW x \in s
    PROVE  /\ IsFiniteSet(s \ {x}) /\ Cardinality(s) \in Nat /\ Cardinality(s \ {x}) \in Nat
           /\ Cardinality(s \ {x}) = Cardinality(s) - 1
BY FS_RemoveElement, FS_CardinalityType

LEMMA SumsExist ==
    ASSUME NEW f, NEW T, IsFiniteSet(T)
    PROVE  \E g : IsSum(g, f, T)
<1> DEFINE Body(g, s) == IF s = {} THEN 0 ELSE f[First(s)] + g[s \ {First(s)}]
           UpTo(g, n) == /\ DOMAIN g = SUBSET T /\ g = [s \in SUBSET T |-> g[s]]
                         /\ \A s \in SUBSET T : Cardinality(s) <= n => g[s] = Body(g, s)
           B == {n \in Nat : ~\E g : UpTo(g, n)}
<1>1. \A s \in SUBSET T : IsFiniteSet(s) /\ Cardinality(s) \in Nat /\ Cardinality(s) <= Cardinality(T)
  BY FS_Subset, FS_CardinalityType
<1>2. B = {}
  <2>1. SUFFICES ASSUME B # {} PROVE FALSE
    OBVIOUS
  <2>2. PICK n \in B : \A m \in B : n <= m
    BY <2>1, LeastNumber
  <2>3. n \in Nat
    OBVIOUS
  <2>4. CASE n = 0
    <3> DEFINE z == [s \in SUBSET T |-> 0]
    <3>1. \A s \in SUBSET T : Cardinality(s) <= 0 => s = {}
      BY <1>1, FS_EmptySet
    <3>2. UpTo(z, 0)
      BY <3>1
    <3>3. QED
      BY <2>4, <3>2
  <2>5. CASE n # 0
    <3>1. n - 1 \in Nat /\ ~(n <= n - 1)
      BY <2>3, <2>5
    <3>2. PICK g : UpTo(g, n - 1)
      BY <2>2, <3>1
    <3> DEFINE h == [s \in SUBSET T |-> Body(g, s)]
    <3>3. ASSUME NEW s \in SUBSET T, Cardinality(s) <= n PROVE h[s] = Body(h, s)
      <4>1. CASE s = {}
        BY <4>1
      <4>2. CASE s # {}
        <5>1. First(s) \in s
          BY <4>2, FirstIn
        <5>2. s \ {First(s)} \in SUBSET T /\ Cardinality(s \ {First(s)}) <= n - 1
          BY <1>1, <2>3, <3>3, <5>1, Smaller
        <5>3. g[s \ {First(s)}] = Body(g, s \ {First(s)})
          BY <3>2, <5>2
        <5>4. h[s \ {First(s)}] = g[s \ {First(s)}]
          BY <5>2, <5>3
        <5>5. QED
          BY <4>2, <5>4
      <4>3. QED
        BY <4>1, <4>2
    <3>4. UpTo(h, n)
      BY <3>3
    <3>5. QED
      BY <3>4
  <2>6. QED
    BY <2>4, <2>5
<1>3. PICK g : UpTo(g, Cardinality(T))
  BY <1>1, <1>2, FS_CardinalityType
<1>4. \A s \in SUBSET T : g[s] = Body(g, s)
  BY <1>1, <1>3
<1>5. IsSum(g, f, T)
  BY <1>3, <1>4 DEF IsSum
<1>6. QED
  BY <1>5

LEMMA SumIs ==
    ASSUME NEW f, NEW T, IsFiniteSet(T)
    PROVE  \E g : Sums(g, f, T) /\ SumFunctionOnSet(f, T) = g[T]
<1>1. SumFunctionOnSet(f, T) = (CHOOSE g : IsSum(g, f, T))[T]
  BY DEF SumFunctionOnSet, FoldFunctionOnSet, MapThenFoldSet, First, IsSum
<1>2. PICK g : IsSum(g, f, T) /\ g = CHOOSE h : IsSum(h, f, T)
  BY SumsExist
<1>3. Sums(g, f, T)
  BY <1>2 DEF Sums, IsSum
<1>4. QED
  BY <1>1, <1>2, <1>3

(* Two sums agree on every set both know if their summands agree on it.    *)
LEMMA SumsAgree ==
    ASSUME NEW f, NEW e, NEW T, NEW U, NEW g, NEW h, Sums(g, f, T), Sums(h, e, U),
           NEW S, S \in SUBSET T, S \in SUBSET U, IsFiniteSet(S), \A x \in S : f[x] = e[x]
    PROVE  g[S] = h[S]
<1> DEFINE B == {n \in Nat : \E s \in SUBSET S : Cardinality(s) = n /\ g[s] # h[s]}
<1>1. \A s \in SUBSET S : IsFiniteSet(s) /\ Cardinality(s) \in Nat
  BY FS_Subset, FS_CardinalityType
<1>2. B = {}
  <2>1. SUFFICES ASSUME B # {} PROVE FALSE
    OBVIOUS
  <2>2. PICK n \in B : \A m \in B : n <= m
    BY <2>1, LeastNumber
  <2>3. PICK s \in SUBSET S : Cardinality(s) = n /\ g[s] # h[s]
    OBVIOUS
  <2>4. s # {}
    BY <2>3 DEF Sums
  <2>5. First(s) \in s
    BY <2>4, FirstIn
  <2> DEFINE r == s \ {First(s)}
  <2>6. r \in SUBSET S /\ Cardinality(r) \in Nat /\ Cardinality(r) = n - 1
    BY <1>1, <2>3, <2>5, Smaller
  <2>7. n - 1 \notin B
    BY <2>2, <2>6
  <2>8. g[r] = h[r]
    BY <2>6, <2>7
  <2>9. g[s] = f[First(s)] + g[r] /\ h[s] = e[First(s)] + h[r]
    BY <2>4 DEF Sums
  <2>10. QED
    BY <2>3, <2>5, <2>8, <2>9
<1>3. QED
  BY <1>1, <1>2

(* Sums of integers are integers, whatever is added last.                  *)
LEMMA SumsType ==
    ASSUME NEW f, NEW T, IsFiniteSet(T), NEW g, Sums(g, f, T), \A x \in T : f[x] \in Int
    PROVE  \A s \in SUBSET T : g[s] \in Int
<1> DEFINE B == {n \in Nat : \E s \in SUBSET T : Cardinality(s) = n /\ g[s] \notin Int}
<1>1. \A s \in SUBSET T : IsFiniteSet(s) /\ Cardinality(s) \in Nat
  BY FS_Subset, FS_CardinalityType
<1>2. B = {}
  <2>1. SUFFICES ASSUME B # {} PROVE FALSE
    OBVIOUS
  <2>2. PICK n \in B : \A m \in B : n <= m
    BY <2>1, LeastNumber
  <2>3. PICK s \in SUBSET T : Cardinality(s) = n /\ g[s] \notin Int
    OBVIOUS
  <2>4. s # {}
    <3>1. g[{}] = 0
      BY DEF Sums
    <3>2. QED
      BY <2>3, <3>1
  <2>5. First(s) \in s
    BY <2>4, FirstIn
  <2> DEFINE r == s \ {First(s)}
  <2>6. r \in SUBSET T /\ Cardinality(r) \in Nat /\ Cardinality(r) = n - 1 /\ n \in Nat
    BY <1>1, <2>3, <2>5, Smaller
  <2>7. ~(n <= n - 1)
    BY <2>6
  <2>8. g[r] \in Int
    BY <2>2, <2>6, <2>7
  <2>9. g[s] = f[First(s)] + g[r]
    BY <2>4 DEF Sums
  <2>10. QED
    BY <2>3, <2>5, <2>8, <2>9
<1>3. QED
  BY <1>1, <1>2

LEMMA SumsLast ==
    ASSUME NEW f, NEW T, IsFiniteSet(T), NEW g, Sums(g, f, T), \A x \in T : f[x] \in Int
    PROVE  \A s \in SUBSET T : \A x \in s : g[s] = f[x] + g[s \ {x}]
<1> DEFINE Good(s) == \A x \in s : g[s] = f[x] + g[s \ {x}]
           B == {n \in Nat : \E s \in SUBSET T : Cardinality(s) = n /\ ~Good(s)}
<1>1. \A s \in SUBSET T : IsFiniteSet(s) /\ Cardinality(s) \in Nat /\ g[s] \in Int
  BY FS_Subset, FS_CardinalityType, SumsType
<1>2. B = {}
  <2>1. SUFFICES ASSUME B # {} PROVE FALSE
    OBVIOUS
  <2>2. PICK n \in B : \A m \in B : n <= m
    BY <2>1, LeastNumber
  <2>3. PICK s \in SUBSET T : Cardinality(s) = n /\ ~Good(s)
    OBVIOUS
  <2>4. ASSUME NEW r \in SUBSET T, Cardinality(r) = n - 1 PROVE Good(r)
    <3>1. n - 1 \in Nat /\ ~(n <= n - 1)
      BY <1>1, <2>4
    <3>2. QED
      BY <2>2, <2>4, <3>1
  <2> HIDE DEF B
  <2> DEFINE c == First(s)
  <2>5. c \in s
    BY <2>3, FirstIn
  <2> HIDE DEF c
  <2>6. \A x \in s : s \ {x} \in SUBSET T /\ Cardinality(s \ {x}) = n - 1
    BY <1>1, <2>3, Smaller
  <2>7. g[s] = f[c] + g[s \ {c}]
    BY <2>5 DEF Sums, c
  <2>8. \A x \in s : Good(s \ {x})
    BY <2>4, <2>6
  <2>9. ASSUME NEW x \in s, x # c PROVE g[s] = f[x] + g[s \ {x}]
    <3> DEFINE r == (s \ {c}) \ {x}
    <3>1. x \in s \ {c} /\ c \in s \ {x} /\ r = (s \ {x}) \ {c}
      BY <2>5, <2>9
    <3>2. g[s \ {c}] = f[x] + g[r]
      BY <2>5, <2>8, <3>1
    <3>3. g[s \ {x}] = f[c] + g[r]
      BY <2>8, <3>1
    <3>4. g[r] \in Int /\ f[x] \in Int /\ f[c] \in Int
      BY <1>1, <2>5
    <3> HIDE DEF r
    <3>5. QED
      BY <2>7, <3>2, <3>3, <3>4
  <2>10. QED
    BY <2>3, <2>7, <2>9
<1>3. QED
  BY <1>1, <1>2

(* What a sum over a finite set is: nothing over no elements, a summand    *)
(* more over one element more, and the same for summands that agree.       *)
LEMMA SumNothing == ASSUME NEW f PROVE SumFunctionOnSet(f, {}) = 0
BY SumIs, FS_EmptySet DEF Sums

LEMMA SumMore ==
    ASSUME NEW f, NEW S, IsFiniteSet(S), \A x \in S : f[x] \in Int, NEW x \in S
    PROVE  /\ SumFunctionOnSet(f, S) = f[x] + SumFunctionOnSet(f, S \ {x})
           /\ SumFunctionOnSet(f, S) \in Int
<1>1. PICK g : Sums(g, f, S) /\ SumFunctionOnSet(f, S) = g[S]
  BY SumIs
<1>2. IsFiniteSet(S \ {x}) /\ S \ {x} \in SUBSET S
  BY FS_RemoveElement
<1>3. PICK h : Sums(h, f, S \ {x}) /\ SumFunctionOnSet(f, S \ {x}) = h[S \ {x}]
  BY <1>2, SumIs
<1>4. g[S \ {x}] = h[S \ {x}]
  BY <1>1, <1>2, <1>3, SumsAgree
<1>5. g[S] \in Int /\ g[S] = f[x] + g[S \ {x}]
  BY <1>1, SumsType, SumsLast
<1>6. QED
  BY <1>1, <1>3, <1>4, <1>5

LEMMA SumSame ==
    ASSUME NEW f, NEW e, NEW S, IsFiniteSet(S), \A x \in S : f[x] = e[x]
    PROVE  SumFunctionOnSet(f, S) = SumFunctionOnSet(e, S)
<1>1. PICK g : Sums(g, f, S) /\ SumFunctionOnSet(f, S) = g[S]
  BY SumIs
<1>2. PICK h : Sums(h, e, S) /\ SumFunctionOnSet(e, S) = h[S]
  BY SumIs
<1>3. QED
  BY <1>1, <1>2, SumsAgree
=============================================================================
