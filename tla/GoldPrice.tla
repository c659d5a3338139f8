------------------------------- MODULE GoldPrice -------------------------------
(***************************************************************************)
(* The price table of the backend: administrators add prices, each with    *)
(* its change from the one before, and callers ask for the current price,  *)
(* as the app shows it.                                                    *)
(***************************************************************************)
EXTENDS Naturals, Sequences, FiniteSets

CONSTANTS
    Adders,       \* bound: additions under way at once
    Prices,       \* prices per gram, whole numbers
    Inputs,       \* bound: the prices entered: bank, buying, selling
    FirstRows,    \* the rows there are at the start
    MaxRows,      \* bound: rows
    MaxDay,       \* bound: days
    Nil           \* no row

Row == [bank : Prices, buy : Prices, sell : Prices, change : (Prices \X Prices) \cup {Nil}, day : 0..MaxDay]

(* What the constants have to be.                                          *)
GoldPriceAssumption ==
    /\ Prices \subseteq Nat \ {0} /\ MaxRows \in Nat /\ MaxDay \in Nat \ {0}
    /\ Inputs \subseteq Prices \X Prices \X Prices /\ Nil \notin Prices \cup (Prices \X Prices)
    /\ FirstRows \in Seq(Row)
    /\ \A i \in DOMAIN FirstRows :
          /\ FirstRows[i].buy <= FirstRows[i].bank /\ FirstRows[i].buy <= FirstRows[i].sell /\ FirstRows[i].day < MaxDay
          /\ FirstRows[i].change = IF i = 1 THEN Nil ELSE <<FirstRows[i].bank, FirstRows[i - 1].bank>>
          /\ \A j \in DOMAIN FirstRows : i < j => FirstRows[i].day <= FirstRows[j].day

VARIABLES
    rows,         \* the table, in the order of createdAt
    day,          \* the clock, in days
    add,          \* add[a]: an addition: the prices and the row before it
    ask,          \* getCurrentPrice under way
    shown,        \* the answer of getCurrentPrice in the app
    raced         \* history: rows added while another addition had read the one before

vars == <<rows, day, add, ask, shown, raced>>

NoAdd == [pc |-> "idle", bank |-> 1, buy |-> 1, sell |-> 1, prev |-> 0]
NoAsk == [pc |-> "idle", latest |-> 0, prev |-> 0, new |-> 0]

Init ==
    /\ rows = FirstRows /\ day = MaxDay - 1
    /\ add = [a \in Adders |-> NoAdd] /\ ask = NoAsk
    /\ shown = Nil /\ raced = {}

(* MUTANT of validatePrices: only one of the two is checked.               *)
validatePricesBuy(bank, buy, sell) == buy <= bank

validatePrices(bank, buy, sell) == buy <= bank /\ sell >= buy

(* computeChangePercent: a percentage stands for the two prices it is of.  *)
Change(current, previous) == IF previous = Nil THEN Nil ELSE <<current, previous>>

Bank(i) == IF i = 0 THEN Nil ELSE rows[i].bank

(* addPrice, after the checks of the dto: validation and the look for the  *)
(* row before; the row written does not look again.                        *)
AddStart(a, bank, buy, sell) ==
    /\ add[a].pc = "idle" /\ validatePrices(bank, buy, sell)
    /\ add' = [add EXCEPT ![a] = [pc |-> "write", bank |-> bank, buy |-> buy, sell |-> sell, prev |-> Len(rows)]]
    /\ UNCHANGED <<rows, day, ask, shown, raced>>

(* MUTANT of AddWrite: the change is that of the buying price.             *)
AddWriteBuy(a) ==
    /\ add[a].pc = "write" /\ Len(rows) < MaxRows
    /\ rows' = Append(rows, [bank |-> add[a].bank, buy |-> add[a].buy, sell |-> add[a].sell,
                             change |-> Change(add[a].buy, Bank(add[a].prev)), day |-> day])
    /\ raced' = IF add[a].prev # Len(rows) THEN raced \cup {Len(rows) + 1} ELSE raced
    /\ add' = [add EXCEPT ![a] = NoAdd]
    /\ UNCHANGED <<day, ask, shown>>

AddWrite(a) ==
    /\ add[a].pc = "write" /\ Len(rows) < MaxRows
    /\ rows' = Append(rows, [bank |-> add[a].bank, buy |-> add[a].buy, sell |-> add[a].sell,
                             change |-> Change(add[a].bank, Bank(add[a].prev)), day |-> day])
    /\ raced' = IF add[a].prev # Len(rows) THEN raced \cup {Len(rows) + 1} ELSE raced
    /\ add' = [add EXCEPT ![a] = NoAdd]
    /\ UNCHANGED <<day, ask, shown>>

NextDay ==
    /\ day < MaxDay /\ day' = day + 1
    /\ UNCHANGED <<rows, add, ask, shown, raced>>

(* getCurrentPrice: the latest and the one before it are looked for side   *)
(* by side, in either order.                                               *)
Ask ==
    /\ ask.pc = "idle" /\ ask' = [pc |-> "both", latest |-> 0, prev |-> 0, new |-> Len(rows)]
    /\ UNCHANGED <<rows, day, add, shown, raced>>

(* MUTANT of LookPrevious: it takes the latest.                            *)
LookPreviousLatest == Len(rows)

LookPrevious == IF Len(rows) = 0 THEN 0 ELSE Len(rows) - 1

Look(which) ==
    /\ ask.pc \in {"both", which}
    /\ ask' = [pc |-> IF ask.pc # "both" THEN "answer" ELSE IF which = "latest" THEN "previous" ELSE "latest",
                latest |-> IF which = "latest" THEN Len(rows) ELSE ask.latest,
                prev |-> IF which = "previous" THEN LookPrevious ELSE ask.prev, new |-> ask.new]
    /\ UNCHANGED <<rows, day, add, shown, raced>>

(* mapGoldPrice of the app takes the buying price for the price per gram.  *)
Answer ==
    /\ ask.pc = "answer" /\ ask' = NoAsk
    /\ shown' = IF ask.latest = 0 THEN Nil
                ELSE [row |-> ask.latest, bank |-> rows[ask.latest].bank, price |-> rows[ask.latest].buy,
                      change |-> Change(Bank(ask.latest), Bank(ask.prev)), quiet |-> ask.new = Len(rows)]
    /\ UNCHANGED <<rows, day, add, raced>>

AskFails ==
    /\ ask.pc # "idle" /\ ask' = NoAsk
    /\ UNCHANGED <<rows, day, add, shown, raced>>

Next ==
    \/ \E a \in Adders : AddWrite(a) \/ \E i \in Inputs : AddStart(a, i[1], i[2], i[3])
    \/ NextDay \/ Ask \/ Answer \/ AskFails
    \/ \E which \in {"latest", "previous"} : Look(which)

Spec == Init /\ [][Next]_vars
-----------------------------------------------------------------------------
(***************************************************************************)
(* Nobody buys above the bank's price or sells below the buying price, in  *)
(* any row, and the days of the rows do not go back.                       *)
(***************************************************************************)
TypeOK ==
    /\ rows \in Seq(Row) /\ day \in 0..MaxDay /\ raced \subseteq DOMAIN rows
    /\ \A i \in DOMAIN rows : rows[i].buy <= rows[i].bank /\ rows[i].buy <= rows[i].sell
    /\ \A i, j \in DOMAIN rows : i < j => rows[i].day <= rows[j].day

(***************************************************************************)
(* The change stored with a row, which the panel shows, is the change from *)
(* the row before it, and so agrees with the change the app computes from  *)
(* the two, unless two additions were under way at once.                   *)
(***************************************************************************)
StoredChangeChains ==
    \A i \in DOMAIN rows \ raced : rows[i].change = Change(Bank(i), Bank(i - 1))

(***************************************************************************)
(* The change the app shows is the one stored with the price it shows,     *)
(* when no row was added while the two rows were looked for.               *)
(***************************************************************************)
ShownChangeAgrees ==
    shown # Nil /\ shown.quiet /\ shown.row \notin raced => shown.change = rows[shown.row].change
=============================================================================
