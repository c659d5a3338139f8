------------------------------- MODULE GoldPanel -------------------------------
(***************************************************************************)
(* The gold-price page of the panel: three queries over one price table,   *)
(* the card that shows the first of them that has something, the dialog    *)
(* filled from that card, and the chart.  Rows are only ever added, so an  *)
(* answer is the number of rows there were.                                *)
(***************************************************************************)
EXTENDS Naturals, Sequences, FiniteSets

CONSTANTS
    FirstDays,    \* the days of the rows there are, oldest first
    Limit,        \* rows the chart's query asks for: 100
    PageSize,     \* rows of the table's page: 20
    Ranges,       \* the days of the chart's filters
    MaxRows,      \* bound: rows
    MaxDay,       \* bound: days
    Nil           \* nothing got yet

Queries == {"latest", "records", "history"}

(* What the constants have to be.                                          *)
GoldPanelAssumption ==
    /\ Ranges \subseteq Nat /\ {Limit, PageSize, MaxRows, MaxDay} \subseteq Nat \ {0} /\ Nil \notin Nat
    /\ FirstDays \in Seq(0..(MaxDay - 1)) /\ Len(FirstDays) \in 1..MaxRows
    /\ \A i, j \in DOMAIN FirstDays : i < j => FirstDays[i] <= FirstDays[j]

VARIABLES
    days,         \* days[i]: createdAt of row i
    day,          \* the clock
    got,          \* got[q]: rows there were when the answer of q was read, or Nil
    get,          \* get[q]: "idle", "asked", or the answer on its way
    page, range,  \* the table's page, chartFilter
    modal,        \* the dialog: open, what fills it, whether something was typed
    put,          \* the request of the dialog
    own           \* history: own[q]: the row last announced that q was told of

vars == <<days, day, got, get, page, range, modal, put, own>>

Idle == [pc |-> "idle", n |-> 0]
Asked == [pc |-> "asked", n |-> 0]

Init ==
    /\ days = FirstDays /\ day = MaxDay - 1
    /\ got = [q \in Queries |-> Nil] /\ get = [q \in Queries |-> Asked]
    /\ page = 1 /\ range \in Ranges
    /\ modal = [open |-> FALSE, from |-> Nil, typed |-> FALSE] /\ put = "idle" /\ own = [q \in Queries |-> 0]

(* MUTANT of LatestPrice: the chart's rows are looked at first.            *)
LatestPriceRecords(g) ==
    IF g["records"] # Nil THEN <<"records", g["records"]>>
    ELSE IF g["latest"] # Nil THEN <<"latest", g["latest"]>> ELSE Nil

(* latestPrice: an object of one of the answers.  A new answer with the    *)
(* same rows keeps the same objects.                                       *)
LatestPrice(g) ==
    IF g["latest"] # Nil THEN <<"latest", g["latest"]>>
    ELSE IF g["records"] # Nil THEN <<"records", g["records"]>>
    ELSE IF page = 1 /\ g["history"] # Nil THEN <<"history", g["history"]>> ELSE Nil

(* The effect of UpdateGoldPriceModal: whenever it opens or the price      *)
(* becomes another object, the fields are filled from it.                  *)
Fill(m, current) ==
    IF m.open /\ m.from # current THEN [open |-> TRUE, from |-> current, typed |-> FALSE] ELSE m

(* A price of another administrator, or the next day.                      *)
OthersAdd ==
    /\ Len(days) < MaxRows /\ days' = Append(days, day)
    /\ UNCHANGED <<day, got, get, page, range, modal, put, own>>

NextDay ==
    /\ day < MaxDay /\ day' = day + 1
    /\ UNCHANGED <<days, got, get, page, range, modal, put, own>>

(* Refresh, or a query that is asked again because the page came back.     *)
Ask(q) ==
    /\ get[q].pc = "idle" /\ (got[q] # Nil => got[q] < Len(days))
    /\ get' = [get EXCEPT ![q] = Asked]
    /\ UNCHANGED <<days, day, got, page, range, modal, put, own>>

Read(q) ==
    /\ get[q].pc = "asked" /\ get' = [get EXCEPT ![q] = [pc |-> "answer", n |-> Len(days)]]
    /\ UNCHANGED <<days, day, got, page, range, modal, put, own>>

Answered(q) ==
    /\ get[q].pc = "answer"
    /\ got' = [got EXCEPT ![q] = get[q].n] /\ get' = [get EXCEPT ![q] = Idle]
    /\ modal' = Fill(modal, LatestPrice(got'))
    /\ UNCHANGED <<days, day, page, range, put, own>>

(* After its one retry.  What was got before stays; nothing is owed.       *)
Failed(q) ==
    /\ get[q].pc # "idle" /\ get' = [get EXCEPT ![q] = Idle] /\ own' = [own EXCEPT ![q] = 0]
    /\ UNCHANGED <<days, day, got, page, range, modal, put>>

Rows(q) == IF got[q] = Nil THEN 0 ELSE got[q]
(* MUTANT of Pages: a last page for what is left, even when nothing is.    *)
PagesMore == Rows("history") \div PageSize + 1

Pages == IF Rows("history") <= PageSize THEN 1 ELSE (Rows("history") + PageSize - 1) \div PageSize

(* The next page is a query of its own; the rows of the last stay away     *)
(* until it answers.  A first page the price came from takes it along.     *)
Turn(p) ==
    /\ p \in {page - 1, page + 1} /\ p \in 1..Pages /\ page' = p
    /\ got' = [got EXCEPT !["history"] = Nil] /\ get' = [get EXCEPT !["history"] = Asked]
    /\ ~modal.open      \* the dialog covers the page
    /\ UNCHANGED <<days, day, range, modal, put, own>>

SetRange(r) ==
    /\ r # range /\ range' = r /\ UNCHANGED <<days, day, got, get, page, modal, put, own>>

Open ==
    /\ ~modal.open /\ modal' = [open |-> TRUE, from |-> LatestPrice(got), typed |-> FALSE]
    /\ UNCHANGED <<days, day, got, get, page, range, put, own>>

Type ==
    /\ modal.open /\ modal' = [modal EXCEPT !.typed = TRUE]
    /\ UNCHANGED <<days, day, got, get, page, range, put, own>>

Close ==
    /\ modal.open /\ modal' = [modal EXCEPT !.open = FALSE]
    /\ UNCHANGED <<days, day, got, get, page, range, put, own>>

(* With prices that pass validateGoldPriceForm; nothing known and nothing  *)
(* typed leaves the fields empty.                                          *)
Submit ==
    /\ modal.open /\ put = "idle" /\ (modal.from # Nil \/ modal.typed) /\ put' = "write"
    /\ UNCHANGED <<days, day, got, get, page, range, modal, own>>

Write ==
    /\ put = "write" /\ Len(days) < MaxRows /\ days' = Append(days, day) /\ put' = "answer"
    /\ UNCHANGED <<day, got, get, page, range, modal, own>>

(* MUTANT of Invalidated: the chart's query is left out.                   *)
InvalidatedCard == {"latest", "history"}

Invalidated == {"latest", "records", "history"}

(* onSuccess: a query under way is begun again; the dialog closes.  The    *)
(* row announced is among those there are.                                 *)
Saved ==
    /\ put = "answer" /\ put' = "idle"
    /\ get' = [q \in Queries |-> IF q \in Invalidated THEN Asked ELSE get[q]]
    /\ own' = [q \in Queries |-> Len(days)]
    /\ modal' = [modal EXCEPT !.open = FALSE]
    /\ UNCHANGED <<days, day, got, page, range>>

PutFailed ==
    /\ put # "idle" /\ put' = "idle" /\ UNCHANGED <<days, day, got, get, page, range, modal, own>>

Next ==
    \/ OthersAdd \/ NextDay \/ Open \/ Type \/ Close \/ Submit \/ Write \/ Saved \/ PutFailed
    \/ \E q \in Queries : Ask(q) \/ Read(q) \/ Answered(q) \/ Failed(q)
    \/ \E p \in 1..Pages : Turn(p)
    \/ \E r \in Ranges : SetRange(r)

Spec == Init /\ [][Next]_vars
-----------------------------------------------------------------------------
InRange(n) == {i \in 1..n : days[i] + range >= day}
PageRows ==
    {i \in 1..Rows("history") : i + page * PageSize > Rows("history") /\ i + (page - 1) * PageSize <= Rows("history")}

(* MUTANT of Charted: the query asks for one row less.                     *)
ChartedLess == {i \in InRange(Rows("records")) : i + Limit > Rows("records") + 1}

(* filterPricesByChartRange over the rows of useGoldPriceRecords, or, as   *)
(* long as there are none, over the page of the table.                     *)
Charted == IF got["records"] = Nil THEN InRange(Rows("history")) \cap PageRows
           ELSE {i \in InRange(Rows("records")) : i + Limit > Rows("records")}

TypeOK ==
    /\ Len(days) <= MaxRows /\ day \in 0..MaxDay /\ page \in Nat \ {0} /\ range \in Ranges
    /\ \A q \in Queries : /\ got[q] # Nil => got[q] \in 1..Len(days)
                          /\ get[q].n \in 0..Len(days)
    /\ (page - 1) * PageSize < Len(days)

(***************************************************************************)
(* What is typed into the dialog is replaced only by the price of another  *)
(* row, once the card's own query has answered: until then the price comes *)
(* from the other queries, and the same row from another query counts.     *)
(***************************************************************************)
TypedStays ==
    [][modal.open /\ modal'.open /\ modal.typed /\ ~modal'.typed =>
         got["latest"] = Nil \/ got'["latest"] # got["latest"]]_vars

(***************************************************************************)
(* After "The rate has been updated" the card, the chart and the table all *)
(* have the new row as soon as none of them is being asked, unless one of  *)
(* the questions failed, in whatever order answers and prices come.        *)
(***************************************************************************)
OwnPriceEverywhere ==
    \A q \in Queries : get[q].pc = "idle" /\ got[q] # Nil => got[q] >= own[q]

(***************************************************************************)
(* The chart has every row of its range that its query has read, if these  *)
(* are no more than the query asks for.                                    *)
(***************************************************************************)
ChartHasItsRange ==
    got["records"] # Nil /\ Cardinality(InRange(Rows("records"))) <= Limit => Charted = InRange(Rows("records"))
=============================================================================
