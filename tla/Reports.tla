------------------------------- MODULE Reports -------------------------------
(***************************************************************************)
(* The panel's reports: how reports.service.ts turns the filters of the    *)
(* page into conditions, what each report makes of the rows they select,   *)
(* and the two reports that are put together from several queries while    *)
(* the rows change.                                                        *)
(***************************************************************************)
EXTENDS Naturals, FiniteSets, Functions

CONSTANTS
    Users, Purchases, Sells,
    Owner, Amount,      \* of a purchase or a sell request: whose, how much
    SeedRows,           \* the purchases the seed left
    AskedFilters,       \* bound: the filters the page asks with
    MaxDay, MaxChanges, \* bounds: days, changes of rows
    Nil                 \* no row, no filter, not answered yet

Levels == <<"NORMAL", "BRONZE", "SILVER", "GOLD">>
UserStatuses == {"ACTIVE", "SUSPENDED"}     \* a customer never gets the third, DELETED, from the panel
PurchaseStatuses == {"PENDING", "PAYMENT_PENDING", "COMPLETED", "CANCELLED"}
SellStatuses == {"PENDING", "APPROVED", "COMPLETED", "CANCELLED"}
Days == 1..MaxDay

LevelParts == {Levels[i] : i \in DOMAIN Levels}

(* A filter of the page: of a level, of one of the tabs' statuses, of a    *)
(* search, of the two dates; Nil where nothing is chosen.                  *)
Filter == [level : LevelParts \cup {Nil}, who : Users \cup {Nil},
           status : UserStatuses \cup PurchaseStatuses \cup SellStatuses \cup {Nil},
           from : Days \cup {Nil}, to : Days \cup {Nil}]

(* What the constants have to be.                                          *)
ReportsAssumption ==
    /\ MaxDay \in Nat \ {0} /\ MaxChanges \in Nat
    /\ IsFiniteSet(Users) /\ IsFiniteSet(Purchases) /\ IsFiniteSet(Sells)
    /\ Owner \in [Purchases \cup Sells -> Users] /\ Amount \in [Purchases \cup Sells -> Nat]
    /\ AskedFilters \subseteq Filter
    /\ Nil \notin Nat \cup Users \cup LevelParts \cup UserStatuses \cup PurchaseStatuses \cup SellStatuses
    /\ DOMAIN SeedRows \subseteq Purchases
    /\ \A p \in DOMAIN SeedRows : SeedRows[p] \in [at : {1}, paid : {Nil}, status : PurchaseStatuses,
                                                  qpay : {"PENDING", "PAID", "FAILED"}]

VARIABLES
    day,          \* today
    user,         \* user[u]: day of registration, level, status
    purchase,     \* purchase[p]: day, day of payment, status, QPay status
    sell,         \* sell[s]: day, status
    changes,
    report,       \* the report under way: which, its filters, its parts
    touched       \* history: a row changed while it was put together

vars == <<day, user, purchase, sell, changes, report, touched>>

NoUser == [at |-> Nil, level |-> "NORMAL", status |-> "ACTIVE"]
NoPurchase == [at |-> Nil, paid |-> Nil, status |-> "PENDING", qpay |-> "PENDING"]
NoSell == [at |-> Nil, status |-> "PENDING"]
NoReport == [kind |-> "none", f |-> Nil, parts |-> <<>>]

Init ==
    /\ day = 1 /\ changes = 0
    /\ user = [u \in Users |-> IF \E p \in DOMAIN SeedRows : Owner[p] = u THEN [NoUser EXCEPT !.at = 1] ELSE NoUser]
    /\ purchase = [p \in Purchases |-> IF p \in DOMAIN SeedRows THEN SeedRows[p] ELSE NoPurchase]
    /\ sell = [s \in Sells |-> NoSell]
    /\ report = NoReport /\ touched = FALSE
-----------------------------------------------------------------------------
(* The rows, as the rest of the backend changes them.                      *)
UserChanges(u) ==
    /\ IF user[u].at = Nil THEN user' = [user EXCEPT ![u].at = day]
       ELSE \/ \E i \in DOMAIN Levels : user' = [user EXCEPT ![u].level = Levels[i]]
            \/ \E s \in UserStatuses : user' = [user EXCEPT ![u].status = s]
    /\ user' # user /\ UNCHANGED <<day, purchase, sell>>

PurchaseMoved(r) ==
    IF r.at = Nil THEN {[r EXCEPT !.at = day]}
    ELSE CASE r.status = "PENDING" -> {[r EXCEPT !.status = "PAYMENT_PENDING"]}
           [] r.status = "PAYMENT_PENDING" -> {[r EXCEPT !.status = "COMPLETED", !.qpay = "PAID", !.paid = day]}
           [] r.status = "COMPLETED"       -> {[r EXCEPT !.qpay = "PENDING"]}   \* a late "unpaid" of QPay
           [] r.status = "CANCELLED"       -> {}

PurchaseChanges(p) ==
    /\ user[Owner[p]].at # Nil
    /\ \E r \in PurchaseMoved(purchase[p]) \ {purchase[p]} : purchase' = [purchase EXCEPT ![p] = r]
    /\ UNCHANGED <<day, user, sell>>

(* MUTANT of SellMoved: a request is marked as expired.                    *)
SellMovedExpired(r) == IF r.at = Nil THEN {[r EXCEPT !.at = day]} ELSE {[r EXCEPT !.status = "EXPIRED"]}

SellMoved(r) ==
    IF r.at = Nil THEN {[r EXCEPT !.at = day]}
    ELSE CASE r.status = "PENDING"  -> {[r EXCEPT !.status = s] : s \in {"APPROVED", "CANCELLED"}}
           [] r.status = "APPROVED" -> {[r EXCEPT !.status = s] : s \in {"COMPLETED", "CANCELLED"}}
           [] OTHER                 -> {}

SellChanges(s) ==
    /\ user[Owner[s]].at # Nil
    /\ \E r \in SellMoved(sell[s]) : sell' = [sell EXCEPT ![s] = r]
    /\ UNCHANGED <<day, user, purchase>>

NewDay == day < MaxDay /\ day' = day + 1 /\ UNCHANGED <<user, purchase, sell>>

RowsChange ==
    /\ changes < MaxChanges /\ changes' = changes + 1
    /\ NewDay \/ (\E u \in Users : UserChanges(u)) \/ (\E p \in Purchases : PurchaseChanges(p))
              \/ (\E s \in Sells : SellChanges(s))
    /\ touched' = (report.kind # "none") /\ UNCHANGED report
-----------------------------------------------------------------------------
(* The conditions.  A filter value that is not of the enum is ignored: the *)
(* one status of the page means a user's, a purchase's or a request's.     *)
Parsed(value, enum) == IF value \in enum THEN value ELSE Nil

(* dateRange: from midnight of the first day to the end of the last.       *)
InRange(f, d) == (f.from = Nil \/ f.from <= d) /\ (f.to = Nil \/ d <= f.to)
Ranged(f) == f.from # Nil \/ f.to # Nil

(* The fields userWhere asks for; several are wrapped in an AND.           *)
UserFields(f) ==
    (IF f.level # Nil THEN {<<"level", f.level>>} ELSE {}) \cup
    (IF Parsed(f.status, UserStatuses) # Nil THEN {<<"status", f.status>>} ELSE {}) \cup
    (IF f.who # Nil THEN {<<"who", f.who>>} ELSE {})

(* { ...userWhere, field: value }: an only field of that name is replaced. *)
And(f, field, value) ==
    IF Cardinality(UserFields(f)) = 1 THEN {c \in UserFields(f) : c[1] # field} \cup {<<field, value>>}
    ELSE UserFields(f) \cup {<<field, value>>}

Satisfies(u, conditions) ==
    \A c \in conditions : CASE c[1] = "level" -> user[u].level = c[2]
                            [] c[1] = "status" -> user[u].status = c[2]
                            [] c[1] = "who" -> u = c[2]

Registered(f) == {u \in Users : user[u].at # Nil /\ InRange(f, user[u].at)}
UsersOf(f) == {u \in Registered(f) : Satisfies(u, UserFields(f))}

(* MUTANT of UsersAnd: the dates are forgotten.                            *)
UsersAndUndated(f, field, value) == {u \in Users : user[u].at # Nil /\ Satisfies(u, And(f, field, value))}

UsersAnd(f, field, value) == {u \in Registered(f) : Satisfies(u, And(f, field, value))}

RowsOf(f, row, enum) ==
    {x \in DOMAIN row : /\ row[x].at # Nil /\ InRange(f, row[x].at)
                        /\ Parsed(f.status, enum) \in {Nil, row[x].status}
                        /\ Satisfies(Owner[x], UserFields(f))}
PurchasesOf(f) == RowsOf(f, purchase, PurchaseStatuses)
SellsOf(f) == RowsOf(f, sell, SellStatuses)

(* isPaidPurchase, isPaidPurchaseWhere.                                    *)
IsPaid(p) == purchase[p].status = "COMPLETED" \/ purchase[p].qpay = "PAID"

(* MUTANT of PaidOf: every purchase of the filters.                        *)
PaidOfAll(f) == PurchasesOf(f)

(* paidPurchaseWhere: a status filter takes the place of "paid".           *)
PaidOf(f) ==
    IF Parsed(f.status, PurchaseStatuses) # Nil THEN PurchasesOf(f)
    ELSE {p \in PurchasesOf(f) : IsPaid(p)}

Sum(ids) == SumFunctionOnSet(Amount, ids)
Balance(u) ==
    LET bought == Sum({p \in Purchases : Owner[p] = u /\ purchase[p].status = "COMPLETED"})
        sold == Sum({s \in Sells : Owner[s] = u /\ sell[s].status = "COMPLETED"})
    IN  IF sold >= bought THEN 0 ELSE bought - sold
BalanceOf(users) == SumFunctionOnSet([u \in users |-> Balance(u)], users)

(* The day a paid purchase is shown under: paidAt ?? createdAt.            *)
PaidDay(p) == IF purchase[p].paid = Nil THEN purchase[p].at ELSE purchase[p].paid

(* getPurchaseReport, getRevenueReport, getSellReport: one query each.     *)
PurchaseReport(f) ==
    [count |-> Cardinality(PurchasesOf(f)), revenue |-> Sum({p \in PurchasesOf(f) : IsPaid(p)}),
     daily |-> [d \in Days |-> Sum({p \in PurchasesOf(f) : IsPaid(p) /\ purchase[p].at = d})]]
RevenueReport(f) ==
    [revenue |-> Sum(PaidOf(f)), daily |-> [d \in Days |-> Sum({p \in PaidOf(f) : PaidDay(p) = d})]]
SellReport(f) ==
    [count |-> Cardinality(SellsOf(f)),
     completed |-> Cardinality({s \in SellsOf(f) : sell[s].status = "COMPLETED"}),
     daily |-> [d \in Days |-> Sum({s \in SellsOf(f) : sell[s].at = d})]]

(* getGoldMovementReport: whatever the status filter, of the completed.    *)
GoldReport(f) ==
    LET done == [f EXCEPT !.status = "COMPLETED"] IN
    [bought |-> Sum(PurchasesOf(done)), sold |-> Sum(SellsOf(done)),
     net |-> BalanceOf(UsersOf(f))]

(* getDashboardStats: the purchases of today.                              *)
DashboardRevenue == Sum({p \in Purchases : purchase[p].at = day /\ purchase[p].status = "COMPLETED"})

(* MUTANT of Charted: the last day is left out.                            *)
ChartedShort(f, daily) == SumFunctionOnSet(daily, {d \in Days : f.from <= d /\ d < f.to})

(* fillDateSeries: the chart has the days of the range, no other.          *)
Charted(f, daily) == SumFunctionOnSet(daily, {d \in Days : f.from <= d /\ d <= f.to})
-----------------------------------------------------------------------------
(* getUserReport: Promise.all of the first, then the levels, one by one.   *)
UserParts == {"total", "new", "active", "suspended"}
UserPart(f, part) ==
    CASE part \in {"total", "new"} -> Cardinality(UsersOf(f))
      [] part = "active" -> Cardinality(UsersAnd(f, "status", "ACTIVE"))
      [] part = "suspended" -> Cardinality(UsersAnd(f, "status", "SUSPENDED"))
      [] part \in LevelParts -> Cardinality(UsersAnd(f, "level", part))

(* getSummaryReport: Promise.all of six.  The gold of a range is what its  *)
(* completed purchases bought, without one what the wallets hold.          *)
SummaryParts == {"users", "purchases", "sells", "revenue", "gold"}
SummaryPart(f, part) ==
    CASE part = "users" -> Cardinality(UsersOf(f))
      [] part = "purchases" -> Cardinality(PurchasesOf(f))
      [] part = "sells" -> Cardinality(SellsOf(f))
      [] part = "revenue" -> Sum(PaidOf(f))
      [] part = "gold" -> IF Ranged(f) THEN Sum(PurchasesOf([f EXCEPT !.status = "COMPLETED"]) \cap
                                               {p \in Purchases : Satisfies(Owner[p], UserFields(f))})
                          ELSE BalanceOf(UsersOf(f))

Parts(kind) == IF kind = "users" THEN UserParts \cup LevelParts ELSE SummaryParts

Ask(kind, f) ==
    /\ report = NoReport
    /\ report' = [kind |-> kind, f |-> f, parts |-> [x \in Parts(kind) |-> Nil]] /\ touched' = FALSE
    /\ UNCHANGED <<day, user, purchase, sell, changes>>

(* Before a level is counted: the first four, and the levels before it.    *)
Earlier(part) ==
    IF part \in LevelParts
    THEN UserParts \cup {Levels[j] : j \in {k \in DOMAIN Levels : \E i \in DOMAIN Levels : Levels[i] = part /\ k < i}}
    ELSE {}

Query(part) ==
    /\ report.kind # "none" /\ part \in DOMAIN report.parts /\ report.parts[part] = Nil
    /\ \A x \in Earlier(part) : report.parts[x] # Nil
    /\ report' = [report EXCEPT !.parts[part] =
                     IF report.kind = "users" THEN UserPart(report.f, part) ELSE SummaryPart(report.f, part)]
    /\ UNCHANGED <<day, user, purchase, sell, changes, touched>>

Answered == report.kind # "none" /\ \A x \in DOMAIN report.parts : report.parts[x] # Nil

(* The answer is shown, or the page asks again.                            *)
Shown ==
    /\ Answered /\ report' = NoReport /\ touched' = FALSE
    /\ UNCHANGED <<day, user, purchase, sell, changes>>

Next ==
    \/ RowsChange
    \/ \E kind \in {"users", "summary"}, f \in AskedFilters : Ask(kind, f)
    \/ \E part \in UserParts \cup LevelParts \cup SummaryParts : Query(part)
    \/ Shown

Spec == Init /\ [][Next]_vars
-----------------------------------------------------------------------------
TypeOK ==
    /\ day \in Days /\ changes \in 0..MaxChanges /\ touched \in BOOLEAN
    /\ \A u \in Users : user[u].at \in 1..day \cup {Nil} /\ user[u].status \in UserStatuses
    /\ \A p \in Purchases : purchase[p].status \in PurchaseStatuses /\ purchase[p].paid \in 1..day \cup {Nil}
    /\ \A s \in Sells : sell[s].status \in SellStatuses

(***************************************************************************)
(* The revenue is computed three times, by a condition of the summary, in  *)
(* the loop of the purchase report and in the revenue report.  Without a   *)
(* status filter the three agree; the dashboard's revenue of today is      *)
(* never more than theirs.  The gold sold in a range is computed twice,    *)
(* and differs only when a customer's status is asked for.                 *)
(***************************************************************************)
TotalsAgree ==
    \A f \in {g \in AskedFilters : Parsed(g.status, PurchaseStatuses) = Nil} :
        /\ SummaryPart(f, "revenue") = RevenueReport(f).revenue
        /\ PurchaseReport(f).revenue = RevenueReport(f).revenue
        /\ (UserFields(f) = {} /\ InRange(f, day)) => DashboardRevenue <= RevenueReport(f).revenue
        /\ (Ranged(f) /\ Parsed(f.status, UserStatuses) = Nil) => SummaryPart(f, "gold") = GoldReport(f).bought

(***************************************************************************)
(* The revenue chart adds up to the revenue shown above it, as long as     *)
(* everything ordered in the range was paid for in the range: the rows are *)
(* selected by the day of the order and shown under the day of payment.    *)
(* The purchases of the purchase chart always add up.                      *)
(***************************************************************************)
ChartsAddUp ==
    \A f \in {g \in AskedFilters : g.from # Nil /\ g.to # Nil} :
        /\ (\A p \in PaidOf(f) : InRange(f, PaidDay(p)))
              => Charted(f, RevenueReport(f).daily) = RevenueReport(f).revenue
        /\ Charted(f, PurchaseReport(f).daily) = PurchaseReport(f).revenue
        /\ Charted(f, SellReport(f).daily) = Sum(SellsOf(f))

(***************************************************************************)
(* A user report is put together from counts made one after another.  If   *)
(* no row changed meanwhile, and unless the only filter is a level or a    *)
(* status, the levels add up to the total and so do the statuses.          *)
(***************************************************************************)
LevelSum(parts) == SumFunctionOnSet(parts, LevelParts)

CountsAddUp ==
    (Answered /\ report.kind = "users" /\ ~touched) =>
        LET c == report.parts IN
        /\ (UserFields(report.f) \notin {{<<"level", l>>} : l \in LevelParts}) => LevelSum(c) = c["total"]
        /\ (UserFields(report.f) \notin {{<<"status", s>>} : s \in UserStatuses}) => c["active"] + c["suspended"] = c["total"]
=============================================================================
