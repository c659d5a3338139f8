------------------------------ MODULE SellList ------------------------------
(***************************************************************************)
(* The table, the cards and the pages of the sell-requests page.  Unlike   *)
(* the purchases page it gets the whole list of a status and searches and  *)
(* pages in the browser; the cards are counted by the backend, or, under a *)
(* search, from a list of its own.                                         *)
(***************************************************************************)
EXTENDS Naturals, Sequences, FiniteSets

CONSTANTS
    FirstRows,    \* the requests there are, newest first
    PageSize,     \* SELL_REQUESTS_PAGE_SIZE
    MaxChanges,   \* bound: new requests and changes of requests
    Filters,      \* the status filters and cards in use
    Nil           \* nothing got yet

Statuses == {"PENDING", "APPROVED", "COMPLETED", "CANCELLED"}
Cards == Statuses \cup {"ALL"}
Row == [status : Statuses, hit : BOOLEAN]     \* hit: what the search looks for

(* What the constants have to be.                                          *)
SellListAssumption ==
    FirstRows \in Seq(Row) /\ PageSize \in Nat \ {0} /\ MaxChanges \in Nat /\ "ALL" \in Filters /\ Filters \subseteq Cards

VARIABLES
    rows, changes,
    status, search, page,   \* filters.status, whether there is a search, page
    list,         \* list[k]: what the query of filters k last got
    stats,        \* stats[s]: the cards with and without a search
    count         \* the query of the cards under way

vars == <<rows, changes, status, search, page, list, stats, count>>

Keys == Filters \X BOOLEAN
Here == <<status, search>>
NoCount == [pc |-> "idle", search |-> FALSE, left |-> {}, cards |-> [c \in Filters |-> 0], age |-> 0]

Init ==
    /\ rows = FirstRows /\ changes = 0
    /\ status = "ALL" /\ search = FALSE /\ page = 1
    /\ list = [k \in Keys |-> Nil] /\ stats = [s \in BOOLEAN |-> Nil]
    /\ count = NoCount

(* A request comes, or an administrator moves one on.                      *)
RowsChange ==
    /\ changes < MaxChanges /\ changes' = changes + 1
    /\ \/ \E h \in BOOLEAN : rows' = <<[status |-> "PENDING", hit |-> h]>> \o rows
       \/ \E i \in DOMAIN rows, s \in Statuses \ {"PENDING"} :
            /\ rows[i].status \in {"PENDING", "APPROVED"} \ {s}
            /\ rows' = [rows EXCEPT ![i].status = s]
    /\ UNCHANGED <<status, search, page, list, stats, count>>

(* filterSellRequestsClient, for a status and a search: the rows that      *)
(* match, in the order they have.                                          *)
Matches(r, s, q) == (s = "ALL" \/ r.status = s) /\ (q => r.hit)
Matching(s, q) == {i \in DOMAIN rows : Matches(rows[i], s, q)}
InOrder(ids) == [n \in 1..Cardinality(ids) |-> CHOOSE i \in ids : Cardinality({j \in ids : j <= i}) = n]
Listed(s, q) == [n \in 1..Cardinality(Matching(s, q)) |-> rows[InOrder(Matching(s, q))[n]]]

(* MUTANT of UpdateFilter: the page stays where it is.                     *)
UpdateFilterHere(s, q) ==
    /\ <<s, q>> # Here /\ status' = s /\ search' = q
    /\ UNCHANGED <<rows, changes, page, list, stats, count>>

(* updateFilter, the cards (a second click on one clears it), clearFilters.*)
UpdateFilter(s, q) ==
    /\ <<s, q>> # Here /\ status' = s /\ search' = q /\ page' = 1
    /\ UNCHANGED <<rows, changes, list, stats, count>>

(* paginateSellRequests and Pagination.                                    *)
Total == IF list[Here] = Nil THEN 0 ELSE Len(list[Here].items)
(* MUTANT of TotalPages: a last page for what is left, even when nothing is.*)
TotalPagesMore == Total \div PageSize + 1

TotalPages == IF Total <= PageSize THEN 1 ELSE (Total + PageSize - 1) \div PageSize
Start == (page - 1) * PageSize
Shown == {n \in 1..Total : Start < n /\ n <= Start + PageSize}

Turn(p) ==
    /\ \/ p = page - 1 /\ page > 1
       \/ p = page + 1 /\ page < TotalPages
    /\ page' = p /\ UNCHANGED <<rows, changes, status, search, list, stats, count>>

(* useSellRequests: a filter's query runs when the page turns to it, and   *)
(* again after every change of the administrator's own.  An answer goes to *)
(* its own filter, so it can be taken as read when it is shown.            *)
Answered(k) ==
    /\ k = Here /\ list[k] # Nil => list[k].age < changes
    /\ list' = [list EXCEPT ![k] = [items |-> Listed(k[1], k[2]), age |-> changes]]
    /\ UNCHANGED <<rows, changes, status, search, page, stats, count>>

(* useSellRequestStats; with a search, or after a failure, the cards are   *)
(* counted from one list.                                                  *)
Ask ==
    /\ count.pc = "idle" /\ stats[search] # Nil => stats[search].age < changes
    /\ \E pc \in IF search THEN {"list"} ELSE {"count", "list"} :
         count' = [NoCount EXCEPT !.pc = pc, !.search = search, !.left = Filters, !.age = changes]
    /\ UNCHANGED <<rows, changes, status, search, page, list, stats>>

Counted(q, cards, age) ==
    count' = NoCount /\ stats' = [stats EXCEPT ![q] = [cards |-> cards, age |-> age]]

(* getSellRequestStats: five counts side by side.                          *)
CountOne(c) ==
    /\ count.pc = "count" /\ c \in count.left
    /\ LET cards == [count.cards EXCEPT ![c] = Len(Listed(c, FALSE))] IN
       IF count.left = {c} THEN Counted(FALSE, cards, count.age)
       ELSE count' = [count EXCEPT !.left = @ \ {c}, !.cards = cards] /\ UNCHANGED stats
    /\ UNCHANGED <<rows, changes, status, search, page, list>>

(* MUTANT of CountList: the list of the table's status is counted.         *)
CountListHere ==
    /\ count.pc = "list"
    /\ Counted(count.search, [c \in Filters |-> Cardinality({i \in Matching(status, count.search) :
                                                    Matches(rows[i], c, FALSE)})], changes)
    /\ UNCHANGED <<rows, changes, status, search, page, list>>

(* fetchAllSellRequests and computeSellRequestStats.                       *)
CountList ==
    /\ count.pc = "list"
    /\ Counted(count.search, [c \in Filters |-> Len(Listed(c, count.search))], changes)
    /\ UNCHANGED <<rows, changes, status, search, page, list>>

Next ==
    \/ RowsChange \/ Ask \/ CountList
    \/ \E s \in Filters, q \in BOOLEAN : UpdateFilter(s, q)
    \/ \E p \in 0..(TotalPages + 1) : Turn(p)
    \/ \E k \in Keys : Answered(k)
    \/ \E c \in Filters : CountOne(c)

Spec == Init /\ [][Next]_vars
-----------------------------------------------------------------------------
TypeOK ==
    /\ rows \in Seq(Row) /\ changes \in 0..MaxChanges
    /\ status \in Filters /\ search \in BOOLEAN /\ page \in 1..(Len(rows) + 1)
    /\ page = 1 \/ page <= Len(rows)
    /\ \A k \in Keys : list[k] # Nil => list[k].items \in Seq(Row) /\ list[k].age <= changes
    /\ count.pc \in {"idle", "count", "list"} /\ count.left \subseteq Filters

(***************************************************************************)
(* A card counts what a click on it lists: the number on each card is the  *)
(* length of the list its status brings, under the same search, whoever of *)
(* the backend and the browser has counted, when nothing changed between.  *)
(***************************************************************************)
CardCountsItsList ==
    \A c \in Filters, q \in BOOLEAN :
        stats[q] # Nil /\ list[<<c, q>>] # Nil /\ stats[q].age = changes /\ list[<<c, q>>].age = changes =>
            stats[q].cards[c] = Len(list[<<c, q>>].items)

(***************************************************************************)
(* Turning pages and changing filters never leaves the page past the end   *)
(* of its list by themselves: only a list that became shorter does.        *)
(***************************************************************************)
OnlyShorterListsStrand ==
    [][list' = list /\ list[Here] # Nil /\ page <= TotalPages => page' <= TotalPages']_vars
=============================================================================
