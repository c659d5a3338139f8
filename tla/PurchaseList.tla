---------------------------- MODULE PurchaseList ----------------------------
(***************************************************************************)
(* The table of the panel's purchases page: page.tsx with usePurchases and *)
(* getPurchases of admin-purchases.controller.ts.                          *)
(*                                                                         *)
(* Every pair of a filter and a page is a query with an answer of its own, *)
(* kept while the page is open.  PAID and IN_PROGRESS are not filters of   *)
(* the API: their rows are picked from one page of all the rows.           *)
(***************************************************************************)
EXTENDS PurchaseRows

CONSTANTS
    Filters,      \* values of the status filter; ALL: none
    PageSize,     \* PURCHASES_PAGE_SIZE
    MaxPage,      \* bound: pages turned to
    Nil           \* "no answer"

(* What the constants have to be; Filters: those of the page's select.     *)
ListAssumption ==
    /\ RowsAssumption /\ {PageSize, MaxPage} \subseteq Nat \ {0}
    /\ "ALL" \in Filters
    /\ Filters \subseteq {"ALL", "PENDING", "CONTRACT_SIGNED", "WAITING_PAYMENT", "PAID", "COMPLETED", "CANCELLED",
                         "IN_PROGRESS"}

VARIABLES
    filter, page, \* what the page is at
    cache,        \* cache[k]: the last answer of query k: items, total, age
    asked         \* asked[k]: the answer on its way to k

ui == <<filter, page>>
vars == <<rows, changes, ui, cache, asked>>

Keys == Filters \X (1..MaxPage)
Here == <<filter, page>>
NoAnswer == [pc |-> "idle", items |-> <<>>, total |-> 0, age |-> 0]

Init ==
    /\ RowsInit
    /\ filter = "ALL" /\ page = 1
    /\ cache = [k \in Keys |-> Nil] /\ asked = [k \in Keys |-> NoAnswer]

(* A query is asked when the page comes to it, and again on Retry.         *)
Asks(k) == asked' = [asked EXCEPT ![k].pc = IF @ = "idle" THEN "find" ELSE @]

Open == /\ cache[Here] = Nil /\ Asks(Here)
        /\ UNCHANGED <<rows, changes, ui, cache>>

(* MUTANT of UpdateFilter: the page number stays.                          *)
UpdateFilterHere(f) ==
    /\ f # filter /\ filter' = f
    /\ Asks(<<f, page>>)
    /\ UNCHANGED <<rows, changes, page, cache>>

(* updateFilter and clearFilters go to the first page.                     *)
UpdateFilter(f) ==
    /\ f # filter /\ filter' = f /\ page' = 1
    /\ Asks(<<f, 1>>)
    /\ UNCHANGED <<rows, changes, cache>>

Total == IF cache[Here] = Nil THEN 0 ELSE cache[Here].total
TotalPages == IF Total <= PageSize THEN 1 ELSE (Total + PageSize - 1) \div PageSize

(* Pagination: Next only below the total of the answer that is shown.      *)
Turn(p) ==
    /\ \/ p = page - 1 /\ page > 1
       \/ p = page + 1 /\ page < TotalPages /\ p <= MaxPage
    /\ page' = p /\ Asks(<<filter, p>>)
    /\ UNCHANGED <<rows, changes, filter, cache>>

(* MUTANT of FindMany: take is the page's number times its size.           *)
FindManyMore(k) ==
    /\ asked[k].pc = "find"
    /\ asked' = [asked EXCEPT ![k] = [pc |-> "count", total |-> 0, age |-> changes,
                                      items |-> PageOf(Listed(ApiStatus(k[1])), 1, k[2] * PageSize)]]
    /\ UNCHANGED <<rows, changes, ui, cache>>

(* getPurchases: findMany and count are two queries.                       *)
FindMany(k) ==
    /\ asked[k].pc = "find"
    /\ asked' = [asked EXCEPT ![k] = [pc |-> "count", total |-> 0, age |-> changes,
                                      items |-> PageOf(Listed(ApiStatus(k[1])), k[2], PageSize)]]
    /\ UNCHANGED <<rows, changes, ui, cache>>

Count(k) ==
    /\ asked[k].pc = "count"
    /\ asked' = [asked EXCEPT ![k] = [pc |-> "answer", items |-> asked[k].items, age |-> asked[k].age,
                                      total |-> Len(Listed(ApiStatus(k[1])))]]
    /\ UNCHANGED <<rows, changes, ui, cache>>

(* MUTANT of Answered: the answer is shown wherever the page is by now.    *)
AnsweredHere(k) ==
    /\ asked[k].pc = "answer" /\ asked' = [asked EXCEPT ![k] = NoAnswer]
    /\ cache' = [cache EXCEPT ![Here] = [items |-> asked[k].items, total |-> asked[k].total,
                                         age |-> asked[k].age]]
    /\ UNCHANGED <<rows, changes, ui>>

(* The answer goes to its query, whether the page still is at it or not.   *)
Answered(k) ==
    /\ asked[k].pc = "answer" /\ asked' = [asked EXCEPT ![k] = NoAnswer]
    /\ cache' = [cache EXCEPT ![k] = [items |-> asked[k].items, total |-> asked[k].total,
                                      age |-> asked[k].age]]
    /\ UNCHANGED <<rows, changes, ui>>

(* The request fails twice: what is shown stays, or the error message is.  *)
Failed(k) ==
    /\ asked[k].pc # "idle" /\ asked' = [asked EXCEPT ![k] = NoAnswer]
    /\ UNCHANGED <<rows, changes, ui, cache>>

Next ==
    \/ RowsChange /\ UNCHANGED <<ui, cache, asked>>
    \/ Open
    \/ \E f \in Filters : UpdateFilter(f)
    \/ \E p \in 0..MaxPage : Turn(p)
    \/ \E k \in Keys : FindMany(k) \/ Count(k) \/ Answered(k) \/ Failed(k)

Spec == Init /\ [][Next]_vars
-----------------------------------------------------------------------------
(* filterPurchasesClient, on the rows as they are: what the table takes    *)
(* away of an answer as old as the rows.                                   *)
Hidden(k) == {n \in DOMAIN cache[k].items : ~Matches(rows[cache[k].items[n]], k[1])}
Fresh == cache[Here] # Nil /\ cache[Here].age = changes

TypeOK ==
    /\ RowsTypeOK
    /\ filter \in Filters /\ page \in 1..MaxPage
    /\ \A k \in Keys : asked[k].pc \in {"idle", "find", "count", "answer"}
    /\ \A k \in Keys : cache[k] # Nil => Len(cache[k].items) <= PageSize

(***************************************************************************)
(* With an answer that nothing has overtaken, the table shows the rows of  *)
(* its own filter and page, in the order of the list: for a filter of the  *)
(* API exactly that slice of the rows the browser matches, from which it   *)
(* takes nothing away, whatever answers of other filters and pages came    *)
(* late.                                                                   *)
(***************************************************************************)
TableIsItsPage ==
    Fresh /\ filter \notin {"PAID", "IN_PROGRESS", "WAITING_PAYMENT"} =>
        /\ cache[Here].items = PageOf(NewestFirst({i \in DOMAIN rows : Matches(rows[i], filter)}), page, PageSize)
        /\ Hidden(Here) = {}

(***************************************************************************)
(* Whoever turns pages, changes filters and meets late answers is never    *)
(* left on a page past the end of the list, unless the list has changed    *)
(* since one of its pages was read.                                        *)
(***************************************************************************)
NeverPastTheEnd ==
    changes = 0 /\ cache[Here] # Nil => page <= TotalPages
=============================================================================
