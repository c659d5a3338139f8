---------------------------- MODULE PurchaseStats ----------------------------
(***************************************************************************)
(* The cards of the panel's purchases page: getPurchaseStats of the        *)
(* backend counts with five queries of its own; when that fails, or when   *)
(* the page filters by something the API does not know, usePurchases.ts    *)
(* gets all the rows in batches and counts them itself.                    *)
(***************************************************************************)
EXTENDS PurchaseRows

CONSTANTS
    Sought,       \* sets of ids a search for a user or an order can mean
    Batch,        \* rows of a batch of fetchAllPurchases
    MaxBatches,   \* batches it gets at most
    Nil           \* "no search", "no stats"

(* What the constants have to be.                                          *)
StatsAssumption == RowsAssumption /\ {Batch, MaxBatches} \subseteq Nat \ {0}

Cards == {"total", "pending", "paid", "completed", "cancelled"}

VARIABLES
    search,       \* the search the page is at: Nil or one of Sought
    stats,        \* stats[s]: what the cards show under search s
    call          \* the query under way

vars == <<rows, changes, search, stats, call>>

Searches == Sought \cup {Nil}
Zero == [c \in Cards |-> 0]
IdleCall == [pc |-> "idle", of |-> Nil, left |-> {}, count |-> Zero, got |-> <<>>, batch |-> 0,
             had |-> 0, age |-> 0]

Init == RowsInit /\ search = Nil /\ stats = [s \in Searches |-> Nil] /\ call = IdleCall

(* MUTANT of Where: a paid purchase counts as paid for good.               *)
WherePaid(c, r) ==
    CASE c = "total"     -> TRUE
      [] c = "pending"   -> r.status \notin {"COMPLETED", "CANCELLED"} /\ r.qpay # "PAID"
      [] c = "paid"      -> r.qpay = "PAID"
      [] c = "completed" -> r.status = "COMPLETED"
      [] c = "cancelled" -> r.status = "CANCELLED"

(* The where clauses of getPurchaseStats.                                  *)
Where(c, r) ==
    CASE c = "total"     -> TRUE
      [] c = "pending"   -> r.status \notin {"COMPLETED", "CANCELLED"} /\ r.qpay # "PAID"
      [] c = "paid"      -> r.qpay = "PAID" /\ r.status \notin {"COMPLETED", "CANCELLED"}
      [] c = "completed" -> r.status = "COMPLETED"
      [] c = "cancelled" -> r.status = "CANCELLED"

(* computePurchaseStats: the card a row is counted on.                     *)
CardOf(r) ==
    CASE DisplayStatus(r) = "COMPLETED" -> "completed"
      [] DisplayStatus(r) = "CANCELLED" -> "cancelled"
      [] DisplayStatus(r) = "PAID"      -> "paid"
      [] OTHER                          -> "pending"

(* The filter of a card, kpiCards.                                         *)
FilterOf(c) ==
    CASE c = "total" -> "ALL" [] c = "pending" -> "IN_PROGRESS" [] c = "paid" -> "PAID"
      [] c = "completed" -> "COMPLETED" [] c = "cancelled" -> "CANCELLED"

(* The user types into or clears the search.                               *)
Search(s) ==
    /\ search' = s /\ s # search
    /\ UNCHANGED <<rows, changes, stats, call>>

(* fetchPurchaseStats: only without a search the backend counts.           *)
Ask ==
    /\ call.pc = "idle"
    /\ call' = [IdleCall EXCEPT !.pc = IF search = Nil THEN "count" ELSE "batch", !.of = search,
                                !.left = Cards, !.had = Len(rows), !.age = changes]
    /\ UNCHANGED <<rows, changes, search, stats>>

(* The five counts run side by side.                                       *)
Count(c) ==
    /\ call.pc = "count" /\ c \in call.left
    /\ call' = [call EXCEPT !.left = @ \ {c}, !.pc = IF call.left = {c} THEN "answer" ELSE "count",
                            !.count[c] = Cardinality({i \in DOMAIN rows : Where(c, rows[i])})]
    /\ UNCHANGED <<rows, changes, search, stats>>

(* The request fails: the page counts the rows itself.                     *)
FallBack ==
    /\ call.pc \in {"count", "answer"} /\ call.batch = 0
    /\ call' = [call EXCEPT !.pc = "batch", !.age = changes, !.had = Len(rows)]
    /\ UNCHANGED <<rows, changes, search, stats>>

(* MUTANT of Enough: one batch will do.                                    *)
EnoughAtOnce(c, items) == c.batch > 0

(* fetchAllPurchases ends: an empty batch, as many rows as there are now,  *)
(* or the last batch it allows itself.                                     *)
Enough(c, items) ==
    c.batch > 0 /\ (items = <<>> \/ Len(c.got) >= Len(rows) \/ c.batch = MaxBatches)

(* One batch; the rows may move between two of them.                       *)
GetBatch ==
    LET items == PageOf(Listed("ALL"), call.batch + 1, Batch)
        c     == [call EXCEPT !.got = @ \o [n \in DOMAIN items |-> [id |-> items[n], row |-> rows[items[n]]]], !.batch = @ + 1]
    IN  /\ call.pc = "batch"
        /\ call' = IF Enough(c, items) THEN [c EXCEPT !.pc = "sum"] ELSE c
        /\ UNCHANGED <<rows, changes, search, stats>>

(* filterPurchasesClient and computePurchaseStats on the rows got: a row   *)
(* that came twice counts twice.                                           *)
Sum ==
    LET mine == {n \in DOMAIN call.got : call.of = Nil \/ call.got[n].id \in call.of} IN
    /\ call.pc = "sum"
    /\ call' = [call EXCEPT !.pc = "answer", !.count = [c \in Cards |->
                   Cardinality({n \in mine : c = "total" \/ CardOf(call.got[n].row) = c})]]
    /\ UNCHANGED <<rows, changes, search, stats>>

Answered ==
    /\ call.pc = "answer" /\ call' = IdleCall
    /\ stats' = [stats EXCEPT ![call.of] = [count |-> call.count, age |-> call.age]]
    /\ UNCHANGED <<rows, changes, search>>

(* Getting the rows fails too: the cards keep what they had.               *)
Failed ==
    /\ call.pc \in {"batch", "sum"} /\ call' = IdleCall
    /\ UNCHANGED <<rows, changes, search, stats>>

Next ==
    \/ RowsChange /\ UNCHANGED <<search, stats, call>>
    \/ \E s \in Searches : Search(s)
    \/ Ask \/ FallBack \/ GetBatch \/ Sum \/ Answered \/ Failed
    \/ \E c \in Cards : Count(c)

Spec == Init /\ [][Next]_vars
-----------------------------------------------------------------------------
Known(s) == stats[s] # Nil /\ stats[s].age = changes
Scope(s) == IF s = Nil THEN DOMAIN rows ELSE s \cap DOMAIN rows

TypeOK ==
    /\ RowsTypeOK
    /\ search \in Searches
    /\ call.pc \in {"idle", "count", "batch", "sum", "answer"}
    /\ call.batch \in 0..MaxBatches

(***************************************************************************)
(* With numbers no change has overtaken, a card counts the rows its filter *)
(* matches: the where clauses of the backend, the count of the page and    *)
(* the filter of the table agree on every row, whichever way the numbers   *)
(* came, as long as the batches reach all rows.                            *)
(***************************************************************************)
CardsCountRows ==
    Len(rows) <= Batch * MaxBatches =>
        \A s \in Searches : Known(s) =>
            \A c \in Cards :
                stats[s].count[c] = Cardinality({i \in Scope(s) : Matches(rows[i], FilterOf(c))})

(***************************************************************************)
(* Even while rows move under the counting, no row is forgotten on the way *)
(* by batches: the rows there were when it began are all in what it got,   *)
(* for new rows only push old ones to later batches.                       *)
(***************************************************************************)
BatchesMissNone ==
    call.pc = "sum" /\ Len(rows) <= Batch * MaxBatches =>
        1..call.had \subseteq {call.got[n].id : n \in DOMAIN call.got}
=============================================================================
