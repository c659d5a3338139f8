------------------------------- MODULE MCOrders -------------------------------
(***************************************************************************)
(* Small instances of the modules about orders: the pages that list, count *)
(* and move them, the reports, the token QPay is asked with and the files  *)
(* of a contract.                                                          *)
(*                                                                         *)
(* TLC follows one of them, `part', chosen in the initial state, while the *)
(* others rest.  The three of the purchases page share its rows; the sell  *)
(* panel is followed for one administrator, Alone, and for two of them who *)
(* wait for no answer of their tables.                                     *)
(***************************************************************************)
EXTENDS Naturals, TLC

CONSTANTS
    SeedRows, MaxRowChanges, Filters, PageSize, MaxPage, Sought, Batch, MaxBatches,
    Admins, Alone, Requests, Grams, MaxPuts, Tables,
    FirstRows, MaxMoves, SellFilters, SellPageSize,
    Users, Purchases, Sells, Owner, Amount, PaidRows, AskedFilters, MaxDay, MaxEdits,
    Calls, Cache, Timeout, Life, MaxTime, MaxTokens,
    Slots, MaxAttempts,
    Nil

VARIABLES part,
    rows, changes, filter, page, cache, asked, search, stats, count, open, detail, asking,
    row, balance, writes, puts, drawer, data, query, put, late, paid, own,
    requests, moved, status, sought, listPage, list, cards, counting,
    day, user, purchase, sell, edits, report, touched,
    now, token, tokenExpiresAt, given, withdrawn, withdrawnAt, call, refused,
    signed, pdf, qr, sign, attempts, overlapped, image

listing == <<filter, page, cache, asked>>
stat == <<search, stats, count>>
detailed == <<open, detail, asking>>
purchases == <<rows, changes, listing, stat, detailed>>
selling == <<row, balance, writes, puts, drawer, data, query, put, late, paid, own>>
sells == <<requests, moved, status, sought, listPage, list, cards, counting>>
reports == <<day, user, purchase, sell, edits, report, touched>>
tokens == <<now, token, tokenExpiresAt, given, withdrawn, withdrawnAt, call, refused>>
contract == <<signed, pdf, qr, sign, attempts, overlapped, image>>
vars == <<part, purchases, selling, sells, reports, tokens, contract>>

PurchaseList == INSTANCE PurchaseList WITH MaxChanges <- MaxRowChanges
PurchaseStats == INSTANCE PurchaseStats WITH MaxChanges <- MaxRowChanges, call <- count
PurchaseDrawer == INSTANCE PurchaseDrawer WITH MaxChanges <- MaxRowChanges, call <- asking
SellPanel == INSTANCE SellPanel WITH open <- drawer, call <- query
SellList == INSTANCE SellList WITH
    PageSize <- SellPageSize, MaxChanges <- MaxMoves, Filters <- SellFilters,
    rows <- requests, changes <- moved, search <- sought, page <- listPage, stats <- cards, count <- counting
Reports == INSTANCE Reports WITH SeedRows <- PaidRows, MaxChanges <- MaxEdits, changes <- edits
QpayToken == INSTANCE QpayToken
ContractFiles == INSTANCE ContractFiles WITH MaxRequests <- MaxAttempts, call <- sign, requests <- attempts

(* What the constants have to be.                                          *)
ASSUME OrdersAssumption ==
    /\ PurchaseList!ListAssumption /\ PurchaseStats!StatsAssumption
    /\ SellPanel!SellPanelAssumption /\ Alone \in Admins /\ SellList!SellListAssumption
    /\ Reports!ReportsAssumption /\ QpayToken!QpayAssumption /\ ContractFiles!ContractAssumption

(* Values for the configuration.                                           *)
P(s, q) == [status |-> s, qpay |-> q]
MCSeedRows == <<P("PENDING", "PENDING"), P("PAYMENT_PENDING", "PAID"), P("CANCELLED", "FAILED")>>
MCSought == {{1, 3}}
R(s, h) == [status |-> s, hit |-> h]
MCFirstRows == <<R("PENDING", TRUE), R("PENDING", FALSE)>>
MCOwner == "p1" :> "u1" @@ "p2" :> "u2" @@ "r1" :> "u1"
MCAmount == "p1" :> 1 @@ "p2" :> 2 @@ "r1" :> 1
MCPaidRows == "p1" :> [at |-> 1, paid |-> Nil, status |-> "PAYMENT_PENDING", qpay |-> "PAID"]
F(level, state, who, from, to) == [level |-> level, status |-> state, who |-> who, from |-> from, to |-> to]
MCAskedFilters == {F(Nil, Nil, Nil, 1, 1), F("NORMAL", Nil, Nil, 1, 2), F(Nil, "ACTIVE", Nil, Nil, Nil),
                   F("NORMAL", "PENDING", "u2", 1, 2)}
Symmetry == Permutations(Slots)
-----------------------------------------------------------------------------
Init ==
    /\ part \in {"list", "stats", "drawer", "sell", "sell2", "sells", "reports", "token", "contract"}
    /\ PurchaseList!Init /\ PurchaseStats!Init /\ PurchaseDrawer!Init
    /\ SellPanel!Init /\ (part \in {"sell", "sell2"} \/ \A r \in Requests : row[r] = "PENDING")
    /\ SellList!Init /\ Reports!Init /\ QpayToken!Init
    /\ ContractFiles!Init /\ (part = "contract" \/ image)

OfPurchases ==
    \/ part = "list" /\ PurchaseList!Next /\ UNCHANGED <<stat, detailed>>
    \/ part = "stats" /\ PurchaseStats!Next /\ UNCHANGED <<listing, detailed>>
    \/ part = "drawer" /\ PurchaseDrawer!Next /\ UNCHANGED <<listing, stat>>

TablesRest == \A a \in Admins, k \in Tables : data'[a][k] = data[a][k] /\ query'[a][k].pc # "answer"

Next ==
    /\ UNCHANGED part
    /\ \/ OfPurchases /\ UNCHANGED <<selling, sells, reports, tokens, contract>>
       \/ /\ part = "sell" /\ SellPanel!Does(Alone)
          /\ UNCHANGED <<purchases, sells, reports, tokens, contract>>
       \/ /\ part = "sell2" /\ SellPanel!Next /\ TablesRest
          /\ UNCHANGED <<purchases, sells, reports, tokens, contract>>
       \/ /\ part = "sells" /\ SellList!Next
          /\ UNCHANGED <<purchases, selling, reports, tokens, contract>>
       \/ /\ part = "reports" /\ Reports!Next
          /\ UNCHANGED <<purchases, selling, sells, tokens, contract>>
       \/ /\ part = "token" /\ QpayToken!Next
          /\ UNCHANGED <<purchases, selling, sells, reports, contract>>
       \/ /\ part = "contract" /\ ContractFiles!Next
          /\ UNCHANGED <<purchases, selling, sells, reports, tokens>>

Spec == Init /\ [][Next]_vars
-----------------------------------------------------------------------------
(* The shapes of the rows, the queries and the requests of each part.      *)
TypeOK ==
    CASE part = "list" -> PurchaseList!TypeOK
      [] part = "stats" -> PurchaseStats!TypeOK
      [] part = "drawer" -> PurchaseDrawer!TypeOK
      [] part \in {"sell", "sell2"} -> SellPanel!TypeOK
      [] part = "sells" -> SellList!TypeOK
      [] part = "reports" -> Reports!TypeOK
      [] part = "token" -> QpayToken!TypeOK
      [] part = "contract" -> ContractFiles!TypeOK

(***************************************************************************)
(* purchases/page.tsx and sell-requests/page.tsx: what an administrator    *)
(* looks at is what it says it is.  The table shows the rows of its own    *)
(* filter and page and is not past its end, a drawer shows the purchase it *)
(* was opened for, at one step of its timeline, and after an own change    *)
(* neither table nor drawer goes back to an older answer.                  *)
(***************************************************************************)
ShownMatches ==
    /\ part = "list" => PurchaseList!TableIsItsPage /\ PurchaseList!NeverPastTheEnd
    /\ part = "drawer" => PurchaseDrawer!DrawerShowsItsPurchase /\ PurchaseDrawer!StandsAtOneStep
    /\ part \in {"sell", "sell2"} => SellPanel!OwnChangeShown

(***************************************************************************)
(* Numbers that are computed twice agree: the cards of both pages with the *)
(* lists a click on them brings, whether the backend counted or the        *)
(* browser, from one list or by batches; the revenue and the gold of the   *)
(* reports with each other and with their charts; the parts of a user      *)
(* report with its total, if no row changed while it was put together.     *)
(***************************************************************************)
CountsAgree ==
    /\ part = "stats" => PurchaseStats!CardsCountRows /\ PurchaseStats!BatchesMissNone
    /\ part = "sells" => SellList!CardCountsItsList
    /\ part = "reports" => Reports!TotalsAgree /\ Reports!ChartsAddUp /\ Reports!CountsAddUp

(***************************************************************************)
(* qpay.service.ts and contract.service.ts: what is kept for later can be  *)
(* relied on.  No request goes out with a token that has run out and a     *)
(* withdrawn one is not tried longer than it is kept; a signed purchase    *)
(* has a QR image, and the files of the request that signed it unless two  *)
(* overlapped.                                                             *)
(***************************************************************************)
KeptIsGood ==
    /\ part = "token" => QpayToken!SentTokensAreTaken /\ QpayToken!RefusalsEnd
    /\ part = "contract" => ContractFiles!SignedHasItsFiles /\ ContractFiles!SignedHasAQr

(***************************************************************************)
(* A sell request that nobody clicks on with an old row or twice at once   *)
(* goes its way once and is paid for exactly when it is completed, though  *)
(* the service checks next to nothing; and only a list that became shorter *)
(* leaves the page past its end.                                           *)
(***************************************************************************)
MovesInOrder == SellPanel!FreshClicksFollowTheOrder /\ SellList!OnlyShorterListsStrand
=============================================================================
