------------------------------ MODULE MCContent ------------------------------
(***************************************************************************)
(* Small instances of the modules about what is written for customers and  *)
(* with them: the news, their page in the panel and the feed of the app,   *)
(* the prices, and the chat of the backend, the panel and the app.         *)
(*                                                                         *)
(* They share no state.  TLC follows one of them, `part', chosen in the    *)
(* initial state, while the others rest.  The news are followed twice: few *)
(* rows with other callers, and all of them with the form alone.           *)
(***************************************************************************)
EXTENDS Naturals, TLC

CONSTANTS
    News, Few, Titles, FewTitles, Slugify, Empty, None,      \* the rows, and those followed with other callers
    Now, Zone, MaxSaves, MaxCalls,
    Hits, Filters, NewsPageSize, Callers, FirstState, MaxTurned,    \* the page of the news
    FeedNews, FirstAt, FeedLimit, MaxMoved,                  \* the feed of the app
    Prices, Inputs, FirstRows, MaxRows, MaxDay,              \* the prices
    FirstDays, ChartLimit, PricePageSize, Ranges, ChartRows, ChartDays,    \* their page
    Customers, Sockets, MaxStored,                           \* the chat of the backend,
    Users, Tabs, MaxMoves, MaxFails,                         \* of the panel
    Texts, MaxOthers, MaxSends, MaxDrops,                    \* and of the app
    Slots, MaxTurns, Nil

VARIABLES part,
    row, cache, form, put, call, saves, calls, crossed,
    state, turned, key, leaf, command, held, asks, due,
    at, public, changes, pages, fetch, shownSeen, fetchSeen,
    prices, today, add, ask, price, raced,
    days, day, got, get, page, range, modal, sent, own,
    banned, gold, thread, message, stored, socket, clients, sending, turns, unbanned, early, overlapping, emitted,
    rows, talk, events, moves, fails, tab, selected, list, listQ, shown, messagesQ, draft, post, read, missed,
    link, drops, listeners, asked, loading, messages, others, sends, outbox, came

newsRows == <<row, cache, form, put, call, saves, calls, crossed>>
newsPage == <<state, turned, key, leaf, command, held, asks, due>>
feed == <<at, public, changes, pages, fetch, shownSeen, fetchSeen>>
priceRows == <<prices, today, add, ask, price, raced>>
pricePage == <<days, day, got, get, page, range, modal, sent, own>>
gateway == <<banned, gold, thread, message, stored, socket, clients, sending, turns,
             unbanned, early, overlapping, emitted>>
chatPage == <<rows, talk, events, moves, fails, tab, selected, list, listQ, shown, messagesQ,
              draft, post, read, missed>>
chatScreen == <<link, drops, listeners, asked, loading, messages, others, sends, outbox, came>>
vars == <<part, newsRows, newsPage, feed, priceRows, pricePage, gateway, chatPage, chatScreen>>

NewsRows == INSTANCE News
NewsPage == INSTANCE NewsPage WITH
    PageSize <- NewsPageSize, MaxChanges <- MaxTurned,
    changes <- turned, page <- leaf, call <- command, got <- held, get <- asks, own <- due
NewsFeed == INSTANCE NewsFeed WITH News <- FeedNews, Limit <- FeedLimit, MaxChanges <- MaxMoved

GoldPrice == INSTANCE GoldPrice WITH Adders <- Slots, rows <- prices, day <- today, shown <- price
GoldPanel == INSTANCE GoldPanel WITH
    Limit <- ChartLimit, PageSize <- PricePageSize, MaxRows <- ChartRows, MaxDay <- ChartDays, put <- sent

Chat == INSTANCE Chat WITH Users <- Customers, MaxMessages <- MaxStored, call <- sending, crossed <- overlapping
ChatPanel == INSTANCE ChatPanel WITH thread <- rows, chat <- talk, turns <- events, put <- post
ChatApp == INSTANCE ChatApp WITH MaxMessages <- MaxOthers, sent <- sends

(* What the constants have to be.                                          *)
ASSUME ContentAssumption ==
    /\ NewsRows!NewsAssumption /\ NewsPage!NewsPageAssumption /\ NewsFeed!NewsFeedAssumption
    /\ GoldPrice!GoldPriceAssumption /\ GoldPanel!GoldPanelAssumption
    /\ Chat!ChatAssumption /\ ChatPanel!ChatPanelAssumption /\ ChatApp!ChatAppAssumption

(* The values of the run.                                                  *)
MCSlugify == [empty |-> "empty", latin |-> "latin", cyrillic |-> "empty"]
MCFilters == {<<"ALL", FALSE>>, <<"DRAFT", FALSE>>}
MCFirstState == [n1 |-> "DRAFT", n2 |-> "PUBLISHED"]
MCFirstAt == <<1, 2, 3, 0>>
MCInputs == {<<2, 1, 2>>, <<1, 1, 1>>, <<1, 2, 2>>, <<2, 2, 1>>}
MCFirstRows == <<[bank |-> 2, buy |-> 1, sell |-> 2, change |-> Nil, day |-> 0],
                 [bank |-> 1, buy |-> 1, sell |-> 2, change |-> <<1, 2>>, day |-> 1]>>
MCFirstDays == <<0, 2>>

Symmetry == Permutations(Slots)
-----------------------------------------------------------------------------
(* Bound: with other callers, few news and few titles.                     *)
OnlyFew ==
    /\ \A n \in News \ Few : row[n] = Nil /\ call.id # n
    /\ form.v.title \in FewTitles /\ \A n \in Few : row[n] # Nil => row[n].title \in FewTitles

(* The rows a part at rest keeps; the form is followed over drafts, and    *)
(* the page of the news from a draft and a published item.                 *)
AtRest ==
    /\ part \notin {"news", "form"} => row = [n \in News |-> Nil]
    /\ part = "news" => OnlyFew
    /\ part = "form" => \A n \in News : row[n] # Nil => row[n].status = "DRAFT"
    /\ state = IF part = "news page" THEN FirstState ELSE [n \in News |-> "NONE"]
    /\ part # "price page" => range = CHOOSE r \in Ranges : TRUE
    /\ part # "gateway" => gold = {}

Init ==
    /\ part \in {"news", "form", "news page", "feed", "prices", "price page", "gateway", "chat page", "chat screen"}
    /\ NewsRows!Init /\ NewsPage!Init /\ NewsFeed!Init /\ GoldPrice!Init /\ GoldPanel!Init
    /\ Chat!Init /\ ChatPanel!Init /\ ChatApp!Init
    /\ AtRest

InNews(A) == A /\ UNCHANGED <<part, newsPage, feed, priceRows, pricePage, gateway, chatPage, chatScreen>>
InNewsPage(A) ==
    part = "news page" /\ A /\ UNCHANGED <<part, newsRows, feed, priceRows, pricePage, gateway, chatPage, chatScreen>>
InFeed(A) ==
    part = "feed" /\ A /\ UNCHANGED <<part, newsRows, newsPage, priceRows, pricePage, gateway, chatPage, chatScreen>>
InPrices(A) ==
    part = "prices" /\ A /\ UNCHANGED <<part, newsRows, newsPage, feed, pricePage, gateway, chatPage, chatScreen>>
InPricePage(A) ==
    part = "price page" /\ A /\ UNCHANGED <<part, newsRows, newsPage, feed, priceRows, gateway, chatPage, chatScreen>>
InGateway(A) ==
    part = "gateway" /\ A /\ UNCHANGED <<part, newsRows, newsPage, feed, priceRows, pricePage, chatPage, chatScreen>>
InChatPage(A) ==
    part = "chat page" /\ A /\ UNCHANGED <<part, newsRows, newsPage, feed, priceRows, pricePage, gateway, chatScreen>>
InChatScreen(A) ==
    part = "chat screen" /\ A /\ UNCHANGED <<part, newsRows, newsPage, feed, priceRows, pricePage, gateway, chatPage>>

Next ==
    \/ part = "news" /\ InNews(NewsRows!Next) /\ OnlyFew'
    \/ part = "form" /\ InNews(NewsRows!Next) /\ UNCHANGED calls
    \/ InNewsPage(NewsPage!Next)
    \/ InFeed(NewsFeed!Next)
    \/ InPrices(GoldPrice!Next)
    \/ InPricePage(GoldPanel!Next)
    \/ InGateway(Chat!Next)
    \/ InChatPage(ChatPanel!Next)
    \/ InChatScreen(ChatApp!Next)

Spec == Init /\ [][Next]_vars
-----------------------------------------------------------------------------
(* The shapes of the rows, the queries and the requests of each part.      *)
TypeOK ==
    CASE part \in {"news", "form"} -> NewsRows!TypeOK
      [] part = "news page" -> NewsPage!TypeOK
      [] part = "feed" -> NewsFeed!TypeOK
      [] part = "prices" -> GoldPrice!TypeOK
      [] part = "price page" -> GoldPanel!TypeOK
      [] part = "gateway" -> Chat!TypeOK
      [] part = "chat page" -> ChatPanel!TypeOK
      [] part = "chat screen" -> ChatApp!TypeOK

(***************************************************************************)
(* gold-price.service.ts and gold-price/page.tsx: a price is the same      *)
(* wherever it is seen.  The change stored with a row is the one from the  *)
(* row before it and the one the app computes, unless two rows were added  *)
(* at once; card, chart and table all have a rate that was announced, and  *)
(* the chart every row of its range.                                       *)
(***************************************************************************)
PricesAgree ==
    /\ part = "prices" => GoldPrice!StoredChangeChains /\ GoldPrice!ShownChangeAgrees
    /\ part = "price page" => GoldPanel!OwnPriceEverywhere /\ GoldPanel!ChartHasItsRange

(***************************************************************************)
(* chat.gateway.ts, chat.service.ts and the two chat pages: sockets kept   *)
(* for sending are there and were let in; a thread is what its messages    *)
(* say; what is sent to a customer was typed for that customer, and what   *)
(* was marked as read is shown; the app shows each message once, in order. *)
(***************************************************************************)
ThreadsAgree ==
    /\ part = "gateway" => Chat!ClientsAreThere /\ Chat!ThreadIsUpToDate
    /\ part = "chat page" => ChatPanel!DraftGoesToItsThread /\ ChatPanel!ReadIsShown
    /\ part = "chat screen" => ChatApp!ShownAsTheyCame

(***************************************************************************)
(* news.service.ts, NewsFormModal.tsx, news/page.tsx and the app's         *)
(* useNews.ts: flag, status and date of a news row agree whoever writes    *)
(* them, a form writes what it took from its own row, each card of the     *)
(* page counts what it lists and no table or card stays behind an          *)
(* announcement, and pages of the feed read while news move repeat and     *)
(* hide only what the moves explain.                                       *)
(***************************************************************************)
RowsAgree ==
    /\ part \in {"news", "form"} => NewsRows!FlagFollowsStatus /\ NewsRows!WrittenFromItsItem
    /\ part = "news page" => NewsPage!CardCountsItsList /\ NewsPage!OwnChangeShown
    /\ part = "feed" => NewsFeed!OnlyAdditionsRepeat /\ NewsFeed!AdditionsHideNone

(***************************************************************************)
(* No step takes back what another actor left: the date of the first       *)
(* publication, what is typed into the price dialog, and the page of the   *)
(* news table, while its list is long enough.                              *)
(***************************************************************************)
NothingTakenBack ==
    NewsRows!DateStays /\ NewsPage!OnlyShorterListsStrand /\ GoldPanel!TypedStays
=============================================================================
