-------------------------------- MODULE Seed --------------------------------
(***************************************************************************)
(* seed.ts against a database that is in use: one task after another, each *)
(* a few calls, found before it is written and never in a transaction. A   *)
(* run may stop at any call and be started again, also while another runs; *)
(* the app and the administrators go on meanwhile.                         *)
(***************************************************************************)
EXTENDS Naturals, Sequences

CONSTANTS
    Runs,        \* processes that run the script
    Phones,      \* bound: mock customers 1..Phones, each with a purchase, a sell request, a chat
    Items,       \* bound: mock news 1..Items
    Lines,       \* bound: messages 1..Lines of a mock chat
    MaxStarts,   \* bound: starts of the script
    MaxTurns     \* bound: what customers and administrators do

(* What the constants have to be.                                          *)
SeedAssumption == {Phones, Items, Lines, MaxStarts, MaxTurns} \subseteq Nat /\ Lines > 0

VARIABLES
    admin,       \* the administrator's row is there
    customer,    \* customer[p]: "none", "mock", or "real" for one who registered
    purchase,    \* purchase[p]: status "none", "first" or "moved"; it has its orderNo
    sell,        \* sell[p]: the same of the sell request and its requestNo
    news,        \* news[n]: "none", "first" or "moved"
    chat,        \* chat[p]: the messages, a mock line's number or Live
    thread,      \* thread[p]: the last message the ChatThread row tells of, or 0
    prices,      \* price histories written
    levels,      \* the thresholds are there
    run,         \* run[s]: where a run stands and what it found
    starts, turns,
    owed,        \* customers whose message is stored and not yet on the thread
    mixed,       \* history: chats rewritten while something else wrote them, or left halfway
    overlapped   \* history: two runs wrote prices at once

vars == <<admin, customer, purchase, sell, news, chat, thread, prices, levels,
          run, starts, turns, owed, mixed, overlapped>>
trade == <<purchase, sell, news>>
talk == <<chat, thread, owed, mixed>>
rest == <<prices, levels, overlapped>>

Live == Lines + 1
NoNumber(status) == [status |-> status, numbered |-> FALSE]
Idle == [pc |-> "off", at |-> 0, line |-> 0]

(* The mock data: what tells its rows apart is which customer they are of. *)
Tasks(kind, n) == [i \in 1..n |-> [kind |-> kind, i |-> i]]
TEST_USERS == Tasks("user", Phones)
MOCK_PURCHASES == Tasks("purchase", Phones)
MOCK_SELL_REQUESTS == Tasks("sell", Phones)
mockNews == Tasks("news", Items)
MOCK_CHATS == Tasks("chat", Phones)

(* seed(): the loops one after the other, each over its data in its order. *)
Plan == Tasks("admin", 1) \o TEST_USERS \o MOCK_PURCHASES \o MOCK_SELL_REQUESTS
        \o mockNews \o MOCK_CHATS \o Tasks("gold", 1) \o Tasks("levels", 1)

Task(s) == Plan[run[s].at]
At(s, pc, kind) == run[s].pc = pc /\ Task(s).kind = kind

(* MUTANT of Next1: the loop goes one past its data.                       *)
Next1Past(s) == [pc |-> "find", at |-> run[s].at + 1, line |-> 0]

Next1(s) ==
    IF run[s].at = Len(Plan) THEN [Idle EXCEPT !.pc = "done"] ELSE [pc |-> "find", at |-> run[s].at + 1, line |-> 0]
Go(s, pc) == run' = [run EXCEPT ![s].pc = pc]
Skip(s) == run' = [run EXCEPT ![s] = Next1(s)]
Stop(s) == run' = [run EXCEPT ![s] = Idle]

(* An empty database, or the rows of a script that did not number them.    *)
Init ==
    /\ \E old \in BOOLEAN :
         /\ admin = old /\ customer = [p \in 1..Phones |-> IF old THEN "mock" ELSE "none"]
         /\ purchase = [p \in 1..Phones |-> NoNumber(IF old THEN "first" ELSE "none")]
         /\ sell = purchase
    /\ news = [n \in 1..Items |-> "none"]
    /\ chat = [p \in 1..Phones |-> <<>>] /\ thread = [p \in 1..Phones |-> 0]
    /\ prices = 0 /\ levels = FALSE
    /\ run = [s \in Runs |-> Idle] /\ starts = 0 /\ turns = 0
    /\ owed = {} /\ mixed = {} /\ overlapped = FALSE
-----------------------------------------------------------------------------
Start(s) ==
    /\ run[s].pc \in {"off", "done"} /\ starts < MaxStarts /\ starts' = starts + 1
    /\ run' = [run EXCEPT ![s] = [pc |-> "find", at |-> 1, line |-> 0]]
    /\ UNCHANGED <<admin, customer, turns>> /\ UNCHANGED trade /\ UNCHANGED talk /\ UNCHANGED rest

(* A call fails or the process is stopped; a chat is left as it is.        *)
Crash(s) ==
    /\ run[s].pc \notin {"off", "done"} /\ Stop(s)
    /\ mixed' = IF run[s].pc \in {"say", "thread"} THEN mixed \cup {Task(s).i} ELSE mixed
    /\ UNCHANGED <<admin, customer, starts, turns, chat, thread, owed>> /\ UNCHANGED trade /\ UNCHANGED rest

Calls(s) == UNCHANGED <<starts, turns>> /\ s \in Runs

(* seedAdminUser: found by its address, or made.                           *)
FindAdmin(s) ==
    /\ At(s, "find", "admin") /\ IF admin THEN Skip(s) ELSE Go(s, "make")
    /\ Calls(s) /\ UNCHANGED <<admin, customer>> /\ UNCHANGED trade /\ UNCHANGED talk /\ UNCHANGED rest

(* The address is unique: the second of two creations ends its script.     *)
MakeAdmin(s) ==
    /\ At(s, "make", "admin") /\ admin' = TRUE /\ IF admin THEN Stop(s) ELSE Skip(s)
    /\ Calls(s) /\ UNCHANGED customer /\ UNCHANGED trade /\ UNCHANGED talk /\ UNCHANGED rest

(* MUTANT of KnownUser: one who exists ends the loop, not the turn.        *)
KnownUserEnds(s) == run' = [run EXCEPT ![s] = [pc |-> "find", at |-> 2 + Phones, line |-> 0]]

KnownUser(s) == Skip(s)

(* seedTestUsers: the number is taken, by whomever, or the row is made.    *)
FindUser(s) ==
    /\ At(s, "find", "user") /\ IF customer[Task(s).i] # "none" THEN KnownUser(s) ELSE Go(s, "make")
    /\ Calls(s) /\ UNCHANGED <<admin, customer>> /\ UNCHANGED trade /\ UNCHANGED talk /\ UNCHANGED rest

MakeUser(s) ==
    /\ At(s, "make", "user")
    /\ IF customer[Task(s).i] = "none"
       THEN customer' = [customer EXCEPT ![Task(s).i] = "mock"] /\ Skip(s)
       ELSE UNCHANGED customer /\ Stop(s)
    /\ Calls(s) /\ UNCHANGED admin /\ UNCHANGED trade /\ UNCHANGED talk /\ UNCHANGED rest
-----------------------------------------------------------------------------
(* MUTANT of Patched: the row of the script is written again, whole.       *)
PatchedWhole(row) == [status |-> "first", numbered |-> TRUE]

(* The update of a row that is there: only what the script adds to it.     *)
Patched(row) == [status |-> row.status, numbered |-> TRUE]

(* seedMockPurchases looks for the row first and then for its customer,    *)
(* who is there by now; a row without its number is given it.              *)
FindPurchase(s) ==
    LET row == purchase[Task(s).i] IN
    /\ At(s, "find", "purchase")
    /\ IF row.status = "none" THEN Go(s, "owner") ELSE IF row.numbered THEN Skip(s) ELSE Go(s, "patch")
    /\ Calls(s) /\ UNCHANGED <<admin, customer>> /\ UNCHANGED trade /\ UNCHANGED talk /\ UNCHANGED rest

FindBuyer(s) ==
    /\ At(s, "owner", "purchase") /\ IF customer[Task(s).i] = "none" THEN Skip(s) ELSE Go(s, "make")
    /\ Calls(s) /\ UNCHANGED <<admin, customer>> /\ UNCHANGED trade /\ UNCHANGED talk /\ UNCHANGED rest

WritePurchase(s) ==
    LET p == Task(s).i IN
    /\ \/ At(s, "patch", "purchase") /\ purchase' = [purchase EXCEPT ![p] = Patched(@)] /\ Skip(s)
       \/ /\ At(s, "make", "purchase")
          /\ IF purchase[p].status = "none"
             THEN purchase' = [purchase EXCEPT ![p] = [status |-> "first", numbered |-> TRUE]] /\ Skip(s)
             ELSE UNCHANGED purchase /\ Stop(s)
    /\ Calls(s) /\ UNCHANGED <<admin, customer, sell, news>> /\ UNCHANGED talk /\ UNCHANGED rest

(* seedMockSellRequests looks for the customer first.                      *)
FindSeller(s) ==
    /\ At(s, "find", "sell") /\ IF customer[Task(s).i] = "none" THEN Skip(s) ELSE Go(s, "row")
    /\ Calls(s) /\ UNCHANGED <<admin, customer>> /\ UNCHANGED trade /\ UNCHANGED talk /\ UNCHANGED rest

FindSell(s) ==
    LET row == sell[Task(s).i] IN
    /\ At(s, "row", "sell")
    /\ IF row.status = "none" THEN Go(s, "make") ELSE IF row.numbered THEN Skip(s) ELSE Go(s, "patch")
    /\ Calls(s) /\ UNCHANGED <<admin, customer>> /\ UNCHANGED trade /\ UNCHANGED talk /\ UNCHANGED rest

WriteSell(s) ==
    LET p == Task(s).i IN
    /\ \/ At(s, "patch", "sell") /\ sell' = [sell EXCEPT ![p] = Patched(@)] /\ Skip(s)
       \/ /\ At(s, "make", "sell")
          /\ IF sell[p].status = "none"
             THEN sell' = [sell EXCEPT ![p] = [status |-> "first", numbered |-> TRUE]] /\ Skip(s)
             ELSE UNCHANGED sell /\ Stop(s)
    /\ Calls(s) /\ UNCHANGED <<admin, customer, purchase, news>> /\ UNCHANGED talk /\ UNCHANGED rest

(* seedMockNews: looked for by its id, never patched.                      *)
FindNews(s) ==
    /\ At(s, "find", "news") /\ IF news[Task(s).i] = "none" THEN Go(s, "make") ELSE Skip(s)
    /\ Calls(s) /\ UNCHANGED <<admin, customer>> /\ UNCHANGED trade /\ UNCHANGED talk /\ UNCHANGED rest

WriteNews(s) ==
    /\ At(s, "make", "news")
    /\ IF news[Task(s).i] = "none"
       THEN news' = [news EXCEPT ![Task(s).i] = "first"] /\ Skip(s)
       ELSE UNCHANGED news /\ Stop(s)
    /\ Calls(s) /\ UNCHANGED <<admin, customer, purchase, sell>> /\ UNCHANGED talk /\ UNCHANGED rest
-----------------------------------------------------------------------------
(* MUTANT of Cleared: what is there stays.                                 *)
ClearedNot(c) == c

Cleared(c) == <<>>

InChat(s, p) == run[s].pc \in {"say", "thread"} /\ Task(s).i = p

(* seedMockChats: its customer, then deleteMany of all their messages,     *)
(* whoever wrote them; the mock lines one by one; the upsert of the thread. *)
FindTalker(s) ==
    /\ At(s, "find", "chat") /\ IF customer[Task(s).i] = "none" THEN Skip(s) ELSE Go(s, "clear")
    /\ Calls(s) /\ UNCHANGED <<admin, customer>> /\ UNCHANGED trade /\ UNCHANGED talk /\ UNCHANGED rest

ClearChat(s) ==
    LET p == Task(s).i IN
    /\ At(s, "clear", "chat") /\ chat' = [chat EXCEPT ![p] = Cleared(@)] /\ Go(s, "say")
    /\ mixed' = IF p \in owed \/ \E o \in Runs : InChat(o, p) THEN mixed \cup {p} ELSE mixed \ {p}
    /\ Calls(s) /\ UNCHANGED <<admin, customer, thread, owed>> /\ UNCHANGED trade /\ UNCHANGED rest

SayLine(s) ==
    LET p == Task(s).i  n == run[s].line + 1 IN
    /\ At(s, "say", "chat") /\ chat' = [chat EXCEPT ![p] = Append(@, n)]
    /\ run' = [run EXCEPT ![s] = [pc |-> IF n = Lines THEN "thread" ELSE "say", at |-> @.at, line |-> n]]
    /\ Calls(s) /\ UNCHANGED <<admin, customer, thread, owed, mixed>> /\ UNCHANGED trade /\ UNCHANGED rest

WriteThread(s) ==
    /\ At(s, "thread", "chat") /\ thread' = [thread EXCEPT ![Task(s).i] = Lines] /\ Skip(s)
    /\ Calls(s) /\ UNCHANGED <<admin, customer, chat, owed, mixed>> /\ UNCHANGED trade /\ UNCHANGED rest

(* MUTANT of Written: whatever was counted.                                *)
WrittenAlways(s) == Go(s, "make")

Written(s) == IF prices > 0 THEN Skip(s) ELSE Go(s, "make")

(* GoldPriceService.seedTestData: a count of all prices, then createMany.  *)
CountPrices(s) ==
    /\ At(s, "find", "gold") /\ Written(s)
    /\ overlapped' = (overlapped \/ (prices = 0 /\ \E o \in Runs \ {s} : At(o, "make", "gold")))
    /\ Calls(s) /\ UNCHANGED <<admin, customer, prices, levels>> /\ UNCHANGED trade /\ UNCHANGED talk

MakePrices(s) ==
    /\ At(s, "make", "gold") /\ prices' = prices + 1 /\ Skip(s)
    /\ Calls(s) /\ UNCHANGED <<admin, customer, levels, overlapped>> /\ UNCHANGED trade /\ UNCHANGED talk

(* MembershipService.seedDefaultConfig: upserts that change nothing there. *)
MakeLevels(s) ==
    /\ At(s, "find", "levels") /\ levels' = TRUE /\ Skip(s)
    /\ Calls(s) /\ UNCHANGED <<admin, customer, prices, overlapped>> /\ UNCHANGED trade /\ UNCHANGED talk
-----------------------------------------------------------------------------
Turn == turns < MaxTurns /\ turns' = turns + 1 /\ UNCHANGED <<admin, run, starts>> /\ UNCHANGED rest

(* A customer of their own registers with the number of a mock one.        *)
Registers(p) ==
    /\ Turn /\ customer[p] = "none" /\ customer' = [customer EXCEPT ![p] = "real"]
    /\ UNCHANGED trade /\ UNCHANGED talk

(* The backend moves a purchase or a sell request, an administrator edits news. *)
Moves(row) == [row EXCEPT !.status = "moved"]
Moving ==
    /\ Turn /\ UNCHANGED customer /\ UNCHANGED talk
    /\ \/ /\ \E p \in 1..Phones : purchase[p].status = "first" /\ purchase' = [purchase EXCEPT ![p] = Moves(@)]
          /\ UNCHANGED <<sell, news>>
       \/ /\ \E p \in 1..Phones : sell[p].status = "first" /\ sell' = [sell EXCEPT ![p] = Moves(@)]
          /\ UNCHANGED <<purchase, news>>
       \/ /\ \E n \in 1..Items : news[n] = "first" /\ news' = [news EXCEPT ![n] = "moved"]
          /\ UNCHANGED <<purchase, sell>>

(* ChatService.sendUserMessage: the message is stored, then its thread told. *)
Says(p) ==
    /\ Turn /\ customer[p] # "none" /\ p \notin owed
    /\ chat' = [chat EXCEPT ![p] = Append(@, Live)] /\ owed' = owed \cup {p}
    /\ mixed' = IF \E s \in Runs : InChat(s, p) THEN mixed \cup {p} ELSE mixed
    /\ UNCHANGED <<customer, thread>> /\ UNCHANGED trade

Told(p) ==
    /\ p \in owed /\ owed' = owed \ {p} /\ thread' = [thread EXCEPT ![p] = Live]
    /\ UNCHANGED <<admin, customer, run, starts, turns, chat, mixed>> /\ UNCHANGED trade /\ UNCHANGED rest

Next ==
    \/ \E s \in Runs : \/ Start(s) \/ Crash(s) \/ FindAdmin(s) \/ MakeAdmin(s) \/ FindUser(s) \/ MakeUser(s)
                       \/ FindPurchase(s) \/ FindBuyer(s) \/ WritePurchase(s)
                       \/ FindSeller(s) \/ FindSell(s) \/ WriteSell(s) \/ FindNews(s) \/ WriteNews(s)
                       \/ FindTalker(s) \/ ClearChat(s) \/ SayLine(s) \/ WriteThread(s)
                       \/ CountPrices(s) \/ MakePrices(s) \/ MakeLevels(s)
    \/ \E p \in 1..Phones : Registers(p) \/ Says(p) \/ Told(p)
    \/ Moving

Spec == Init /\ [][Next]_vars
-----------------------------------------------------------------------------
Row == [status : {"none", "first", "moved"}, numbered : BOOLEAN]

(* The rows, the runs and the histories are of their types.                *)
TypeOK ==
    /\ admin \in BOOLEAN /\ customer \in [1..Phones -> {"none", "mock", "real"}]
    /\ purchase \in [1..Phones -> Row] /\ sell \in [1..Phones -> Row]
    /\ news \in [1..Items -> {"none", "first", "moved"}]
    /\ chat \in [1..Phones -> Seq(1..Live)] /\ thread \in [1..Phones -> 0..Live]
    /\ prices \in 0..MaxStarts /\ levels \in BOOLEAN /\ starts \in 0..MaxStarts /\ turns \in 0..MaxTurns
    /\ run \in [Runs -> [pc : {"off", "find", "owner", "row", "patch", "make", "clear", "say", "thread", "done"},
                         at : 0..Len(Plan), line : 0..Lines]]
    /\ owed \subseteq 1..Phones /\ mixed \subseteq 1..Phones /\ overlapped \in BOOLEAN

(* A script that says it completed leaves everything there, numbered,      *)
(* wherever earlier ones stopped and whoever registered meanwhile.         *)
CompletedIsThere ==
    (\E s \in Runs : run[s].pc = "done") =>
        /\ admin /\ prices > 0 /\ levels
        /\ \A p \in 1..Phones :
             /\ customer[p] # "none" /\ purchase[p].status # "none" /\ purchase[p].numbered
             /\ sell[p].status # "none" /\ sell[p].numbered /\ thread[p] # 0
        /\ \A n \in 1..Items : news[n] # "none"

(* A purchase, a sell request or a news item that went on since an earlier *)
(* script is not put back by a later one.                                  *)
MovedStays ==
    [][/\ \A p \in 1..Phones : /\ (purchase[p].status = "moved" => purchase'[p].status = "moved")
                               /\ (sell[p].status = "moved" => sell'[p].status = "moved")
       /\ \A n \in 1..Items : news[n] = "moved" => news'[n] = "moved"]_vars

(* However often it is run, a chat is the mock conversation once, followed *)
(* by what was said since, and its thread tells of the last message; where *)
(* nobody wrote it during the rewriting, and it was not left halfway.      *)
ConversationIsOnce ==
    \A p \in 1..Phones : (p \notin mixed /\ \A s \in Runs : ~InChat(s, p)) =>
        /\ LET mock == IF Len(chat[p]) > 0 /\ chat[p][1] # Live THEN Lines ELSE 0 IN
           \A i \in 1..Len(chat[p]) : chat[p][i] = IF i <= mock THEN i ELSE Live
        /\ (p \notin owed /\ chat[p] # <<>>) => thread[p] = chat[p][Len(chat[p])]

(* The year of prices is written once, unless two scripts count at once.   *)
PricesAreOnce == overlapped \/ prices <= 1
=============================================================================
