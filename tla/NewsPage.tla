------------------------------- MODULE NewsPage -------------------------------
(***************************************************************************)
(* The news page of the panel: the table of a filter, the four cards, and  *)
(* what the drawer and the form of the page write.  Each filter has a      *)
(* query of its own whose last answer is kept; the whole list of a filter  *)
(* is got and paged in the browser.  What the form and the drawer show of  *)
(* an item is in News.                                                     *)
(***************************************************************************)
EXTENDS Naturals, FiniteSets

CONSTANTS
    News,         \* the items there are or may come to be
    Hits,         \* those of them a search finds
    Filters,      \* the filters and cards in use: a status or "ALL", with or without a search
    PageSize,     \* NEWS_PAGE_SIZE
    MaxChanges,   \* bound: items that come, go or change their status
    Callers,      \* the requests that can be under way: the drawer's, the form's
    Nil           \* nothing got yet

Statuses == {"DRAFT", "PUBLISHED", "ARCHIVED"}
Cards == {f[1] : f \in Filters}
Stats == <<"stats", Nil>>
Queries == Filters \cup {Stats}

(* What the constants have to be.                                          *)
NewsPageAssumption ==
    /\ IsFiniteSet(News) /\ Hits \subseteq News
    /\ Filters \subseteq (Statuses \cup {"ALL"}) \X BOOLEAN /\ <<"ALL", FALSE>> \in Filters
    /\ PageSize \in Nat \ {0} /\ MaxChanges \in Nat

VARIABLES
    state,        \* state[n]: the status of item n, or "NONE"
    changes,
    key, page,    \* filters, page
    call,         \* call[c]: the request of c has been written and not answered
    got,          \* got[q]: what query q last got, and after how many changes
    get,          \* get[q]: the query under way
    own           \* history: own[q]: the changes a query was asked again for

vars == <<state, changes, key, page, call, got, get, own>>

Idle == [pc |-> "idle"]
Asked(q) == IF q = Stats THEN [pc |-> "count", left |-> Cards, cards |-> [c \in Cards |-> 0], at |-> changes]
            ELSE [pc |-> "asked"]
Free(q) == get[q].pc = "idle"

Init ==
    /\ state \in [News -> Statuses \cup {"NONE"}] /\ changes = 0
    /\ key = <<"ALL", FALSE>> /\ page = 1
    /\ call = [c \in Callers |-> FALSE]
    /\ got = [q \in Queries |-> Nil]
    /\ get = [q \in Queries |-> IF q \in {key, Stats} THEN Asked(q) ELSE Idle]
    /\ own = [q \in Queries |-> 0]

(* createNews, setStatus and deleteNewsPermanently; the last two first     *)
(* find the item.                                                          *)
Store(n, s) ==
    /\ changes < MaxChanges /\ changes' = changes + 1
    /\ s # state[n] /\ (state[n] = "NONE" => s # "ARCHIVED")
    /\ state' = [state EXCEPT ![n] = s]

OthersStore ==
    /\ \E n \in News, s \in Statuses \cup {"NONE"} : Store(n, s)
    /\ UNCHANGED <<key, page, call, got, get, own>>

(* getAdminNews: the items of a status a search finds.                     *)
Found(f) == {n \in News : state[n] # "NONE" /\ f[1] \in {"ALL", state[n]} /\ (f[2] => n \in Hits)}
Count(c) == Cardinality(Found(<<c, FALSE>>))

(* A query that is shown from now on is asked, unless it is under way.     *)
Show(q) ==
    /\ get' = [get EXCEPT ![q] = IF Free(q) THEN Asked(q) ELSE @]
    /\ own' = [own EXCEPT ![q] = IF Free(q) THEN changes ELSE @]

(* MUTANT of UpdateFilter: the page stays where it is.                     *)
UpdateFilterHere(f) ==
    /\ f # key /\ key' = f /\ Show(f)
    /\ UNCHANGED <<state, changes, page, call, got>>

(* updateFilter, from the fields and the cards; the same filter once more  *)
(* only goes back to the first page.                                       *)
UpdateFilter(f) ==
    /\ key' = f /\ page' = 1
    /\ IF f = key THEN page # 1 /\ UNCHANGED <<get, own>> ELSE Show(f)
    /\ UNCHANGED <<state, changes, call, got>>

(* paginateNews and Pagination, which is not there on an empty page.       *)
Total == IF got[key] = Nil THEN 0 ELSE Cardinality(DOMAIN got[key].what)
TotalPages == IF Total <= PageSize THEN 1 ELSE (Total + PageSize - 1) \div PageSize
Shown == Total > (page - 1) * PageSize

Turn(p) ==
    /\ Shown
    /\ \/ p = page - 1 /\ page > 1
       \/ p = page + 1 /\ page < TotalPages
    /\ page' = p /\ UNCHANGED <<state, changes, key, call, got, get, own>>

(* Refresh, and the page that is come back to.                             *)
Ask(q) ==
    /\ q \in {key, Stats} /\ Free(q)
    /\ got[q] # Nil => got[q].at < changes
    /\ Show(q) /\ UNCHANGED <<state, changes, key, page, call, got>>

(* fetchNewsList.                                                          *)
Read(f) ==
    /\ get[f].pc = "asked"
    /\ get' = [get EXCEPT ![f] = [pc |-> "answer", at |-> changes, what |-> [n \in Found(f) |-> state[n]]]]
    /\ UNCHANGED <<state, changes, key, page, call, got, own>>

(* MUTANT of CountOne: the card of all counts the list that is shown.      *)
CountOneHere(c) ==
    /\ get[Stats].pc = "count" /\ c \in get[Stats].left
    /\ LET n == IF c = "ALL" THEN Cardinality(Found(key)) ELSE Count(c)
           left == get[Stats].left \ {c}
           cards == [get[Stats].cards EXCEPT ![c] = n] IN
       get' = [get EXCEPT ![Stats] = IF left # {} THEN [pc |-> "count", left |-> left, cards |-> cards, at |-> @.at]
                                       ELSE [pc |-> "answer", at |-> @.at, what |-> cards]]
    /\ UNCHANGED <<state, changes, key, page, call, got, own>>

(* getAdminStats: four counts side by side.                                *)
CountOne(c) ==
    /\ get[Stats].pc = "count" /\ c \in get[Stats].left
    /\ LET left == get[Stats].left \ {c}
           cards == [get[Stats].cards EXCEPT ![c] = Count(c)] IN
       get' = [get EXCEPT ![Stats] = IF left # {} THEN [pc |-> "count", left |-> left, cards |-> cards, at |-> @.at]
                                       ELSE [pc |-> "answer", at |-> @.at, what |-> cards]]
    /\ UNCHANGED <<state, changes, key, page, call, got, own>>

(* useNewsStats: after a failure the list of all is got, and counted by    *)
(* computeNewsStats.                                                       *)
CountList ==
    /\ get[Stats].pc = "count"
    /\ get' = [get EXCEPT ![Stats] = [pc |-> "answer", at |-> changes, what |-> [c \in Cards |-> Count(c)]]]
    /\ UNCHANGED <<state, changes, key, page, call, got, own>>

Answered(q) ==
    /\ get[q].pc = "answer"
    /\ got' = [got EXCEPT ![q] = [what |-> get[q].what, at |-> get[q].at]]
    /\ get' = [get EXCEPT ![q] = Idle]
    /\ UNCHANGED <<state, changes, key, page, call, own>>

(* After its one retry.  What was got before stays; nothing is owed.       *)
Failed(q) ==
    /\ ~Free(q) /\ get' = [get EXCEPT ![q] = Idle] /\ own' = [own EXCEPT ![q] = 0]
    /\ UNCHANGED <<state, changes, key, page, call, got>>

(* The buttons of the drawer and the form, opened on any row or a new one: *)
(* from the click until the backend has written nothing is seen of it.     *)
Send(c) ==
    /\ ~call[c] /\ call' = [call EXCEPT ![c] = TRUE]
    /\ \E n \in News, s \in Statuses \cup {"NONE"} :
         \/ Store(n, s)
         \/ state[n] = s /\ s # "NONE" /\ UNCHANGED <<state, changes>>
    /\ UNCHANGED <<key, page, got, get, own>>

(* MUTANT of Invalidated: the cards are left out.                          *)
InvalidatedRows == {key}

(* invalidateNews: of the queries it names, those shown are begun again.   *)
Invalidated == {key, Stats}

Announced(c) ==
    /\ call[c] /\ call' = [call EXCEPT ![c] = FALSE]
    /\ get' = [q \in Queries |-> IF q \in Invalidated THEN Asked(q) ELSE get[q]]
    /\ own' = [q \in Queries |-> IF q \in {key, Stats} THEN changes ELSE own[q]]
    /\ UNCHANGED <<state, changes, key, page, got>>

CallFailed(c) ==
    /\ call[c] /\ call' = [call EXCEPT ![c] = FALSE]
    /\ UNCHANGED <<state, changes, key, page, got, get, own>>

Next ==
    \/ OthersStore \/ CountList
    \/ \E f \in Filters : UpdateFilter(f)
    \/ \E p \in 0..(TotalPages + 1) : Turn(p)
    \/ \E f \in Filters : Read(f)
    \/ \E q \in Queries : Ask(q) \/ Answered(q) \/ Failed(q)
    \/ \E c \in Cards : CountOne(c)
    \/ \E c \in Callers : Send(c) \/ Announced(c) \/ CallFailed(c)

Spec == Init /\ [][Next]_vars
-----------------------------------------------------------------------------
TypeOK ==
    /\ state \in [News -> Statuses \cup {"NONE"}] /\ changes \in 0..MaxChanges
    /\ key \in Filters /\ page \in 1..(Cardinality(News) + 1)
    /\ \A q \in Queries :
         /\ get[q].pc \in {"idle", "answer"} \cup (IF q = Stats THEN {"count"} ELSE {"asked"})
         /\ own[q] \in 0..changes
         /\ got[q] # Nil => got[q].at \in 0..changes

(***************************************************************************)
(* A card counts what a click on it lists, whoever of the backend and the  *)
(* browser has counted, when nothing changed between, and whatever filter  *)
(* was shown when it was counted.                                          *)
(***************************************************************************)
CardCountsItsList ==
    \A f \in Filters :
        /\ ~f[2] /\ got[Stats] # Nil /\ got[f] # Nil
        /\ got[Stats].at = changes /\ got[f].at = changes
        => got[Stats].what[f[1]] = Cardinality(DOMAIN got[f].what)

(***************************************************************************)
(* After an announcement the table that is shown and the cards have the    *)
(* change as soon as they are not being asked, in whatever order answers   *)
(* and other announcements come; so has a table that is turned to later,   *)
(* unless it was still being asked from before, and unless it failed.      *)
(***************************************************************************)
OwnChangeShown ==
    \A q \in Queries : get[q].pc = "idle" /\ got[q] # Nil => got[q].at >= own[q]

(***************************************************************************)
(* Turning pages and changing filters never leaves the page past the end   *)
(* of its list by themselves: only a list that became shorter does.        *)
(***************************************************************************)
OnlyShorterListsStrand ==
    [][got' = got /\ got[key] # Nil /\ page <= TotalPages => page' <= TotalPages']_vars
=============================================================================
