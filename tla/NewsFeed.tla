------------------------------- MODULE NewsFeed -------------------------------
(***************************************************************************)
(* The news as the app reads them: pages of the published rows, the latest *)
(* publication first, one page after the other while news are published,   *)
(* taken back and dated anew.  A page is the set of its rows: what matters *)
(* is which rows come before which others, not their order on the page.    *)
(***************************************************************************)
EXTENDS Naturals, Sequences, FiniteSets

CONSTANTS
    News,
    FirstAt,      \* FirstAt[n]: the publication date of those published, or 0
    Now,          \* new Date() before the first change
    Limit,        \* rows of a page: 10 in the app
    MaxChanges    \* bound: changes of the news

(* What the constants have to be.                                          *)
NewsFeedAssumption ==
    /\ IsFiniteSet(News) /\ Now \in Nat /\ FirstAt \in [News -> 0..Now]
    /\ \A m, n \in News : m # n /\ FirstAt[m] = FirstAt[n] => FirstAt[n] = 0
    /\ Limit \in Nat \ {0} /\ MaxChanges \in Nat

VARIABLES
    at,           \* at[n]: publishedAt; 0: none
    public,       \* the news that are published
    changes,
    pages,        \* news.data.pages
    fetch,        \* the pages a fetch has got so far, and how many it wants
    shownSeen,    \* history: the changes since the first page shown was read
    fetchSeen     \* history: the same for the fetch

vars == <<at, public, changes, pages, fetch, shownSeen, fetchSeen>>

Idle == [on |-> FALSE, got |-> <<>>, want |-> 0]
Kinds == {"added", "removed", "moved"}

Init ==
    /\ at = FirstAt /\ public = {n \in News : FirstAt[n] > 0} /\ changes = 0
    /\ pages = <<>> /\ fetch = Idle /\ shownSeen = {} /\ fetchSeen = {}

(* new Date(): later than every date there is.                             *)
Latest == Now + changes + 1

Changes(kind, n) ==
    /\ changes < MaxChanges /\ changes' = changes + 1
    /\ shownSeen' = shownSeen \cup {<<kind, n>>} /\ fetchSeen' = fetchSeen \cup {<<kind, n>>}
    /\ UNCHANGED <<pages, fetch>>

(* Published for the first time, or again with the date it had.            *)
Publish(n) ==
    /\ n \notin public /\ public' = public \cup {n}
    /\ at' = IF at[n] = 0 THEN [at EXCEPT ![n] = Latest] ELSE at
    /\ Changes("added", n)

Withdraw(n) ==
    /\ n \in public /\ public' = public \ {n} /\ Changes("removed", n) /\ UNCHANGED at

(* The form sets the date.                                                 *)
Redate(n) ==
    /\ n \in public /\ at' = [at EXCEPT ![n] = Latest] /\ Changes("moved", n) /\ UNCHANGED public

(* orderBy of getPublishedNews: the rows that come before n.               *)
Before(n) == Cardinality({m \in public : at[m] > at[n]})

(* where, skip and take.                                                   *)
Slice(skip) == {n \in public : skip <= Before(n) /\ Before(n) < skip + Limit}

(* MUTANTS of Page: off by one, either way.                                *)
PageOverlaps(p) == Slice((p - 1) * (Limit - 1))
PageSkips(p) == Slice((p - 1) * (Limit + 1))

Page(p) == Slice((p - 1) * Limit)

(* MUTANT of NextPage: a page that is not empty has a next one.            *)
NextPageAny(got) == got # <<>> => got[Len(got)] # {}

(* getNextPageParam: whether there is a page after those got.              *)
NextPage(got) == got # <<>> => Cardinality(got[Len(got)]) >= Limit

(* The first page, the next one at the end of the list, or all that are    *)
(* shown once more.                                                        *)
Start ==
    /\ ~fetch.on /\ NextPage(pages)
    /\ fetch' = [on |-> TRUE, got |-> pages, want |-> Len(pages) + 1]
    /\ fetchSeen' = shownSeen
    /\ UNCHANGED <<at, public, changes, pages, shownSeen>>

Refetch ==
    /\ ~fetch.on /\ pages # <<>>
    /\ fetch' = [on |-> TRUE, got |-> <<>>, want |-> Len(pages)]
    /\ UNCHANGED <<at, public, changes, pages, shownSeen, fetchSeen>>

(* A page is read; the list is shown when the last one has come.           *)
ReadPage ==
    /\ fetch.on
    /\ LET got == Append(fetch.got, Page(Len(fetch.got) + 1))
           seen == IF fetch.got = <<>> THEN {} ELSE fetchSeen IN
       IF Len(got) < fetch.want /\ NextPage(got)
       THEN /\ fetch' = [on |-> TRUE, got |-> got, want |-> fetch.want] /\ fetchSeen' = seen
            /\ UNCHANGED <<pages, shownSeen>>
       ELSE fetch' = Idle /\ pages' = got /\ shownSeen' = seen /\ UNCHANGED fetchSeen
    /\ UNCHANGED <<at, public, changes>>

(* What is shown stays when a page cannot be got.                          *)
FetchFails ==
    /\ fetch.on /\ fetch' = Idle
    /\ UNCHANGED <<at, public, changes, pages, shownSeen, fetchSeen>>

Next ==
    \/ \E n \in News : Publish(n) \/ Withdraw(n) \/ Redate(n)
    \/ Start \/ Refetch \/ ReadPage \/ FetchFails

Spec == Init /\ [][Next]_vars
-----------------------------------------------------------------------------
Shown == UNION {pages[i] : i \in DOMAIN pages}

TypeOK ==
    /\ at \in [News -> Nat] /\ public \subseteq News /\ changes \in 0..MaxChanges
    /\ \A p \in {pages, fetch.got} : \A i \in DOMAIN p : /\ p[i] \subseteq News /\ Cardinality(p[i]) <= Limit
                                                       /\ i < Len(p) => Cardinality(p[i]) = Limit
    /\ shownSeen \cup fetchSeen \subseteq Kinds \X News

(***************************************************************************)
(* A row can only be shown twice (the list has it twice under one key) if  *)
(* something was published or dated anew between the reading of two of the *)
(* pages shown; what is only taken back repeats nothing.                   *)
(***************************************************************************)
OnlyAdditionsRepeat ==
    (\E i, j \in DOMAIN pages : i # j /\ pages[i] \cap pages[j] # {}) =>
        \E n \in News : <<"added", n>> \in shownSeen \/ <<"moved", n>> \in shownSeen

(***************************************************************************)
(* A list read to its end has every row that was published all the while,  *)
(* unless something was taken back or dated anew: what is added, at the    *)
(* top or among the old ones, can hide nothing but itself.                 *)
(***************************************************************************)
AdditionsHideNone ==
    pages # <<>> /\ ~NextPage(pages) /\ (\A n \in News : {<<"removed", n>>, <<"moved", n>>} \cap shownSeen = {}) =>
        {n \in public : <<"added", n>> \notin shownSeen} \subseteq Shown
=============================================================================
