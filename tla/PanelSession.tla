----------------------------- MODULE PanelSession -----------------------------
(***************************************************************************)
(* The session of the admin panel in one browser: store/auth.store.ts,     *)
(* lib/auth.ts, lib/api.ts, the login page and the dashboard's layout.     *)
(*                                                                         *)
(* The token and the snapshot of the administrator are shared by the tabs  *)
(* (cookie and localStorage, written and removed together); each tab holds *)
(* a copy in its store.  A request carries the shared token, the header    *)
(* shows the tab's administrator.  A 401 of any request, a refused login   *)
(* included, removes the shared token and reloads the tab at /login.       *)
(***************************************************************************)
EXTENDS Naturals, Sequences

CONSTANTS
    Tabs, Admins,
    MaxLogins,    \* bound: successful logins
    Nil           \* "none"

(* What the constants have to be.                                          *)
PanelSessionAssumption == MaxLogins \in Nat /\ Nil \notin Admins

VARIABLES
    owner,      \* owner[i]: the administrator of the i-th token issued
    expired,    \* tokens that have expired
    stored,     \* admin_token; 0: none
    snapshot,   \* admin_user
    persisted,  \* gold-admin-auth: the store the last tab wrote
    tab,        \* tab[t]: page and store
    form,       \* form[t]: the administrator whose login is in flight; Nil: none
    call,       \* call[t]: the token of the panel's request in flight; Nil: none
    crossed     \* history: another tab logged in since tab t was loaded

shared == <<owner, expired, stored, snapshot, persisted>>
vars == <<shared, tab, form, call, crossed>>

Tokens == 0..MaxLogins
Empty == [token |-> 0, admin |-> Nil]

Init ==
    /\ owner = <<>> /\ expired = {}
    /\ stored = 0 /\ snapshot = Nil /\ persisted = Empty
    /\ tab = [t \in Tabs |-> [page |-> "login", store |-> Empty]]
    /\ form = [t \in Tabs |-> Nil] /\ call = [t \in Tabs |-> Nil]
    /\ crossed = [t \in Tabs |-> FALSE]

(* set(): the persist middleware writes the store of the tab.              *)
SetStore(t, page, store) ==
    /\ tab' = [tab EXCEPT ![t] = [page |-> page, store |-> store]]
    /\ persisted' = store

(* MUTANT of Load: the persisted store is trusted as it is.                *)
LoadPersisted(t, tok) ==
    /\ SetStore(t, IF persisted.token # 0 THEN "panel" ELSE "login", persisted)
    /\ form' = [form EXCEPT ![t] = Nil] /\ call' = [call EXCEPT ![t] = Nil]
    /\ crossed' = [crossed EXCEPT ![t] = FALSE]

(* MUTANT of Load: the layout goes by the administrator, not by the token. *)
LoadByAdmin(t, tok) ==
    /\ SetStore(t, IF snapshot # Nil THEN "panel" ELSE "login", [token |-> tok, admin |-> snapshot])
    /\ form' = [form EXCEPT ![t] = Nil] /\ call' = [call EXCEPT ![t] = Nil]
    /\ crossed' = [crossed EXCEPT ![t] = FALSE]

(* A page load: hydrateFromStorage overrides what persist restored, and    *)
(* the layout sends a tab without a token to /login.                       *)
Load(t, tok) ==
    /\ SetStore(t, IF tok # 0 THEN "panel" ELSE "login", [token |-> tok, admin |-> snapshot])
    /\ form' = [form EXCEPT ![t] = Nil] /\ call' = [call EXCEPT ![t] = Nil]
    /\ crossed' = [crossed EXCEPT ![t] = FALSE]

Open(t) ==
    /\ Load(t, stored)
    /\ UNCHANGED <<owner, expired, stored, snapshot>>

(* The login form is sent.                                                 *)
SubmitLogin(t, a) ==
    /\ tab[t].page = "login" /\ form[t] = Nil
    /\ form' = [form EXCEPT ![t] = a]
    /\ UNCHANGED <<shared, tab, call, crossed>>

(* MUTANT of LoggedIn: the snapshot of the last administrator is kept.     *)
LoggedInKeeping(t) ==
    LET a == form[t] IN
    /\ a # Nil /\ Len(owner) < MaxLogins
    /\ owner' = Append(owner, a)
    /\ stored' = Len(owner')
    /\ snapshot' = IF snapshot = Nil THEN a ELSE snapshot
    /\ SetStore(t, "panel", [token |-> Len(owner'), admin |-> a])
    /\ form' = [form EXCEPT ![t] = Nil]
    /\ crossed' = [u \in Tabs |-> IF u = t THEN FALSE ELSE TRUE]
    /\ UNCHANGED <<expired, call>>

(* setAuth, and on to the dashboard: the other tabs keep their stores.     *)
LoggedIn(t) ==
    LET a == form[t] IN
    /\ a # Nil /\ Len(owner) < MaxLogins
    /\ owner' = Append(owner, a)
    /\ stored' = Len(owner') /\ snapshot' = a
    /\ SetStore(t, "panel", [token |-> Len(owner'), admin |-> a])
    /\ form' = [form EXCEPT ![t] = Nil]
    /\ crossed' = [u \in Tabs |-> u # t]
    /\ UNCHANGED <<expired, call>>

(* MUTANT of Unauthorized: the token is removed and the page stays.        *)
UnauthorizedQuiet(t) ==
    /\ stored' = 0
    /\ form' = [form EXCEPT ![t] = Nil] /\ call' = [call EXCEPT ![t] = Nil]
    /\ UNCHANGED <<owner, expired, snapshot, persisted, tab, crossed>>

(* The 401 of the interceptor: the snapshot stays.                         *)
Unauthorized(t) ==
    /\ stored' = 0
    /\ Load(t, 0)
    /\ UNCHANGED <<owner, expired, snapshot>>

(* Wrong password: its 401 ends whatever session the browser has, and the  *)
(* reload takes the form's message with it.                                *)
LoginRefused(t) == form[t] # Nil /\ Unauthorized(t)

(* Any request of a page of the dashboard.                                 *)
Request(t) ==
    /\ tab[t].page = "panel" /\ call[t] = Nil
    /\ call' = [call EXCEPT ![t] = stored]
    /\ UNCHANGED <<shared, tab, form, crossed>>

(* Its answer, also when the tab has logged out and in again meanwhile.    *)
Answered(t) ==
    /\ call[t] # Nil
    /\ IF call[t] # 0 /\ call[t] \notin expired
       THEN call' = [call EXCEPT ![t] = Nil] /\ UNCHANGED <<shared, tab, form, crossed>>
       ELSE Unauthorized(t)

(* The network fails: the page shows the error and stays.                  *)
Failed(t) ==
    /\ form[t] # Nil \/ call[t] # Nil
    /\ form' = [form EXCEPT ![t] = Nil] /\ call' = [call EXCEPT ![t] = Nil]
    /\ UNCHANGED <<shared, tab, crossed>>

(* The buttons of Header and Sidebar; a client-side push: a request in     *)
(* flight goes on.                                                         *)
Logout(t) ==
    /\ tab[t].page = "panel"
    /\ stored' = 0 /\ snapshot' = Nil
    /\ SetStore(t, "login", Empty)
    /\ UNCHANGED <<owner, expired, form, call, crossed>>

Expire(i) ==
    /\ i \in DOMAIN owner \ expired
    /\ expired' = expired \cup {i}
    /\ UNCHANGED <<owner, stored, snapshot, persisted, tab, form, call, crossed>>

Next ==
    \/ \E t \in Tabs : \/ \E a \in Admins : SubmitLogin(t, a)
                       \/ Open(t) \/ LoggedIn(t) \/ LoginRefused(t)
                       \/ Request(t) \/ Answered(t) \/ Failed(t) \/ Logout(t)
    \/ \E i \in Tokens : Expire(i)

(* The administrator goes on using the tab, and the backend answers some   *)
(* request of those that are repeated.                                     *)
GoesOn == \A t \in Tabs : WF_vars(Request(t)) /\ SF_vars(Answered(t))

Spec == Init /\ [][Next]_vars /\ GoesOn

TypeOK ==
    /\ owner \in Seq(Admins) /\ Len(owner) <= MaxLogins
    /\ expired \subseteq DOMAIN owner
    /\ stored \in 0..Len(owner) /\ snapshot \in Admins \cup {Nil}
    /\ persisted \in [token : 0..Len(owner), admin : Admins \cup {Nil}]
    /\ \A t \in Tabs :
          /\ tab[t].page \in {"login", "panel"}
          /\ tab[t].page = "panel" <=> tab[t].store.token # 0
          /\ form[t] \in Admins \cup {Nil} /\ (call[t] = Nil \/ call[t] \in 0..Len(owner))
    /\ crossed \in [Tabs -> BOOLEAN]

(***************************************************************************)
(* The administrator a tab shows is the one its requests act for, as long  *)
(* as no other tab of the browser has logged in since the tab was loaded:  *)
(* such a tab acts for the newcomer and shows the former administrator.    *)
(***************************************************************************)
ShowsWhoActs ==
    \A t \in Tabs : tab[t].page = "panel" /\ stored # 0 /\ ~crossed[t] =>
        tab[t].store.admin = owner[stored]

(***************************************************************************)
(* Once the shared token is gone (a logout, a 401), no tab enters the      *)
(* panel before a login, whatever the persisted store still says.          *)
(***************************************************************************)
SignedOutStaysOut ==
    [][\A t \in Tabs : tab[t].page = "login" /\ tab'[t].page = "panel" => stored' # 0]_vars

(***************************************************************************)
(* A logout ends the panel in every tab: one that is still open leaves at  *)
(* the answer to its next request, unless somebody logs in again.          *)
(***************************************************************************)
LogoutReachesTabs ==
    \A t \in Tabs :
        (stored = 0 /\ tab[t].page = "panel") ~> (tab[t].page = "login" \/ stored # 0)
=============================================================================
