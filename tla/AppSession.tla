----------------------------- MODULE AppSession -----------------------------
(***************************************************************************)
(* The session of the mobile app: store/auth.store.ts (memory),            *)
(* SecureStore (survives the process), services/authSession.ts and the     *)
(* interceptors of api/client.ts.                                          *)
(*                                                                         *)
(* Every access to SecureStore and every request is awaited, so a login, a *)
(* logout, the 401 of an old request and the submission of KycScreen run   *)
(* through each other, and the system may close the app between any two of *)
(* their steps.  A token is identified with the account it was issued to.  *)
(***************************************************************************)
EXTENDS Naturals

CONSTANTS
    Accounts,    \* accounts used on this phone
    Jobs,        \* async functions that can be in flight together
    MaxStarts,   \* bound: functions started
    Nil          \* "absent"

(* What the constants have to be.                                          *)
SessionAssumption == Nil \notin Accounts /\ MaxStarts \in Nat

VARIABLES
    store,     \* SecureStore: auth_token and auth_user
    mem,       \* useAuthStore: token and user; Nil token: not authenticated
    job,       \* job[j]: an async function and what it captured
    starts,    \* functions started so far
    tangled    \* history: a session was set while another function wrote it

vars == <<store, mem, job, starts, tangled>>

Session == [token : Accounts \cup {Nil}, user : Accounts \cup {Nil}]
NoSession == [token |-> Nil, user |-> Nil]
IdleJob == [pc |-> "idle", token |-> Nil, user |-> Nil]

Init ==
    /\ store = NoSession /\ mem = NoSession
    /\ job = [j \in Jobs |-> IdleJob]
    /\ starts = 0 /\ tangled = FALSE

Setting == {"setToken", "profile", "setSession", "persist", "kyc"}
Ending == {"drop", "delToken", "delUser", "clear"}

(* Two functions are writing the session and one of them sets it.          *)
Crossed(js) ==
    \E j, k \in Jobs : j # k /\ js[j].pc \in Setting /\ js[k].pc \in Setting \cup Ending

Become(j, frame) ==
    /\ job' = [job EXCEPT ![j] = frame]
    /\ tangled' = (tangled \/ Crossed(job'))

Start(j, frame) ==
    /\ job[j].pc = "idle" /\ starts < MaxStarts
    /\ starts' = starts + 1
    /\ Become(j, frame)
    /\ UNCHANGED <<store, mem>>

GoOn(j, pc) == Become(j, [job[j] EXCEPT !.pc = pc]) /\ UNCHANGED starts
End(j) == Become(j, IdleJob) /\ UNCHANGED starts

(* login or verifyOtp answered: establishSession with the tokens of a.     *)
EstablishSession(j, a) ==
    mem.token = Nil /\ Start(j, [pc |-> "setToken", token |-> a, user |-> Nil])

SetToken(j) ==
    /\ job[j].pc = "setToken"
    /\ store' = [store EXCEPT !.token = job[j].token]
    /\ GoOn(j, "profile")
    /\ UNCHANGED mem

(* getProfile carries the token that is stored when it is sent.            *)
GetProfile(j) ==
    /\ job[j].pc = "profile" /\ store.token # Nil
    /\ Become(j, [pc |-> "setSession", token |-> job[j].token, user |-> store.token])
    /\ UNCHANGED <<store, mem, starts>>

(* A request fails without a 401: the function ends with an error.         *)
RequestFails(j) ==
    /\ job[j].pc \in {"profile", "kyc", "api"}
    /\ End(j)
    /\ UNCHANGED <<store, mem>>

(* MUTANT of SetSession: the session is set before its profile is known.   *)
SetSessionEarly(j) ==
    /\ job[j].pc = "setSession"
    /\ mem' = [token |-> job[j].token, user |-> mem.user]
    /\ GoOn(j, "persist")
    /\ UNCHANGED store

SetSession(j) ==
    /\ job[j].pc = "setSession"
    /\ mem' = [token |-> job[j].token, user |-> job[j].user]
    /\ GoOn(j, "persist")
    /\ UNCHANGED store

(* MUTANT of PersistUser: the snapshot is of the user in memory before.    *)
PersistNobody(j) ==
    /\ job[j].pc = "persist"
    /\ End(j)
    /\ UNCHANGED <<store, mem>>

PersistUser(j) ==
    /\ job[j].pc = "persist"
    /\ store' = [store EXCEPT !.user = job[j].user]
    /\ End(j)
    /\ UNCHANGED mem

(* KycScreen.submit captures the session it was rendered with and sets it  *)
(* again, with the new status, after the answer.                           *)
SubmitKyc(j) ==
    mem.token # Nil /\ Start(j, [pc |-> "kyc", token |-> mem.token, user |-> mem.user])

KycAnswered(j) ==
    job[j].pc = "kyc" /\ GoOn(j, "setSession") /\ UNCHANGED <<store, mem>>

(* Any other request of a screen, and its 401 (always when no token was    *)
(* stored): the interceptor deletes the tokens and calls logout.           *)
CallApi(j) ==
    mem.token # Nil /\ Start(j, [pc |-> "api", token |-> store.token, user |-> Nil])

Answered(j) ==
    job[j].pc = "api" /\ job[j].token # Nil /\ End(j) /\ UNCHANGED <<store, mem>>

Unauthorized(j) ==
    /\ job[j].pc \in {"profile", "kyc", "api"}
    /\ GoOn(j, "drop")
    /\ UNCHANGED <<store, mem>>

DropTokens(j) ==
    /\ job[j].pc = "drop"
    /\ store' = [store EXCEPT !.token = Nil]
    /\ GoOn(j, "delToken")
    /\ UNCHANGED mem

(* ProfileScreen's button: logout() without a call of the API.             *)
Logout(j) == mem.token # Nil /\ Start(j, [IdleJob EXCEPT !.pc = "delToken"])

DeleteToken(j) ==
    /\ job[j].pc = "delToken"
    /\ store' = [store EXCEPT !.token = Nil]
    /\ GoOn(j, "delUser")
    /\ UNCHANGED mem

(* MUTANT of DeleteUser: the snapshot of the user is left behind.          *)
DeleteUserNot(j) ==
    job[j].pc = "delUser" /\ GoOn(j, "clear") /\ UNCHANGED <<store, mem>>

DeleteUser(j) ==
    /\ job[j].pc = "delUser"
    /\ store' = [store EXCEPT !.user = Nil]
    /\ GoOn(j, "clear")
    /\ UNCHANGED mem

Clear(j) ==
    /\ job[j].pc = "clear"
    /\ mem' = NoSession
    /\ End(j)
    /\ UNCHANGED store

(* MUTANT of Relaunch: the snapshot of the user alone restores the session. *)
RelaunchByUser ==
    /\ starts < MaxStarts /\ starts' = starts + 1
    /\ mem' = [store EXCEPT !.token = store.user]
    /\ job' = [j \in Jobs |-> IdleJob]
    /\ tangled' = (tangled \/ (store.token = Nil /\ store.user # Nil))
    /\ UNCHANGED store

(* The app is closed and opened: loadStoredAuth needs both items.  A close *)
(* between the two deletions of a logout leaves the user without a token.  *)
Relaunch ==
    /\ starts < MaxStarts /\ starts' = starts + 1
    /\ mem' = IF store.token # Nil /\ store.user # Nil THEN store ELSE NoSession
    /\ job' = [j \in Jobs |-> IdleJob]
    /\ tangled' = (tangled \/ (store.token = Nil /\ store.user # Nil))
    /\ UNCHANGED store

Step(j) ==
    \/ SetToken(j) \/ GetProfile(j) \/ SetSession(j) \/ PersistUser(j)
    \/ KycAnswered(j) \/ Answered(j) \/ RequestFails(j) \/ Unauthorized(j)
    \/ DropTokens(j) \/ DeleteToken(j) \/ DeleteUser(j) \/ Clear(j)

Next ==
    \/ \E j \in Jobs : \/ \E a \in Accounts : EstablishSession(j, a)
                       \/ SubmitKyc(j) \/ CallApi(j) \/ Logout(j)
                       \/ Step(j)
    \/ Relaunch

(* What has begun goes on, as long as the app runs.                        *)
Steps == \A j \in Jobs : WF_vars(Step(j))

Spec == Init /\ [][Next]_vars /\ Steps

TypeOK ==
    /\ store \in Session /\ mem \in Session
    /\ mem.token # Nil => mem.user # Nil
    /\ job \in [Jobs -> [pc : Setting \cup Ending \cup {"idle", "api"},
                         token : Accounts \cup {Nil}, user : Accounts \cup {Nil}]]
    /\ starts \in 0..MaxStarts
    /\ tangled \in BOOLEAN

(***************************************************************************)
(* The app shows the user its requests are made for.  It needs that no     *)
(* session was set while another function wrote it: KycScreen's submit, or *)
(* the late 401 of an old request, breaks it (see the README).             *)
(***************************************************************************)
ShowsItsOwner ==
    ~tangled => /\ mem.user = mem.token
                /\ (mem.token # Nil /\ store.token # Nil) => store.token = mem.token

(***************************************************************************)
(* When nothing is in flight a restart changes nothing: memory and         *)
(* SecureStore hold the same session, or neither holds one.                *)
(***************************************************************************)
RestartKeepsSession ==
    ~tangled /\ (\A j \in Jobs : job[j].pc = "idle") =>
        IF mem.token # Nil THEN store = mem ELSE store.user = Nil

(* A restart signs nobody in: only establishSession does.                  *)
RestartSignsNobodyIn ==
    [][mem.token = Nil /\ mem'.token # Nil /\ ~tangled =>
          \E j \in Jobs : job[j].pc = "setSession"]_vars

(* A logout whose token is deleted reaches the login screen, also when the *)
(* app is closed before its other steps.                                   *)
LogoutEnds ==
    \A j \in Jobs : job[j].pc = "delUser" /\ ~tangled ~> mem.token = Nil
=============================================================================
