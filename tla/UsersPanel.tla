------------------------------ MODULE UsersPanel ------------------------------
(***************************************************************************)
(* The panel's users page, its drawer and the full page of one user: the   *)
(* rows it has got, the dialogs that keep a row while they are open, and   *)
(* the requests the three of them send.                                    *)
(***************************************************************************)
EXTENDS Naturals, FiniteSets

CONSTANTS
    Users,
    Slots,        \* bound: requests under way at once
    MaxPuts,      \* bound: requests sent
    Nil           \* no dialog, nothing known

Statuses == {"ACTIVE", "SUSPENDED"}
Levels == {"NORMAL", "GOLD"}      \* two of the four
KycStatuses == {"PENDING", "VERIFIED", "REJECTED"}
Queries == {"users", "user"}      \* the table; the drawer and the full page

(* What the constants have to be.                                          *)
UsersPanelAssumption == IsFiniteSet(Slots) /\ MaxPuts \in Nat /\ Nil \notin Users

VARIABLES
    user,         \* user[u]: the row: status, level, kyc
    seen,         \* seen[q][u]: what query q has of it
    statusDlg,    \* statusTarget: the user and the status it had when opened
    memberDlg,    \* membershipTarget: the user
    level,        \* the level selected in MembershipModal
    put,          \* put[s]: a request under way: user, field, value
    puts,
    twice,        \* history: users a dialog was confirmed twice for
    told,         \* told[u]: history: the status last announced as saved
    late          \* history: users decided on with an old row, or twice at once

vars == <<user, seen, statusDlg, memberDlg, level, put, puts, twice, told, late>>
dialogs == <<statusDlg, memberDlg, level>>
history == <<twice, told, late>>

NoPut == [pc |-> "idle", u |-> Nil, field |-> "status", value |-> Nil]

Init ==
    /\ user = [u \in Users |-> [status |-> "ACTIVE", level |-> "NORMAL", kyc |-> "PENDING"]]
    /\ seen = [q \in Queries |-> user]
    /\ statusDlg = Nil /\ memberDlg = Nil /\ level = "NORMAL"
    /\ put = [s \in Slots |-> NoPut] /\ puts = 0
    /\ twice = {} /\ told = [u \in Users |-> Nil] /\ late = {}

(* An answer of getUsers or getUserById is shown.                          *)
Got(q, u) ==
    /\ seen' = [seen EXCEPT ![q][u] = user[u]]
    /\ UNCHANGED <<user, put, puts>> /\ UNCHANGED <<dialogs, history>>

(* submitKyc of the customer.                                              *)
CustomerSubmits(u) ==
    /\ user[u].kyc # "VERIFIED"
    /\ user' = [user EXCEPT ![u].kyc = "PENDING"]
    /\ UNCHANGED <<seen, put, puts>> /\ UNCHANGED <<dialogs, history>>

Opposite(status) == IF status = "ACTIVE" THEN "SUSPENDED" ELSE "ACTIVE"
InFlight(u, field) == \E s \in Slots : put[s].u = u /\ put[s].field = field

Sends(s, u, field, value) ==
    /\ puts < MaxPuts /\ puts' = puts + 1 /\ put[s].pc = "idle"
    /\ put' = [put EXCEPT ![s] = [pc |-> "write", u |-> u, field |-> field, value |-> value]]

(* MUTANT of OpenStatus: it opens over the other dialog.                   *)
OpenStatusOver(q, u) ==
    /\ statusDlg = Nil /\ statusDlg' = [u |-> u, status |-> seen[q][u].status]
    /\ UNCHANGED <<user, seen, memberDlg, level, put, puts>> /\ UNCHANGED history

(* "Suspend" in the row's menu or the drawer.                              *)
OpenStatus(q, u) ==
    /\ statusDlg = Nil /\ memberDlg = Nil
    /\ statusDlg' = [u |-> u, status |-> seen[q][u].status]
    /\ UNCHANGED <<user, seen, memberDlg, level, put, puts>> /\ UNCHANGED history

(* The button is not disabled while a confirmation is under way.           *)
ConfirmStatus(s) ==
    /\ statusDlg # Nil
    /\ Sends(s, statusDlg.u, "status", Opposite(statusDlg.status))
    /\ twice' = IF InFlight(statusDlg.u, "status") THEN twice \cup {statusDlg.u} ELSE twice
    /\ UNCHANGED <<user, seen, told, late>> /\ UNCHANGED dialogs

(* The full page has a button and no dialog.                               *)
ToggleStatus(s, u) ==
    /\ Sends(s, u, "status", Opposite(seen["user"][u].status))
    /\ twice' = IF InFlight(u, "status") THEN twice \cup {u} ELSE twice
    /\ UNCHANGED <<user, seen, told, late>> /\ UNCHANGED dialogs

(* "Edit" or "Change Membership"; the modal stays mounted: useState gives  *)
(* the selected level its first value only once.                           *)
OpenMember(u) ==
    /\ statusDlg = Nil /\ memberDlg = Nil
    /\ memberDlg' = u
    /\ UNCHANGED <<user, seen, statusDlg, level, put, puts>> /\ UNCHANGED history

Select(l) ==
    /\ memberDlg # Nil /\ level' = l
    /\ UNCHANGED <<user, seen, statusDlg, memberDlg, put, puts>> /\ UNCHANGED history

ConfirmMember(s) ==
    /\ memberDlg # Nil
    /\ Sends(s, memberDlg, "level", level)
    /\ UNCHANGED <<user, seen>> /\ UNCHANGED <<dialogs, history>>

(* The selects of the drawer and the full page send what is selected.      *)
SelectAtOnce(s, u, l) ==
    /\ Sends(s, u, "level", l)
    /\ UNCHANGED <<user, seen>> /\ UNCHANGED <<dialogs, history>>

Cancel ==
    /\ statusDlg # Nil \/ memberDlg # Nil
    /\ statusDlg' = Nil /\ memberDlg' = Nil
    /\ UNCHANGED <<user, seen, level, put, puts>> /\ UNCHANGED history

(* MUTANT of DecideEnabled: the buttons are there for every customer.      *)
DecideEnabledAlways(u) == TRUE

DecideEnabled(u) == seen["user"][u].kyc = "PENDING"

(* Approve KYC, Reject KYC.                                                *)
Decide(s, u, v) ==
    /\ DecideEnabled(u) /\ Sends(s, u, "kyc", v)
    /\ late' = IF user[u].kyc # seen["user"][u].kyc \/ InFlight(u, "kyc") THEN late \cup {u} ELSE late
    /\ UNCHANGED <<user, seen, twice, told>> /\ UNCHANGED dialogs

(* MUTANT of Written: the status is flipped.                               *)
WrittenFlip(r, p) ==
    IF p.field = "status" THEN [r EXCEPT !.status = Opposite(@)] ELSE [r EXCEPT ![p.field] = p.value]

(* updateUserStatus, updateMembership, updateKycStatus: no condition.      *)
Written(r, p) == [r EXCEPT ![p.field] = p.value]

Write(s) ==
    /\ put[s].pc = "write" /\ put' = [put EXCEPT ![s].pc = "answer"]
    /\ user' = [user EXCEPT ![put[s].u] = Written(@, put[s])]
    /\ UNCHANGED <<seen, puts>> /\ UNCHANGED <<dialogs, history>>

(* Whatever dialog of its kind is open by now is closed.                   *)
Saved(s) ==
    /\ put[s].pc = "answer" /\ put' = [put EXCEPT ![s] = NoPut]
    /\ statusDlg' = IF put[s].field = "status" THEN Nil ELSE statusDlg
    /\ memberDlg' = IF put[s].field = "level" THEN Nil ELSE memberDlg
    /\ told' = IF put[s].field = "status" THEN [told EXCEPT ![put[s].u] = put[s].value] ELSE told
    /\ UNCHANGED <<user, seen, level, puts, twice, late>>

(* The request or its answer is lost; the dialog stays.                    *)
Failed(s) ==
    /\ put[s].pc # "idle" /\ put' = [put EXCEPT ![s] = NoPut]
    /\ told' = IF put[s].field = "status" THEN [told EXCEPT ![put[s].u] = Nil] ELSE told
    /\ UNCHANGED <<user, seen, puts, twice, late>> /\ UNCHANGED dialogs

Next ==
    \/ Cancel
    \/ \E u \in Users : CustomerSubmits(u) \/ OpenMember(u)
    \/ \E q \in Queries, u \in Users : Got(q, u) \/ OpenStatus(q, u)
    \/ \E l \in Levels : Select(l)
    \/ \E s \in Slots : ConfirmStatus(s) \/ ConfirmMember(s) \/ Write(s) \/ Saved(s) \/ Failed(s)
    \/ \E s \in Slots, u \in Users :
          \/ ToggleStatus(s, u)
          \/ \E l \in Levels : SelectAtOnce(s, u, l)
          \/ \E v \in {"VERIFIED", "REJECTED"} : Decide(s, u, v)

Spec == Init /\ [][Next]_vars
-----------------------------------------------------------------------------
TypeOK ==
    /\ user \in [Users -> [status : Statuses, level : Levels, kyc : KycStatuses]]
    /\ puts \in 0..MaxPuts /\ Cardinality({s \in Slots : put[s].pc # "idle"}) <= puts
    /\ ~(statusDlg # Nil /\ memberDlg # Nil)

(***************************************************************************)
(* The API sets any status; the page sends the opposite of the one it has. *)
(* As long as no request for the same customer is sent while one is under  *)
(* way, the status that was last announced as saved is the customer's,     *)
(* however old the row was it was chosen from.                             *)
(***************************************************************************)
SavedStatusHolds ==
    \A u \in Users \ twice : told[u] # Nil /\ ~InFlight(u, "status") => user[u].status = told[u]

(***************************************************************************)
(* The API decides on a customer who is decided already; the buttons do    *)
(* not.  Nobody is decided on twice without submitting again, as long as   *)
(* nobody decides with an old row or twice at once.                        *)
(***************************************************************************)
DecidedOnce ==
    [][\A u \in Users \ late : user'[u].kyc \in {"VERIFIED", "REJECTED"} /\ user'[u].kyc # user[u].kyc
                               => user[u].kyc = "PENDING"]_vars
=============================================================================
