-------------------------------- MODULE Admins --------------------------------
(***************************************************************************)
(* The administrators and what they may do: admin-manage.controller.ts,    *)
(* admin-auth.service.ts, JwtStrategy and RolesGuard of the backend, and   *)
(* the Admins and Roles tabs of the panel's settings page.                 *)
(*                                                                         *)
(* A request is judged by the role its row has when the guard runs, and    *)
(* writes later.  The status of the row is looked at by login alone.  The  *)
(* panel compares ids with admin.id, which its login page sets to "me" for *)
(* everybody: no button is ever disabled for one's own row.                *)
(***************************************************************************)
EXTENDS Naturals

CONSTANTS
    Admins,      \* email addresses
    Founder,     \* the administrator the seed creates
    Ttl,         \* JWT_EXPIRES_IN
    MaxTime,     \* bound: ticks
    MaxSends,    \* bound: requests that change a row
    Nil          \* "none"

(* What the constants have to be.                                          *)
AdminsAssumption ==
    Founder \in Admins /\ Nil \notin Admins
    /\ Ttl \in Nat \ {0} /\ MaxTime \in Nat /\ MaxSends \in Nat

VARIABLES
    now,
    row,        \* row[a]: AdminUser, role and status; "NONE": no row
    expires,    \* expires[a]: when the token of a's panel expires; 0: none
    list,       \* list[a]: the rows as a's settings page has them
    choice,     \* choice[a]: the role in the select of EditAdminModal
    target,     \* target[a]: editTarget; Nil: the modal is closed
    call,       \* call[a]: a's request in flight
    sends,
    out,        \* history: out[a]: when a was last deactivated
    risky       \* history: an administrator changed his own row, or acted on
                \* a role or an account that was taken from him meanwhile

desk == <<list, choice, target>>
past == <<out, risky>>
vars == <<now, row, expires, desk, call, sends, past>>

Roles == {"SUPER_ADMIN", "ADMIN", "OPERATOR"}
NoRow == [role |-> "OPERATOR", status |-> "NONE"]
NoCall == [pc |-> "idle", to |-> Nil, field |-> "role", value |-> "OPERATOR", was |-> "OPERATOR"]

Init ==
    /\ now = 0 /\ sends = 0
    /\ row = [a \in Admins |-> IF a = Founder THEN [role |-> "SUPER_ADMIN", status |-> "ACTIVE"]
                               ELSE NoRow]
    /\ expires = [a \in Admins |-> 0]
    /\ list = [a \in Admins |-> [b \in Admins |-> NoRow]]
    /\ choice = [a \in Admins |-> "OPERATOR"] /\ target = [a \in Admins |-> Nil]
    /\ call = [a \in Admins |-> NoCall]
    /\ out = [a \in Admins |-> 0] /\ risky = FALSE

(* MUTANT of Login: the status is not looked at.                           *)
LoginAnyStatus(a) ==
    /\ row[a].status # "NONE"
    /\ expires' = [expires EXCEPT ![a] = now + Ttl]
    /\ UNCHANGED <<now, row, desk, call, sends, past>>

(* AdminAuthService.login.                                                 *)
Login(a) ==
    /\ row[a].status = "ACTIVE"
    /\ expires' = [expires EXCEPT ![a] = now + Ttl]
    /\ UNCHANGED <<now, row, desk, call, sends, past>>

(* JwtStrategy: the token is good and the row exists, whatever its status. *)
Known(a) == expires[a] > now /\ row[a].status # "NONE"

IsSuper(a) == row[a].role = "SUPER_ADMIN"

(* getAdmins, for SUPER_ADMIN only.                                        *)
FetchAdmins(a) ==
    /\ Known(a) /\ IsSuper(a)
    /\ list' = [list EXCEPT ![a] = row]
    /\ UNCHANGED <<now, row, expires, choice, target, call, sends, past>>

(* The Role button: useState(currentRole) has run long ago, so the select  *)
(* still holds OPERATOR or the role chosen for somebody else.              *)
OpenRole(a, b) ==
    /\ list[a][b].status # "NONE"
    /\ target' = [target EXCEPT ![a] = b]
    /\ UNCHANGED <<now, row, expires, list, choice, call, sends, past>>

ChooseRole(a, r) ==
    /\ target[a] # Nil
    /\ choice' = [choice EXCEPT ![a] = r]
    /\ UNCHANGED <<now, row, expires, list, target, call, sends, past>>

(* MUTANT of Send: a request is not guarded at all.                        *)
SendUnguarded(a, b, field, value) ==
    /\ call[a].pc = "idle" /\ sends < MaxSends /\ sends' = sends + 1
    /\ call' = [call EXCEPT ![a] = [NoCall EXCEPT !.pc = "write", !.to = b,
                                                  !.field = field, !.value = value]]
    /\ UNCHANGED <<now, row, expires, past>>

(* A request of the page leaves.                                           *)
Send(a, b, field, value) ==
    /\ call[a].pc = "idle" /\ sends < MaxSends /\ sends' = sends + 1
    /\ call' = [call EXCEPT ![a] = [NoCall EXCEPT !.pc = "guard", !.to = b,
                                                  !.field = field, !.value = value]]
    /\ UNCHANGED <<now, row, expires, past>>

ConfirmRole(a) ==
    target[a] # Nil /\ Send(a, target[a], "role", choice[a]) /\ UNCHANGED desk

(* The Deactivate or Activate button, by the status the list has.          *)
ToggleStatus(a, b) ==
    /\ list[a][b].status # "NONE"
    /\ Send(a, b, "status", IF list[a][b].status = "ACTIVE" THEN "DELETED" ELSE "ACTIVE")
    /\ UNCHANGED desk

(* AddAdminModal, on a tab that is shown to a SUPER_ADMIN.                 *)
AddAdmin(a, b, r) ==
    list[a][a].status # "NONE" /\ Send(a, b, "create", r) /\ UNCHANGED desk

(* deleteAdmin, which the panel has no button for: never the own account.  *)
DeleteAdmin(a, b) ==
    a # b /\ row[b].status # "NONE" /\ Send(a, b, "delete", "DELETED") /\ UNCHANGED desk

(* MUTANT of Guard: any administrator may.                                 *)
GuardAnyAdmin(a) ==
    /\ call[a].pc = "guard"
    /\ call' = [call EXCEPT ![a] = IF Known(a) THEN [@ EXCEPT !.pc = "write", !.was = row[a].role]
                                   ELSE NoCall]
    /\ UNCHANGED <<now, row, expires, desk, sends, past>>

(* JwtAuthGuard, AdminRolesGuard and RolesGuard: 401 or 403 end the call.  *)
Guard(a) ==
    /\ call[a].pc = "guard"
    /\ call' = [call EXCEPT ![a] = IF Known(a) /\ IsSuper(a)
                                   THEN [@ EXCEPT !.pc = "write", !.was = row[a].role]
                                   ELSE NoCall]
    /\ UNCHANGED <<now, row, expires, desk, sends, past>>

(* The row after the update or the insert; an existing email is refused.   *)
Written(c) ==
    CASE c.field = "create" -> IF row[c.to].status = "NONE"
                               THEN [role |-> c.value, status |-> "ACTIVE"] ELSE row[c.to]
      [] c.field = "role"   -> [row[c.to] EXCEPT !.role = c.value]
      [] OTHER              -> [row[c.to] EXCEPT !.status = c.value]

(* updateAdmin, createAdmin or deleteAdmin writes; after the first two the *)
(* page closes the modal and, when it still may, gets the list again.      *)
Write(a) ==
    LET c == call[a] IN
    /\ c.pc = "write" /\ (c.field = "create" \/ row[c.to].status # "NONE")
    /\ row' = [row EXCEPT ![c.to] = Written(c)]
    /\ list' = IF row'[a].role = "SUPER_ADMIN" /\ c.field # "delete"
               THEN [list EXCEPT ![a] = row'] ELSE list
    /\ target' = IF c.field = "role" THEN [target EXCEPT ![a] = Nil] ELSE target
    /\ call' = [call EXCEPT ![a] = NoCall]
    /\ out' = IF row'[c.to].status = "DELETED" /\ row[c.to].status = "ACTIVE"
              THEN [out EXCEPT ![c.to] = now] ELSE out
    /\ risky' = (risky \/ (c.to = a /\ c.field # "create") \/ c.was # row[a].role
                       \/ row[a].status = "DELETED")
    /\ UNCHANGED <<now, expires, choice, sends>>

Tick ==
    /\ now < MaxTime /\ now' = now + 1
    /\ UNCHANGED <<row, expires, desk, call, sends, past>>

Next ==
    \/ \E a \in Admins :
          \/ Login(a) \/ FetchAdmins(a) \/ ConfirmRole(a) \/ Guard(a) \/ Write(a)
          \/ \E b \in Admins : OpenRole(a, b) \/ ToggleStatus(a, b) \/ DeleteAdmin(a, b)
                             \/ \E r \in Roles : AddAdmin(a, b, r)
          \/ \E r \in Roles : ChooseRole(a, r)
    \/ Tick

Spec == Init /\ [][Next]_vars

TypeOK ==
    /\ now \in 0..MaxTime /\ sends \in 0..MaxSends
    /\ row \in [Admins -> [role : Roles, status : {"NONE", "ACTIVE", "DELETED"}]]
    /\ \A a \in Admins :
          /\ call[a].pc \in {"idle", "guard", "write"}
          /\ call[a].pc = "write" => call[a].was = "SUPER_ADMIN"
          /\ row[a].status = "NONE" => expires[a] = 0
    /\ choice \in [Admins -> Roles] /\ target \in [Admins -> Admins \cup {Nil}]

(***************************************************************************)
(* Some active SUPER_ADMIN is left to manage the others, unless one        *)
(* changed his own row, or a request went on for one who had been demoted  *)
(* or deactivated since its guard ran or its token was signed (risky):     *)
(* then nobody may be left, and only the database can help.                *)
(***************************************************************************)
SomebodyManages ==
    risky \/ \E a \in Admins : row[a] = [role |-> "SUPER_ADMIN", status |-> "ACTIVE"]

(***************************************************************************)
(* A deactivated administrator goes on working with his token, but never   *)
(* longer than one token's life.                                           *)
(***************************************************************************)
DeactivatedIsOut ==
    \A a \in Admins : row[a].status = "DELETED" => expires[a] <= out[a] + Ttl
=============================================================================
