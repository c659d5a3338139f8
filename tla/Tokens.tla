-------------------------------- MODULE Tokens --------------------------------
(***************************************************************************)
(* The tokens of one user: issueTokens, refreshToken and logout of         *)
(* backend/src/auth/auth.service.ts and what JwtStrategy accepts.          *)
(*                                                                         *)
(* An access token is good until it expires, whatever happens to the       *)
(* account; a refresh token is a JWT whose row must exist.  Every handler  *)
(* reads the account or the row before it awaits a signature, so a logout  *)
(* or a suspension may come in between.                                    *)
(***************************************************************************)
EXTENDS Naturals, Sequences

CONSTANTS
    Slots,         \* requests that can be in flight together
    AccessTtl,     \* JWT_EXPIRES_IN
    RefreshTtl,    \* JWT_REFRESH_EXPIRES_IN
    MaxTime,       \* bound: ticks of the clock
    MaxRows,       \* bound: refresh tokens ever issued
    Nil            \* "none"

(* What the constants have to be.                                          *)
TokensAssumption ==
    /\ AccessTtl \in Nat \ {0} /\ RefreshTtl \in Nat \ {0}
    /\ MaxTime \in Nat /\ MaxRows \in Nat /\ Nil \notin Nat

VARIABLES
    now,        \* the clock
    status,     \* User.status
    rows,       \* ids of the RefreshToken rows
    issued,     \* every refresh token handed out: expiresAt of its row, expiry of its JWT
    access,     \* access tokens handed out that have not expired
    call,       \* call[t]: the request of slot t
    barred,     \* history: when the account was last suspended; Nil: it is active
    revoked     \* history: ids deleted by a logout

vars == <<now, status, rows, issued, access, call, barred, revoked>>
clock == <<now, status, barred>>

Ids == 1..MaxRows
IdleCall == [pc |-> "idle", id |-> 0, exp |-> 0, late |-> FALSE, dead |-> FALSE]

Init ==
    /\ now = 0 /\ status = "ACTIVE"
    /\ rows = {} /\ issued = <<>>
    /\ access = {}
    /\ call = [t \in Slots |-> IdleCall]
    /\ barred = Nil /\ revoked = {}

Goto(t, pc) == call' = [call EXCEPT ![t].pc = pc]
Leave(t) == call' = [call EXCEPT ![t] = IdleCall]

(* login, after the password: only an active account goes on.              *)
BeginLogin(t) ==
    /\ call[t].pc = "idle" /\ status = "ACTIVE"
    /\ Goto(t, "sign")
    /\ UNCHANGED <<clock, rows, issued, access, revoked>>

(* signAccessToken; late: the account was suspended, or the tokens revoked, *)
(* while the request was in flight.                                        *)
AccessOf(t) == [exp |-> now + AccessTtl, late |-> call[t].late, dead |-> call[t].dead]

(* issueTokens: the access token is signed, then the row is created ...    *)
SignAccess(t) ==
    /\ call[t].pc = "sign"
    /\ access' = access \cup {AccessOf(t)}
    /\ call' = [call EXCEPT ![t].pc = "row", ![t].exp = now + RefreshTtl]
    /\ UNCHANGED <<clock, rows, issued, revoked>>

(* MUTANT of CreateRow: the JWT is signed before its row is dated.         *)
CreateRowAfter(t) ==
    /\ call[t].pc = "row"
    /\ Len(issued) < MaxRows
    /\ issued' = Append(issued, [row |-> now + RefreshTtl, jwt |-> call[t].exp])
    /\ rows' = rows \cup {Len(issued')}
    /\ Leave(t)
    /\ UNCHANGED <<clock, access, revoked>>

(* ... and the refresh JWT is signed for it, later than it was dated.      *)
CreateRow(t) ==
    /\ call[t].pc = "row"
    /\ Len(issued) < MaxRows
    /\ issued' = Append(issued, [row |-> call[t].exp, jwt |-> now + RefreshTtl])
    /\ rows' = rows \cup {Len(issued')}
    /\ Leave(t)
    /\ UNCHANGED <<clock, access, revoked>>

LookupCall(i, dead) ==
    [pc |-> "lookup", id |-> i, exp |-> 0, late |-> FALSE, dead |-> dead]

(* refreshToken: the JWT is verified (its own expiry) ...                  *)
BeginRefresh(t, i) ==
    /\ call[t].pc = "idle"
    /\ i \in DOMAIN issued /\ issued[i].jwt > now
    /\ call' = [call EXCEPT ![t] = LookupCall(i, i \in revoked)]
    /\ UNCHANGED <<clock, rows, issued, access, revoked>>

(* MUTANT of Lookup: an expired row is used up by its first lookup.        *)
LookupOnce(t) ==
    LET i == call[t].id IN
    /\ call[t].pc = "lookup"
    /\ IF i \in rows THEN Goto(t, "account") ELSE Leave(t)
    /\ rows' = rows \ {i}
    /\ UNCHANGED <<clock, issued, access, revoked>>

(* MUTANT of Lookup: the signature of the JWT is taken for enough.         *)
LookupTrusting(t) ==
    /\ call[t].pc = "lookup"
    /\ Goto(t, "account")
    /\ UNCHANGED <<clock, rows, issued, access, revoked>>

(* ... its row is looked up; a row that has expired is to be deleted.      *)
Lookup(t) ==
    LET i == call[t].id IN
    /\ call[t].pc = "lookup"
    /\ IF i \notin rows THEN Leave(t)
       ELSE Goto(t, IF issued[i].row < now THEN "delete" ELSE "account")
    /\ UNCHANGED <<clock, rows, issued, access, revoked>>

(* The delete; when the row has gone meanwhile it throws: 500, not 401.    *)
DeleteExpired(t) ==
    /\ call[t].pc = "delete"
    /\ rows' = rows \ {call[t].id}
    /\ Leave(t)
    /\ UNCHANGED <<clock, issued, access, revoked>>

(* MUTANT of ReadAccount: the status of the account is not looked at.      *)
ReadAccountBlind(t) ==
    /\ call[t].pc = "account"
    /\ Goto(t, "signed")
    /\ UNCHANGED <<clock, rows, issued, access, revoked>>

(* ... the account must be active ...                                      *)
ReadAccount(t) ==
    /\ call[t].pc = "account"
    /\ IF status = "ACTIVE" THEN Goto(t, "signed")
       ELSE Leave(t)
    /\ UNCHANGED <<clock, rows, issued, access, revoked>>

(* ... and an access token is signed for it.                               *)
SignRefreshed(t) ==
    /\ call[t].pc = "signed"
    /\ access' = access \cup {AccessOf(t)}
    /\ Leave(t)
    /\ UNCHANGED <<clock, rows, issued, revoked>>

(* JwtStrategy.validate: the user exists and the token has not expired.    *)
Accepts(a) == a.exp > now

(* logout, by a request with an access token.                              *)
Logout ==
    /\ \E a \in access : Accepts(a)
    /\ revoked' = revoked \cup rows
    /\ rows' = {}
    /\ UNCHANGED <<clock, issued, access, call>>

(* updateStatus of the panel: SUSPENDED, and back.                         *)
Suspend ==
    /\ status = "ACTIVE" /\ status' = "SUSPENDED" /\ barred' = now
    /\ call' = [t \in Slots |-> [call[t] EXCEPT !.late = call[t].pc # "idle"]]
    /\ UNCHANGED <<now, rows, issued, access, revoked>>

Reinstate ==
    /\ status = "SUSPENDED" /\ status' = "ACTIVE" /\ barred' = Nil
    /\ UNCHANGED <<now, rows, issued, access, call, revoked>>

Tick ==
    /\ now < MaxTime /\ now' = now + 1
    /\ access' = {a \in access : a.exp > now'}
    /\ UNCHANGED <<status, rows, issued, call, barred, revoked>>

Next ==
    \/ \E t \in Slots :
          \/ BeginLogin(t) \/ SignAccess(t) \/ CreateRow(t)
          \/ \E i \in Ids : BeginRefresh(t, i)
          \/ Lookup(t) \/ DeleteExpired(t) \/ ReadAccount(t) \/ SignRefreshed(t)
    \/ Logout \/ Suspend \/ Reinstate \/ Tick

Spec == Init /\ [][Next]_vars

TypeOK ==
    /\ now \in 0..MaxTime /\ status \in {"ACTIVE", "SUSPENDED"}
    /\ rows \subseteq DOMAIN issued /\ DOMAIN issued \subseteq Ids
    /\ \A i \in DOMAIN issued : issued[i].row <= issued[i].jwt
    /\ access \subseteq [exp : Nat, late : BOOLEAN, dead : BOOLEAN]
    /\ \A t \in Slots : call[t].pc \in
          {"idle", "sign", "row", "lookup", "delete", "account", "signed"}
    /\ barred = Nil <=> status = "ACTIVE"

(***************************************************************************)
(* A suspended account is out one access token's life after the            *)
(* suspension: only a request that was in flight when it came can leave a  *)
(* token that lives longer.                                                *)
(***************************************************************************)
SuspendedIsOut ==
    barred # Nil => \A a \in access : Accepts(a) => a.late \/ a.exp <= barred + AccessTtl

(* A refresh that began after a logout revoked its token yields nothing.   *)
RevokedYieldsNothing == \A a \in access : ~a.dead

(***************************************************************************)
(* A refresh that finds no row is one whose row a logout deleted, or that  *)
(* expired: neither a refresh nor a login of another device ends a session. *)
(***************************************************************************)
OnlyLogoutRevokes ==
    \A i \in DOMAIN issued \ rows : i \in revoked \/ issued[i].row < now
=============================================================================
