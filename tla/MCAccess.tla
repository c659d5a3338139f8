------------------------------- MODULE MCAccess -------------------------------
(***************************************************************************)
(* The modules that decide who gets in and what an administrator may       *)
(* change, side by side: the lockout, the tokens of a customer, the        *)
(* administrators' own rows, the settings and the users of the panel.      *)
(*                                                                         *)
(* They share no state.  A behaviour follows one of them, `part', chosen   *)
(* in the initial state, while the others rest.                            *)
(***************************************************************************)
EXTENDS TLC

CONSTANTS
    Phones, Registered, Tries, MaxFailures, Block, MaxNow, MaxRestarts,
    Slots, AccessTtl, RefreshTtl, MaxClock, MaxRows,
    Admins, Founder, Ttl, MaxDay, MaxSends,
    Editors, Order, Fields, Typable, EnvFields, Default, PanelDefault, Env, MaxTyped, MaxCalls,
    Users, MaxPuts,
    Nil

VARIABLES part,
    now, attempts, attempt, restarts, wrong,
    clock, status, rows, issued, access, request, barred, revoked,
    day, row, expires, list, choice, target, call, sends, out, risky,
    stored, data, draft, get, save, typed, calls, dirty, behind,
    user, seen, statusDlg, memberDlg, level, put, puts, twice, told, late

login == <<now, attempts, attempt, restarts, wrong>>
tokens == <<clock, status, rows, issued, access, request, barred, revoked>>
admins == <<day, row, expires, list, choice, target, call, sends, out, risky>>
settings == <<stored, data, draft, get, save, typed, calls, dirty, behind>>
users == <<user, seen, statusDlg, memberDlg, level, put, puts, twice, told, late>>
vars == <<part, login, tokens, admins, settings, users>>

Login == INSTANCE Login WITH Slots <- Tries, MaxTime <- MaxNow
Tokens == INSTANCE Tokens WITH MaxTime <- MaxClock, now <- clock, call <- request
Administrators == INSTANCE Admins WITH MaxTime <- MaxDay, now <- day
Settings == INSTANCE Settings WITH Admins <- Editors, put <- save
UsersPanel == INSTANCE UsersPanel

(* What the constants have to be.                                          *)
ASSUME AccessAssumption ==
    /\ Login!LoginAssumption /\ Tokens!TokensAssumption /\ Administrators!AdminsAssumption
    /\ Settings!SettingsAssumption /\ UsersPanel!UsersPanelAssumption

(* Values for the configuration.                                           *)
MCOrder == <<"general", "qpay">>
MCEnvFields == {<<"qpay", "secret">>}
Symmetry == Permutations(Slots)
-----------------------------------------------------------------------------
Init ==
    /\ part \in {"login", "tokens", "admins", "settings", "users"}
    /\ Login!Init /\ Tokens!Init /\ Administrators!Init /\ Settings!Init /\ UsersPanel!Init

Next ==
    /\ UNCHANGED part
    /\ \/ part = "login" /\ Login!Next /\ UNCHANGED <<tokens, admins, settings, users>>
       \/ part = "tokens" /\ Tokens!Next /\ UNCHANGED <<login, admins, settings, users>>
       \/ part = "admins" /\ Administrators!Next /\ UNCHANGED <<login, tokens, settings, users>>
       \/ part = "settings" /\ Settings!Next /\ UNCHANGED <<login, tokens, admins, users>>
       \/ part = "users" /\ UsersPanel!Next /\ UNCHANGED <<login, tokens, admins, settings>>

Spec == Init /\ [][Next]_vars
-----------------------------------------------------------------------------
(* The shapes of the records, the counters and the requests of each part.  *)
TypeOK ==
    CASE part = "login" -> Login!TypeOK
      [] part = "tokens" -> Tokens!TypeOK
      [] part = "admins" -> Administrators!TypeOK
      [] part = "settings" -> Settings!TypeOK
      [] part = "users" -> UsersPanel!TypeOK

(* login: between two clearings of a phone's record no more guesses are    *)
(* judged than the limit and one for every other request in flight.        *)
GuessesBounded == part = "login" => Login!GuessesBounded

(***************************************************************************)
(* auth.service.ts and roles.guard.ts: access ends with what it was given  *)
(* for.  A suspended customer and a deactivated administrator go on no     *)
(* longer than one token's life, a refresh that began after a logout       *)
(* yields nothing, only a logout or time takes a refresh token, and        *)
(* somebody is left to manage the administrators.                          *)
(***************************************************************************)
AccessEnds ==
    /\ part = "tokens" =>
          Tokens!SuspendedIsOut /\ Tokens!RevokedYieldsNothing /\ Tokens!OnlyLogoutRevokes
    /\ part = "admins" => Administrators!DeactivatedIsOut /\ Administrators!SomebodyManages

(***************************************************************************)
(* settings/page.tsx and users/page.tsx: an administrator who was told     *)
(* that a change is saved sees it, and it is what the row holds, as long   *)
(* as nobody else changed it or a dialog was confirmed twice.              *)
(***************************************************************************)
SavedIsShown ==
    /\ part = "settings" => Settings!OwnSaveShown
    /\ part = "users" => UsersPanel!SavedStatusHolds

(***************************************************************************)
(* No step takes back what another one decided: a block lasts its time, a  *)
(* missing section is never written over one that came meanwhile, a save   *)
(* leaves the fields nobody typed in, and no verification is decided twice. *)
(***************************************************************************)
DecisionsHold ==
    /\ Login!BlockLasts
    /\ Settings!DefaultsNeverOverwrite /\ Settings!UntouchedKept
    /\ UsersPanel!DecidedOnce
=============================================================================
