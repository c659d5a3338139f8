----------------------------- MODULE Membership -----------------------------
(***************************************************************************)
(* backend/src/membership/membership.service.ts: the membership level of a *)
(* user, derived from the grams the user ever bought.                      *)
(*                                                                         *)
(* checkAndUpdateMembership is called by the payment webhook and by the    *)
(* completion of a sell request, after the wallet was written.  It reads   *)
(* the wallet, the configured thresholds and the user in three database    *)
(* calls and writes the level in a fourth, so wallets, thresholds and      *)
(* levels change under it.                                                 *)
(*                                                                         *)
(* This module has the service's steps; opened and total belong to the     *)
(* wallet and are only read.  MembershipRaces closes it with every change  *)
(* that can happen around a check.                                         *)
(***************************************************************************)
EXTENDS Integers, Sequences

CONSTANTS
    Users,         \* user ids
    Slots,         \* request handlers that can be in flight at the same time
    Editors,       \* admin requests that can edit the thresholds at the same time
    Levels,        \* MembershipLevel
    NORMAL,        \* the level of a user below every threshold
    Defaults,      \* seedDefaultConfig's rows, in its order: [level, minGrams]
    Nil            \* "no user"

Row == [level: Levels, minGrams: Int]

ASSUME MembershipAssumption ==
    /\ NORMAL \in Levels
    /\ Defaults \in Seq(Row)
    /\ Nil \notin Users

VARIABLES
    opened,   \* users that have a Wallet row (read only)
    total,    \* total[u]: totalPurchasedGrams (read only)
    level,    \* level[u]: User.membershipLevel
    config,   \* the MembershipConfig table: level -> minGrams
    check,    \* check[t]: the checkAndUpdateMembership call of slot t
    edits     \* edits[e]: rows of updateMembershipConfig still to upsert

codeVars == <<level, config, check, edits>>

CheckPc == {"idle", "wallet", "configs", "user", "update", "done", "failed"}
CheckFrame == [pc: CheckPc, user: Users \cup {Nil}, total: Int, next: Levels]
IdleCheck == [pc |-> "idle", user |-> Nil, total |-> 0, next |-> NORMAL]

(* MUTANT of Reached: the operands of gte swapped.                          *)
ReachedSwapped(cfg, g) == {l \in DOMAIN cfg : cfg[l] >= g}

Reached(cfg, g) == {l \in DOMAIN cfg : cfg[l] <= g}

(***************************************************************************)
(* The loop over the rows in ascending minGrams keeps the last level whose *)
(* threshold is reached; the order of rows with equal thresholds is the    *)
(* database's, so any of them may be last.                                 *)
(***************************************************************************)
LevelsFor(cfg, g) ==
    IF Reached(cfg, g) = {} THEN {NORMAL}
    ELSE {l \in Reached(cfg, g) : \A k \in Reached(cfg, g) : cfg[k] <= cfg[l]}

(* MUTANT of GramsToNext: gte instead of gt.                               *)
GramsToNextGte(cfg, g) ==
    LET above == {l \in DOMAIN cfg : cfg[l] >= g}
    IN  IF above = {} THEN 0
        ELSE (CHOOSE m \in {cfg[l] : l \in above} : \A l \in above : m <= cfg[l]) - g

(* getMembershipInfo's gramsToNextLevel: up to the first threshold above g. *)
GramsToNext(cfg, g) ==
    LET above == {l \in DOMAIN cfg : cfg[l] > g}
    IN  IF above = {} THEN 0
        ELSE (CHOOSE m \in {cfg[l] : l \in above} : \A l \in above : m <= cfg[l]) - g

(* The table after an upsert that sets, or only creates, a row.            *)
Upserted(cfg, row) ==
    [l \in DOMAIN cfg \cup {row.level} |-> IF l = row.level THEN row.minGrams ELSE cfg[l]]

(* seedDefaultConfig got as far as row n: rows that exist are left alone.  *)
Seeded(cfg, n) ==
    LET missing == {Defaults[i].level : i \in 1..n} \ DOMAIN cfg
        default(l) == Defaults[CHOOSE i \in 1..n : Defaults[i].level = l].minGrams
    IN  [l \in DOMAIN cfg \cup missing |-> IF l \in DOMAIN cfg THEN cfg[l] ELSE default(l)]

NoRows == [l \in {} |-> 0]
-----------------------------------------------------------------------------
ServiceInit ==
    /\ level = [u \in Users |-> NORMAL]
    /\ check = [t \in Slots |-> IdleCheck]
    /\ edits = [e \in Editors |-> <<>>]

(* A deployment starts by seeding an empty table; a database error leaves  *)
(* it with the rows seeded so far and the server starts all the same.      *)
Init ==
    /\ ServiceInit
    /\ config \in {Seeded(NoRows, n) : n \in 0..Len(Defaults)}

Goto(t, pc) == check' = [check EXCEPT ![t].pc = pc]

StartCheck(t, u) ==
    /\ check[t].pc = "idle"
    /\ check' = [check EXCEPT ![t].pc = "wallet", ![t].user = u]
    /\ UNCHANGED <<level, config, edits>>

(* MUTANT of ReadTotal: no wallet gives no level.                           *)
ReadTotalNull(t) ==
    /\ check[t].pc = "wallet"
    /\ IF check[t].user \in opened
       THEN check' = [check EXCEPT ![t].pc = "configs", ![t].total = total[check[t].user]]
       ELSE check' = [check EXCEPT ![t].pc = "done", ![t].next = Nil]
    /\ UNCHANGED <<level, config, edits>>

(* Without a wallet the level is reported as NORMAL and nothing is written. *)
ReadTotal(t) ==
    /\ check[t].pc = "wallet"
    /\ IF check[t].user \in opened
       THEN check' = [check EXCEPT ![t].pc = "configs", ![t].total = total[check[t].user]]
       ELSE Goto(t, "done")
    /\ UNCHANGED <<level, config, edits>>

ReadConfigs(t) ==
    /\ check[t].pc = "configs"
    /\ \E l \in LevelsFor(config, check[t].total) :
           check' = [check EXCEPT ![t].pc = "user", ![t].next = l]
    /\ UNCHANGED <<level, config, edits>>

(* MUTANT of ReadUser: a user who has a level keeps it.                     *)
ReadUserKeeps(t) ==
    /\ check[t].pc = "user"
    /\ Goto(t, IF level[check[t].user] \in {NORMAL, check[t].next} THEN "update" ELSE "done")
    /\ UNCHANGED <<level, config, edits>>

(* A level that is already right is not written.                           *)
ReadUser(t) ==
    /\ check[t].pc = "user"
    /\ Goto(t, IF level[check[t].user] = check[t].next THEN "done" ELSE "update")
    /\ UNCHANGED <<level, config, edits>>

UpdateLevel(t) ==
    /\ check[t].pc = "update"
    /\ level' = [level EXCEPT ![check[t].user] = check[t].next]
    /\ Goto(t, "done")
    /\ UNCHANGED <<config, edits>>

(* A database call of the check rejects, before or after it was applied.   *)
FailCheck(t) ==
    /\ check[t].pc \notin {"idle", "failed"}
    /\ Goto(t, "failed")
    /\ UNCHANGED <<level, config, edits>>

ReturnCheck(t) ==
    /\ check[t].pc \in {"done", "failed"}
    /\ check' = [check EXCEPT ![t] = IdleCheck]
    /\ UNCHANGED <<level, config, edits>>

StepCheck(t) == ReadTotal(t) \/ ReadConfigs(t) \/ ReadUser(t) \/ UpdateLevel(t)

(* updateMembershipConfig upserts the rows of its request one by one.      *)
StartEdit(e, rows) ==
    /\ edits[e] = <<>>
    /\ edits' = [edits EXCEPT ![e] = rows]
    /\ UNCHANGED <<level, config, check>>

UpsertRow(e) ==
    /\ edits[e] # <<>>
    /\ config' = Upserted(config, Head(edits[e]))
    /\ edits' = [edits EXCEPT ![e] = Tail(@)]
    /\ UNCHANGED <<level, check>>

FailEdit(e) ==
    /\ edits[e] # <<>>
    /\ edits' = [edits EXCEPT ![e] = <<>>]
    /\ UNCHANGED <<level, config, check>>

(* PUT admin/users/:id/membership.                                         *)
OverrideLevel(u, l) ==
    /\ level' = [level EXCEPT ![u] = l]
    /\ UNCHANGED <<config, check, edits>>

(* The process dies; the next one seeds the missing rows before it serves. *)
ForgetChecks == check' = [t \in Slots |-> IdleCheck]

Restart ==
    /\ ForgetChecks
    /\ edits' = [e \in Editors |-> <<>>]
    /\ config' \in {Seeded(config, n) : n \in 0..Len(Defaults)}
    /\ UNCHANGED level
-----------------------------------------------------------------------------
(* The service's own state.                                                *)
ServiceTypeOK ==
    /\ level \in [Users -> Levels]
    /\ DOMAIN config \in SUBSET Levels
    /\ \A l \in DOMAIN config : config[l] \in Int
    /\ check \in [Slots -> CheckFrame]
    /\ \A t \in Slots : check[t].pc # "idle" => check[t].user \in Users
    /\ edits \in [Editors -> Seq(Row)]
=============================================================================
