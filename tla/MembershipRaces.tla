-------------------------- MODULE MembershipRaces --------------------------
(***************************************************************************)
(* The membership service with everything that changes around its checks:  *)
(* wallet writes (wallet.service.ts addGrams), edits of the thresholds,    *)
(* levels set by an administrator, failures and restarts.                  *)
(***************************************************************************)
EXTENDS Membership, TLC

CONSTANTS
    EditRequests,  \* the bodies of PUT admin/membership/config: sequences of rows
    Totals,        \* totalPurchasedGrams values the wallets take
    MaxChanges     \* bound: changes of totals, thresholds and levels from outside

ASSUME RacesAssumption ==
    /\ EditRequests \subseteq Seq(Row)
    /\ Totals \subseteq Int
    /\ MaxChanges \in Nat

(* History variables: no counterpart in the code.                          *)
VARIABLES
    peak,        \* peak[u]: the highest total u ever had
    configured,  \* every <<level, minGrams>> the table ever held
    overridden,  \* users whose level was last set by an administrator
    stale,       \* slots whose check read a total or a table that has changed
    current,     \* users whose level a check has brought up to date
    changes      \* number of changes from outside, for MaxChanges

historyVars == <<peak, configured, overridden, stale, current, changes>>
vars == <<opened, total, codeVars, historyVars>>
-----------------------------------------------------------------------------
RaceInit ==
    /\ Init
    /\ opened = {}
    /\ total = [u \in Users |-> 0]
    /\ peak = [u \in Users |-> 0]
    /\ configured = {<<l, config[l]>> : l \in DOMAIN config}
    /\ overridden = {}
    /\ stale = {}
    /\ current = {}
    /\ changes = 0

(* Slots whose check of u has read the total; that have read the table.    *)
HasTotal(u) == {t \in Slots : check[t].user = u /\ check[t].pc \in {"configs", "user", "update"}}
HasConfigs == {t \in Slots : check[t].pc \in {"user", "update"}}

OutsideChange == changes < MaxChanges /\ changes' = changes + 1
WalletUnchanged == UNCHANGED <<opened, total>>

(* addGrams writes the wallet of u.  Any total is allowed: a lost update   *)
(* can also lower it.                                                      *)
WalletChange(u, g) ==
    /\ OutsideChange
    /\ opened' = opened \cup {u}
    /\ total' = [total EXCEPT ![u] = g]
    /\ peak' = [peak EXCEPT ![u] = IF g > @ THEN g ELSE @]
    /\ stale' = stale \cup HasTotal(u)
    /\ current' = current \ {u}
    /\ UNCHANGED <<codeVars, configured, overridden>>

Override(u, l) ==
    /\ OutsideChange
    /\ OverrideLevel(u, l)
    /\ overridden' = overridden \cup {u}
    /\ current' = current \ {u}
    /\ WalletUnchanged
    /\ UNCHANGED <<peak, configured, stale>>

BeginEdit(e, rows) ==
    /\ OutsideChange
    /\ StartEdit(e, rows)
    /\ WalletUnchanged
    /\ UNCHANGED <<peak, configured, overridden, stale, current>>

(* The table becomes config': what was decided from another one is stale.  *)
TableChange ==
    /\ configured' = configured \cup {<<l, config'[l]>> : l \in DOMAIN config'}
    /\ current' = IF config' = config THEN current ELSE {}
    /\ WalletUnchanged
    /\ UNCHANGED <<peak, overridden, changes>>

Edit(e) ==
    \/ /\ UpsertRow(e)
       /\ stale' = stale \cup HasConfigs
       /\ TableChange
    \/ /\ FailEdit(e)
       /\ WalletUnchanged
       /\ UNCHANGED historyVars

CrashAndRestart ==
    /\ Restart
    /\ stale' = {}
    /\ TableChange

(* A check ends having brought the level up to date, unless what it read   *)
(* has changed; a stale check that writes undoes what another one did.     *)
EndCheck(t) ==
    LET u == check[t].user IN
    current' = IF check'[t].pc # "done" \/ check[t].pc = "wallet" THEN current
               ELSE IF t \notin stale THEN current \cup {u}
               ELSE IF level' # level THEN current \ {u} ELSE current

RunCheck(t) ==
    /\ WalletUnchanged
    /\ \/ /\ \E u \in Users : StartCheck(t, u)
          /\ UNCHANGED historyVars
       \/ /\ StepCheck(t)
          /\ EndCheck(t)
          /\ overridden' = IF level' # level THEN overridden \ {check[t].user} ELSE overridden
          /\ UNCHANGED <<peak, configured, stale, changes>>
       \/ /\ FailCheck(t)
          /\ UNCHANGED historyVars
       \/ /\ ReturnCheck(t)
          /\ stale' = stale \ {t}
          /\ UNCHANGED <<peak, configured, overridden, current, changes>>

RaceNext ==
    \/ \E t \in Slots : RunCheck(t)
    \/ \E u \in Users, g \in Totals : g # total[u] /\ WalletChange(u, g)
    \/ \E u \in Users, l \in Levels : Override(u, l)
    \/ \E e \in Editors, rows \in EditRequests : BeginEdit(e, rows)
    \/ \E e \in Editors : Edit(e)
    \/ CrashAndRestart

RaceSpec == RaceInit /\ [][RaceNext]_vars
-----------------------------------------------------------------------------
(* The state around the service's.                                         *)
TypeOK ==
    /\ ServiceTypeOK
    /\ opened \in SUBSET Users
    /\ total \in [Users -> Int]
    /\ peak \in [Users -> Int]
    /\ configured \in SUBSET (Levels \X Int)
    /\ overridden \in SUBSET Users
    /\ stale \in SUBSET Slots
    /\ current \in SUBSET Users
    /\ changes \in Nat

(* A level above NORMAL was earned or given: whatever checks, edits and    *)
(* wallet writes interleave, the user once reached a threshold the level   *)
(* once had, or an administrator set the level.                            *)
LevelEarned ==
    \A u \in Users \ overridden :
        level[u] # NORMAL =>
            \E g \in {c[2] : c \in {d \in configured : d[1] = level[u]}} : g <= peak[u]

(* Checks may overlap and fail: once one of them ended that had read the   *)
(* present total and thresholds, and no check that had read older ones     *)
(* wrote after it, the level is the one the thresholds give.               *)
LevelCurrent ==
    \A u \in current : level[u] \in LevelsFor(config, total[u])

(* The promise of GET membership/info: fewer grams than gramsToNextLevel   *)
(* leave the level that checkAndUpdateMembership derives as it is, exactly *)
(* so many reach a level whose threshold is that total, and 0 means that   *)
(* there is no higher level.                                               *)
NextLevelPromise ==
    \A g, h \in Totals :
        LET n == GramsToNext(config, g) IN
        h >= g =>
            /\ (n = 0 \/ h - g < n) => LevelsFor(config, h) = LevelsFor(config, g)
            /\ (n > 0 /\ h - g = n) => \A l \in LevelsFor(config, h) : config[l] = h

-----------------------------------------------------------------------------
(* A small instance for TLC: three levels, thresholds 0, 1, 2, and edits   *)
(* that move one threshold, make two equal, or swap two levels.            *)
MCLevels == {"NORMAL", "BRONZE", "SILVER"}
MCRow(l, g) == [level |-> l, minGrams |-> g]
MCDefaults == <<MCRow("NORMAL", 0), MCRow("BRONZE", 1), MCRow("SILVER", 2)>>
MCEditRequests == { <<MCRow("SILVER", 1)>>, <<MCRow("BRONZE", 2), MCRow("SILVER", 1)>> }
MCSymmetry == Permutations(Slots)
=============================================================================
