-------------------------- MODULE MembershipProofs --------------------------
(* Theorems about MembershipRaces: membership levels for every number of   *)
(* users, checks and editors, every table of thresholds and every change   *)
(* around the checks.                                                      *)
EXTENDS MembershipRaces, WellFoundedInduction, TLAPS

-----------------------------------------------------------------------------
(***************************************************************************)
(* The shapes of tables and checks.                                        *)
(***************************************************************************)
Table(cfg) ==
    /\ cfg = [l \in DOMAIN cfg |-> cfg[l]]
    /\ DOMAIN cfg \subseteq Levels
    /\ \A l \in DOMAIN cfg : cfg[l] \in Int

Checks ==
    /\ check \in [Slots -> CheckFrame]
    /\ \A t \in Slots : check[t].pc # "idle" => check[t].user \in Users

Shapes ==
    /\ Table(config)
    /\ Checks
    /\ level \in [Users -> Levels]
    /\ edits \in [Editors -> Seq(Row)]
    /\ total \in [Users -> Int]
    /\ peak \in [Users -> Int]

LEMMA UpsertedTable ==
    ASSUME NEW cfg, Table(cfg), NEW row \in Row
    PROVE  Table(Upserted(cfg, row))
<1>1. row.level \in Levels /\ row.minGrams \in Int
  BY DEF Row
<1>2. QED
  BY <1>1 DEF Table, Upserted

LEMMA SeededTable ==
    ASSUME NEW cfg, Table(cfg), NEW n \in 0..Len(Defaults)
    PROVE  Table(Seeded(cfg, n))
<1> DEFINE missing == {Defaults[i].level : i \in 1..n} \ DOMAIN cfg
           default(l) == Defaults[CHOOSE i \in 1..n : Defaults[i].level = l].minGrams
           new == [l \in DOMAIN cfg \cup missing |-> IF l \in DOMAIN cfg THEN cfg[l] ELSE default(l)]
<1>1. \A i \in 1..n : Defaults[i] \in Row
  BY MembershipAssumption
<1>2. missing \subseteq Levels
  BY <1>1 DEF Row
<1>3. ASSUME NEW l \in missing PROVE default(l) \in Int
  <2>1. \E i \in 1..n : Defaults[i].level = l
    BY <1>3
  <2>2. (CHOOSE i \in 1..n : Defaults[i].level = l) \in 1..n
    BY <2>1
  <2>3. QED
    BY <1>1, <2>2 DEF Row
<1>4. Seeded(cfg, n) = new
  BY DEF Seeded
<1> HIDE DEF missing, default
<1>5. Table(new)
  BY <1>2, <1>3 DEF Table
<1>6. QED
  BY <1>4, <1>5

LEMMA LevelsAreRows ==
    ASSUME NEW cfg, Table(cfg), NEW g \in Int, NEW l \in LevelsFor(cfg, g)
    PROVE  /\ l \in Levels
           /\ l = NORMAL \/ (l \in DOMAIN cfg /\ cfg[l] <= g)
BY MembershipAssumption DEF LevelsFor, Reached, Table

LEMMA ShapesInit == RaceInit => Shapes
<1> SUFFICES ASSUME RaceInit PROVE Shapes
  OBVIOUS
<1>1. Table(NoRows)
  BY DEF Table, NoRows
<1>2. Table(config)
  BY <1>1, SeededTable DEF RaceInit, Init
<1>3. Checks
  BY MembershipAssumption DEF RaceInit, Init, ServiceInit, Checks, CheckFrame, CheckPc, IdleCheck
<1>4. level \in [Users -> Levels] /\ edits \in [Editors -> Seq(Row)]
  BY MembershipAssumption DEF RaceInit, Init, ServiceInit
<1>5. total \in [Users -> Int] /\ peak \in [Users -> Int]
  BY DEF RaceInit
<1>6. QED
  BY <1>2, <1>3, <1>4, <1>5 DEF Shapes

(* What a step of a check does to its frame.                               *)
LEMMA StartFrame ==
    ASSUME Checks, NEW t \in Slots, NEW u \in Users, StartCheck(t, u)
    PROVE  /\ Checks' /\ check'[t].pc = "wallet" /\ \A s \in Slots \ {t} : check'[s] = check[s]
BY DEF Checks, CheckFrame, CheckPc, StartCheck

LEMMA GotoFrame ==
    ASSUME Checks, NEW t \in Slots, NEW pc \in CheckPc, check[t].pc # "idle", Goto(t, pc)
    PROVE  /\ Checks' /\ \A s \in Slots \ {t} : check'[s] = check[s]
           /\ check'[t].pc = pc /\ check'[t].user = check[t].user
           /\ check'[t].total = check[t].total /\ check'[t].next = check[t].next
BY DEF Checks, CheckFrame, Goto

LEMMA ReadFrame ==
    ASSUME Shapes, NEW t \in Slots, ReadTotal(t)
    PROVE  /\ Checks' /\ \A s \in Slots \ {t} : check'[s] = check[s]
           /\ check'[t].user = check[t].user
           /\ \/ check'[t].pc = "done"
              \/ check'[t].pc = "configs" /\ check'[t].total = total[check[t].user]
<1>1. check[t].user \in Users /\ total[check[t].user] \in Int
  BY DEF Shapes, Checks, ReadTotal
<1>2. check[t].pc = "wallet"
  BY DEF ReadTotal
<1>3. CASE check[t].user \in opened
  <2>1. check' = [check EXCEPT ![t].pc = "configs", ![t].total = total[check[t].user]]
    BY <1>3 DEF ReadTotal
  <2>2. QED
    BY <1>1, <1>2, <2>1 DEF Shapes, Checks, CheckFrame, CheckPc
<1>4. CASE check[t].user \notin opened
  <2>1. Goto(t, "done")
    BY <1>4 DEF ReadTotal
  <2>2. QED
    BY <1>2, <2>1, GotoFrame DEF Shapes, CheckPc
<1>5. QED
  BY <1>3, <1>4

LEMMA ConfigsFrame ==
    ASSUME Shapes, NEW t \in Slots, ReadConfigs(t)
    PROVE  /\ Checks' /\ \A s \in Slots \ {t} : check'[s] = check[s]
           /\ check'[t].user = check[t].user /\ check'[t].total = check[t].total
           /\ check'[t].pc = "user" /\ check'[t].next \in LevelsFor(config, check[t].total)
<1>1. PICK l \in LevelsFor(config, check[t].total) :
         check' = [check EXCEPT ![t].pc = "user", ![t].next = l]
  BY DEF ReadConfigs
<1>2. check[t].total \in Int
  BY DEF Shapes, Checks, CheckFrame
<1>3. l \in Levels
  BY <1>2, LevelsAreRows DEF Shapes
<1>4. check[t].pc = "configs"
  BY DEF ReadConfigs
<1>5. QED
  BY <1>1, <1>3, <1>4 DEF Shapes, Checks, CheckFrame, CheckPc

LEMMA ReturnFrame ==
    ASSUME Checks, NEW t \in Slots, ReturnCheck(t)
    PROVE  /\ Checks' /\ \A s \in Slots \ {t} : check'[s] = check[s]
           /\ check'[t].pc = "idle"
BY MembershipAssumption DEF Checks, CheckFrame, CheckPc, ReturnCheck, IdleCheck

LEMMA ForgetFrames ==
    ASSUME Checks, ForgetChecks
    PROVE  Checks' /\ \A t \in Slots : check'[t].pc = "idle"
BY MembershipAssumption DEF Checks, CheckFrame, CheckPc, ForgetChecks, IdleCheck

LEMMA ShapesStep == Shapes /\ [RaceNext]_vars => Shapes'
<1> SUFFICES ASSUME Shapes, [RaceNext]_vars PROVE Shapes'
  OBVIOUS
<1>1. ASSUME NEW t \in Slots, RunCheck(t) PROVE Shapes'
  <2>1. UNCHANGED <<opened, total, config, edits, peak>>
    BY <1>1 DEF RunCheck, WalletUnchanged, StartCheck, StepCheck, ReadTotal, ReadConfigs,
                ReadUser, UpdateLevel, FailCheck, ReturnCheck, historyVars
  <2>2. Checks'
    <3>1. ASSUME NEW u \in Users, StartCheck(t, u) PROVE Checks'
      BY <3>1, StartFrame DEF Shapes
    <3>2. CASE ReadTotal(t) \/ ReadConfigs(t)
      BY <3>2, ReadFrame, ConfigsFrame
    <3>3. CASE ReadUser(t) \/ UpdateLevel(t) \/ FailCheck(t)
      <4>1. check[t].pc # "idle" /\ \E pc \in CheckPc : Goto(t, pc)
        BY <3>3 DEF ReadUser, UpdateLevel, FailCheck, CheckPc
      <4>2. QED
        BY <4>1, GotoFrame DEF Shapes
    <3>4. CASE ReturnCheck(t)
      BY <3>4, ReturnFrame DEF Shapes
    <3>5. QED
      BY <1>1, <3>1, <3>2, <3>3, <3>4 DEF RunCheck, StepCheck
  <2>3. level' \in [Users -> Levels]
    <3>1. check[t].next \in Levels
      BY DEF Shapes, Checks, CheckFrame
    <3>2. QED
      BY <1>1, <3>1 DEF Shapes, RunCheck, StartCheck, StepCheck, ReadTotal, ReadConfigs,
                        ReadUser, UpdateLevel, FailCheck, ReturnCheck
  <2>4. QED
    BY <2>1, <2>2, <2>3 DEF Shapes
<1>2. ASSUME NEW u \in Users, NEW g \in Totals, WalletChange(u, g) PROVE Shapes'
  <2>1. g \in Int
    BY RacesAssumption
  <2>2. peak' \in [Users -> Int] /\ total' \in [Users -> Int]
    BY <1>2, <2>1 DEF WalletChange, Shapes
  <2>3. QED
    BY <1>2, <2>2 DEF WalletChange, codeVars, Shapes, Checks
<1>3. ASSUME NEW u \in Users, NEW l \in Levels, Override(u, l) PROVE Shapes'
  BY <1>3 DEF Override, OverrideLevel, WalletUnchanged, Shapes, Checks
<1>4. ASSUME NEW e \in Editors, NEW body \in EditRequests, BeginEdit(e, body) PROVE Shapes'
  BY <1>4, RacesAssumption DEF BeginEdit, StartEdit, WalletUnchanged, Shapes, Checks
<1>5. ASSUME NEW e \in Editors, Edit(e) PROVE Shapes'
  <2>1. edits[e] \in Seq(Row) /\ edits[e] # <<>>
    BY <1>5 DEF Edit, UpsertRow, FailEdit, Shapes
  <2>2. Head(edits[e]) \in Row /\ Tail(edits[e]) \in Seq(Row)
    BY <2>1
  <2>3. edits' \in [Editors -> Seq(Row)]
    <3>1. edits' = [edits EXCEPT ![e] = Tail(edits[e])] \/ edits' = [edits EXCEPT ![e] = <<>>]
      BY <1>5 DEF Edit, UpsertRow, FailEdit
    <3>2. <<>> \in Seq(Row)
      OBVIOUS
    <3>3. QED
      BY <2>2, <3>1, <3>2 DEF Shapes
  <2>4. Table(config')
    BY <1>5, <2>2, UpsertedTable DEF Edit, UpsertRow, FailEdit, Shapes
  <2>5. UNCHANGED <<level, check, total, peak>>
    BY <1>5 DEF Edit, UpsertRow, FailEdit, TableChange, WalletUnchanged, historyVars
  <2>6. Checks'
    BY <2>5 DEF Shapes, Checks
  <2>7. QED
    BY <2>3, <2>4, <2>5, <2>6 DEF Shapes, Table
<1>6. ASSUME CrashAndRestart PROVE Shapes'
  <2>1. Checks'
    BY <1>6, ForgetFrames DEF CrashAndRestart, Restart, Shapes
  <2>2. Table(config')
    BY <1>6, SeededTable DEF CrashAndRestart, Restart, Shapes
  <2>3. edits' \in [Editors -> Seq(Row)] /\ UNCHANGED <<level, total, peak>>
    BY <1>6 DEF CrashAndRestart, Restart, TableChange, WalletUnchanged
  <2>4. QED
    BY <2>1, <2>2, <2>3 DEF Shapes, Table
<1>7. ASSUME UNCHANGED vars PROVE Shapes'
  BY <1>7 DEF vars, codeVars, historyVars, Shapes, Checks, Table
<1>8. QED
  BY <1>1, <1>2, <1>3, <1>4, <1>5, <1>6, <1>7 DEF RaceNext
-----------------------------------------------------------------------------
(***************************************************************************)
(* Earned.  The total a check holds was at some time the user's, and the   *)
(* level it decided on was reached by that total at a threshold the table  *)
(* held; neither the peak of a user nor what the table ever held shrinks.  *)
(***************************************************************************)
EarnedBy(l, g) == l # NORMAL => \E c \in configured : c[1] = l /\ c[2] <= g

CheckEarned(t) ==
    /\ check[t].pc \in {"configs", "user", "update"} => check[t].total <= peak[check[t].user]
    /\ check[t].pc \in {"user", "update"} => EarnedBy(check[t].next, check[t].total)

Earned ==
    /\ configured \in SUBSET (Levels \X Int)
    /\ \A l \in DOMAIN config : <<l, config[l]>> \in configured
    /\ \A u \in Users : total[u] <= peak[u]
    /\ \A t \in Slots : CheckEarned(t)
    /\ \A u \in Users \ overridden : EarnedBy(level[u], peak[u])

LEMMA EarnedInit == RaceInit => Earned
<1> SUFFICES ASSUME RaceInit PROVE Earned
  OBVIOUS
<1>1. configured = {<<l, config[l]>> : l \in DOMAIN config}
  BY DEF RaceInit
<1>2. configured \in SUBSET (Levels \X Int)
  BY <1>1, ShapesInit DEF Shapes, Table
<1>3. QED
  BY <1>1, <1>2 DEF RaceInit, Init, ServiceInit, IdleCheck, Earned, CheckEarned, EarnedBy

(* A larger total and a longer history keep what was earned.               *)
LEMMA EarnedGrows ==
    ASSUME configured \in SUBSET (Levels \X Int), configured \subseteq configured',
           NEW l, NEW g \in Int, NEW h \in Int, g <= h, EarnedBy(l, g)
    PROVE  l # NORMAL => \E c \in configured' : c[1] = l /\ c[2] <= h
<1> SUFFICES ASSUME l # NORMAL PROVE \E c \in configured' : c[1] = l /\ c[2] <= h
  OBVIOUS
<1>1. PICK c \in configured : c[1] = l /\ c[2] <= g
  BY DEF EarnedBy
<1>2. c[2] \in Int
  OBVIOUS
<1>3. c[2] <= h
  BY <1>1, <1>2
<1>4. QED
  BY <1>1, <1>3

(* Steps that leave the checks and their peaks alone, or end them.         *)
LEMMA EarnedKept ==
    ASSUME Shapes, Shapes', Earned, configured \subseteq configured',
           configured' \in SUBSET (Levels \X Int),
           \A l \in DOMAIN config' : <<l, config'[l]>> \in configured',
           \A u \in Users : peak[u] <= peak'[u] /\ total'[u] <= peak'[u],
           \A t \in Slots : check'[t] = check[t] \/ check'[t].pc \in {"idle", "wallet", "done", "failed"},
           \A u \in Users : u \in overridden' \/ (u \notin overridden /\ level'[u] = level[u])
    PROVE  Earned'
<1>1. \A u \in Users : peak[u] \in Int /\ peak'[u] \in Int
  BY DEF Shapes
<1>2. ASSUME NEW t \in Slots PROVE CheckEarned(t)'
  <2>1. CASE check'[t].pc \in {"idle", "wallet", "done", "failed"}
    BY <2>1 DEF CheckEarned
  <2>2. CASE check'[t] = check[t] /\ check[t].pc # "idle"
    <3>1. check[t].user \in Users /\ check[t].total \in Int
      BY <2>2 DEF Shapes, Checks, CheckFrame
    <3>2. check[t].pc \in {"configs", "user", "update"} => check[t].total <= peak'[check[t].user]
      BY <1>1, <3>1 DEF Earned, CheckEarned
    <3>3. check[t].pc \in {"user", "update"} => EarnedBy(check[t].next, check[t].total)'
      <4>1. ASSUME check[t].pc \in {"user", "update"}
            PROVE  EarnedBy(check[t].next, check[t].total)
        BY <4>1 DEF Earned, CheckEarned
      <4>2. QED
        BY <2>2, <3>1, <4>1, EarnedGrows DEF Earned, EarnedBy
    <3>4. QED
      BY <2>2, <3>2, <3>3 DEF CheckEarned
  <2>3. QED
    BY <2>1, <2>2
<1>3. ASSUME NEW u \in Users \ overridden' PROVE EarnedBy(level[u], peak[u])'
  <2>1. level'[u] = level[u] /\ EarnedBy(level[u], peak[u])
    BY DEF Earned
  <2>2. QED
    BY <1>1, <2>1, EarnedGrows DEF Earned, EarnedBy
<1>4. QED
  BY <1>2, <1>3 DEF Earned

LEMMA EarnedCheck ==
    ASSUME Shapes, Shapes', Earned, NEW t \in Slots, RunCheck(t)
    PROVE  Earned'
<1>1. UNCHANGED <<total, config, peak, configured>>
  BY DEF RunCheck, WalletUnchanged, StartCheck, StepCheck, ReadTotal, ReadConfigs,
         ReadUser, UpdateLevel, FailCheck, ReturnCheck, historyVars
<1>2. CheckEarned(t) /\ Checks
  BY DEF Earned, Shapes
<1>3. (\A s \in Slots \ {t} : check'[s] = check[s]) /\ CheckEarned(t)'
  <2>1. ASSUME NEW u \in Users, StartCheck(t, u)
        PROVE  (\A s \in Slots \ {t} : check'[s] = check[s]) /\ CheckEarned(t)'
    BY <1>2, <2>1, StartFrame DEF CheckEarned
  <2>2. CASE ReadTotal(t)
    <3>1. check[t].user \in Users
      BY <1>2, <2>2 DEF Checks, ReadTotal
    <3>2. total[check[t].user] <= peak[check[t].user]
      BY <3>1 DEF Earned
    <3>3. QED
      BY <1>1, <2>2, <3>2, ReadFrame DEF CheckEarned
  <2>3. CASE ReadConfigs(t)
    <3>1. check[t].pc = "configs" /\ check[t].total \in Int
      BY <1>2, <2>3 DEF ReadConfigs, Checks, CheckFrame
    <3>2. /\ check'[t].user = check[t].user /\ check'[t].total = check[t].total
          /\ check'[t].pc = "user" /\ check'[t].next \in LevelsFor(config, check[t].total)
          /\ \A s \in Slots \ {t} : check'[s] = check[s]
      BY <2>3, ConfigsFrame
    <3>3. \/ check'[t].next = NORMAL
          \/ check'[t].next \in DOMAIN config /\ config[check'[t].next] <= check[t].total
      BY <3>1, <3>2, LevelsAreRows DEF Shapes
    <3>4. EarnedBy(check'[t].next, check[t].total)
      <4>1. CASE check'[t].next \in DOMAIN config /\ config[check'[t].next] <= check[t].total
        <5>1. <<check'[t].next, config[check'[t].next]>> \in configured
          BY <4>1 DEF Earned
        <5>2. QED
          BY <4>1, <5>1 DEF EarnedBy
      <4>2. QED
        BY <3>3, <4>1 DEF EarnedBy
    <3>5. QED
      BY <1>1, <1>2, <3>1, <3>2, <3>4 DEF CheckEarned, EarnedBy
  <2>4. CASE ReadUser(t) \/ UpdateLevel(t) \/ FailCheck(t)
    <3>1. PICK pc \in CheckPc : Goto(t, pc) /\ check[t].pc # "idle"
                                /\ (pc \in {"configs", "user", "update"}
                                       => check[t].pc = "user" /\ pc = "update")
      BY <2>4 DEF ReadUser, UpdateLevel, FailCheck, CheckPc
    <3>2. /\ check'[t].pc = pc /\ check'[t].user = check[t].user
          /\ check'[t].total = check[t].total /\ check'[t].next = check[t].next
          /\ \A s \in Slots \ {t} : check'[s] = check[s]
      BY <1>2, <3>1, GotoFrame
    <3>3. QED
      BY <1>1, <1>2, <3>1, <3>2 DEF CheckEarned, EarnedBy
  <2>5. CASE ReturnCheck(t)
    BY <1>2, <2>5, ReturnFrame DEF CheckEarned
  <2>6. QED
    BY <2>1, <2>2, <2>3, <2>4, <2>5 DEF RunCheck, StepCheck
<1>4. \A s \in Slots : CheckEarned(s)'
  BY <1>1, <1>3 DEF Earned, CheckEarned, EarnedBy
<1>5. \A u \in Users \ overridden' : EarnedBy(level[u], peak[u])'
  <2>1. CASE UpdateLevel(t)
    <3>1. check[t].user \in Users /\ check[t].pc = "update"
      BY <1>2, <2>1 DEF UpdateLevel, Checks
    <3>2. level' = [level EXCEPT ![check[t].user] = check[t].next]
      BY <2>1 DEF UpdateLevel
    <3>3. overridden' = IF level' # level THEN overridden \ {check[t].user} ELSE overridden
      BY <2>1, <3>1 DEF RunCheck, StartCheck, StepCheck, UpdateLevel, FailCheck, ReturnCheck, Goto,
                        Shapes, Checks, CheckFrame
    <3>4. EarnedBy(check[t].next, peak[check[t].user])
      <4>1. EarnedBy(check[t].next, check[t].total) /\ check[t].total <= peak[check[t].user]
        BY <1>2, <3>1 DEF CheckEarned
      <4>2. check[t].total \in Int /\ peak[check[t].user] \in Int
        BY <3>1 DEF Shapes, Checks, CheckFrame
      <4>3. QED
        BY <1>1, <4>1, <4>2, EarnedGrows DEF Earned, EarnedBy
    <3>5. QED
      BY <1>1, <3>1, <3>2, <3>3, <3>4 DEF Earned, EarnedBy, Shapes
  <2>2. CASE level' = level
    <3>1. overridden' = overridden
      BY <2>2 DEF RunCheck, historyVars
    <3>2. QED
      BY <1>1, <2>2, <3>1 DEF Earned, EarnedBy
  <2>3. QED
    BY <2>1, <2>2 DEF RunCheck, StartCheck, StepCheck, ReadTotal, ReadConfigs, ReadUser,
                      FailCheck, ReturnCheck
<1>6. QED
  BY <1>1, <1>4, <1>5 DEF Earned

LEMMA EarnedStep == Shapes /\ Shapes' /\ Earned /\ [RaceNext]_vars => Earned'
<1> SUFFICES ASSUME Shapes, Shapes', Earned, [RaceNext]_vars PROVE Earned'
  OBVIOUS
<1>0. /\ configured \in SUBSET (Levels \X Int)
      /\ \A l \in DOMAIN config : <<l, config[l]>> \in configured
      /\ \A u \in Users : total[u] <= peak[u] /\ total[u] \in Int /\ peak[u] \in Int
  BY DEF Earned, Shapes
<1>1. ASSUME NEW t \in Slots, RunCheck(t) PROVE Earned'
  BY <1>1, EarnedCheck
<1>2. ASSUME NEW u \in Users, NEW g \in Totals, WalletChange(u, g) PROVE Earned'
  <2>1. g \in Int
    BY RacesAssumption
  <2>2. UNCHANGED <<config, configured, check, level, overridden>>
    BY <1>2 DEF WalletChange, codeVars
  <2>3. \A w \in Users : peak[w] <= peak'[w] /\ total'[w] <= peak'[w]
    BY <1>0, <1>2, <2>1 DEF WalletChange, Shapes
  <2>4. QED
    BY <1>0, <2>2, <2>3, EarnedKept
<1>3. ASSUME NEW u \in Users, NEW l \in Levels, Override(u, l) PROVE Earned'
  <2>1. UNCHANGED <<config, configured, check, total, peak>>
    BY <1>3 DEF Override, OverrideLevel, WalletUnchanged
  <2>2. \A w \in Users : w \in overridden' \/ (w \notin overridden /\ level'[w] = level[w])
    BY <1>3 DEF Override, OverrideLevel, Shapes
  <2>3. QED
    BY <1>0, <2>1, <2>2, EarnedKept
<1>4. ASSUME \/ \E e \in Editors, body \in EditRequests : BeginEdit(e, body)
             \/ UNCHANGED vars
      PROVE  Earned'
  <2>1. UNCHANGED <<config, configured, check, total, peak, level, overridden>>
    BY <1>4 DEF BeginEdit, StartEdit, WalletUnchanged, vars, codeVars, historyVars
  <2>2. QED
    BY <1>0, <2>1, EarnedKept
<1>5. ASSUME TableChange, level' = level,
             \A t \in Slots : check'[t] = check[t] \/ check'[t].pc = "idle"
      PROVE  Earned'
  <2>1. /\ configured' = configured \cup {<<l, config'[l]>> : l \in DOMAIN config'}
        /\ UNCHANGED <<total, peak, overridden>>
    BY <1>5 DEF TableChange, WalletUnchanged
  <2>2. configured' \in SUBSET (Levels \X Int)
    BY <1>0, <2>1 DEF Shapes, Table
  <2>3. configured \subseteq configured' /\ \A l \in DOMAIN config' : <<l, config'[l]>> \in configured'
    BY <2>1
  <2>4. QED
    BY <1>0, <1>5, <2>1, <2>2, <2>3, EarnedKept
<1>6. ASSUME NEW e \in Editors, Edit(e) PROVE Earned'
  <2>1. CASE UpsertRow(e) /\ TableChange
    BY <1>5, <2>1 DEF UpsertRow
  <2>2. CASE FailEdit(e) /\ WalletUnchanged /\ UNCHANGED historyVars
    <3>1. UNCHANGED <<config, configured, check, total, peak, level, overridden>>
      BY <2>2 DEF FailEdit, WalletUnchanged, historyVars
    <3>2. QED
      BY <1>0, <3>1, EarnedKept
  <2>3. QED
    BY <1>6, <2>1, <2>2 DEF Edit
<1>7. ASSUME CrashAndRestart PROVE Earned'
  <2>1. \A t \in Slots : check'[t].pc = "idle"
    BY <1>7, ForgetFrames DEF CrashAndRestart, Restart, Shapes
  <2>2. QED
    BY <1>5, <1>7, <2>1 DEF CrashAndRestart, Restart
<1>8. QED
  BY <1>1, <1>2, <1>3, <1>4, <1>6, <1>7 DEF RaceNext

(* A level above NORMAL was earned or given, whatever checks, edits and    *)
(* wallet writes interleave.                                               *)
THEOREM LevelsAreEarned == RaceSpec => []LevelEarned
<1>1. RaceInit => Shapes /\ Earned
  BY ShapesInit, EarnedInit
<1>2. Shapes /\ Earned /\ [RaceNext]_vars => (Shapes /\ Earned)'
  BY ShapesStep, EarnedStep
<1>3. Shapes /\ Earned => LevelEarned
  <2> SUFFICES ASSUME Shapes, Earned, NEW u \in Users \ overridden, level[u] # NORMAL
               PROVE  \E g \in {c[2] : c \in {d \in configured : d[1] = level[u]}} : g <= peak[u]
    BY DEF LevelEarned
  <2>1. PICK c \in configured : c[1] = level[u] /\ c[2] <= peak[u]
    BY DEF Earned, EarnedBy
  <2>2. QED
    BY <2>1
<1>4. QED
  BY <1>1, <1>2, <1>3, PTL DEF RaceSpec
-----------------------------------------------------------------------------
(***************************************************************************)
(* Current.  A check that is not stale holds the present total and a level *)
(* that the present table gives for it, so what it leaves behind is right. *)
(***************************************************************************)
Fresh(t) ==
    /\ check[t].pc \in {"configs", "user", "update"} => check[t].total = total[check[t].user]
    /\ check[t].pc \in {"user", "update"} => check[t].next \in LevelsFor(config, check[t].total)

UpToDate ==
    /\ current \in SUBSET Users
    /\ \A t \in Slots \ stale : Fresh(t)
    /\ LevelCurrent

LEMMA UpToDateInit == RaceInit => UpToDate
BY DEF RaceInit, Init, ServiceInit, IdleCheck, UpToDate, Fresh, LevelCurrent

(* Steps in which whatever loses its ground is stale, and nobody is        *)
(* current who was not.                                                    *)
LEMMA UpToDateKept ==
    ASSUME Shapes, UpToDate,
           \A t \in Slots \ stale' :
              \/ check'[t].pc \in {"idle", "wallet", "done", "failed"}
              \/ /\ t \notin stale /\ check'[t] = check[t]
                 /\ total'[check[t].user] = total[check[t].user]
                 /\ check[t].pc \in {"user", "update"} => config' = config,
           current' \subseteq current,
           \A u \in current' : level'[u] = level[u] /\ total'[u] = total[u] /\ config' = config
    PROVE  UpToDate'
<1>1. \A t \in Slots \ stale' : Fresh(t)'
  BY DEF UpToDate, Fresh
<1>2. LevelCurrent'
  BY DEF UpToDate, LevelCurrent
<1>3. QED
  BY <1>1, <1>2 DEF UpToDate

LEMMA UpToDateCheck ==
    ASSUME Shapes, UpToDate, NEW t \in Slots, RunCheck(t)
    PROVE  UpToDate'
<1>1. UNCHANGED <<total, config>>
  BY DEF RunCheck, WalletUnchanged, StartCheck, StepCheck, ReadTotal, ReadConfigs,
         ReadUser, UpdateLevel, FailCheck, ReturnCheck
<1>2. Checks
  BY DEF Shapes
<1>3. ASSUME stale' \in {stale, stale \ {t}}, \A s \in Slots \ {t} : check'[s] = check[s],
             check'[t].pc \in {"idle", "wallet", "done", "failed"}, level' = level,
             current' = current
      PROVE  UpToDate'
  BY <1>1, <1>3, UpToDateKept
<1>4. ASSUME NEW u \in Users, StartCheck(t, u), UNCHANGED historyVars PROVE UpToDate'
  BY <1>2, <1>3, <1>4, StartFrame DEF StartCheck, historyVars
<1>5. ASSUME FailCheck(t), UNCHANGED historyVars PROVE UpToDate'
  BY <1>2, <1>3, <1>5, GotoFrame DEF FailCheck, CheckPc, historyVars
<1>6. ASSUME ReturnCheck(t), stale' = stale \ {t}, current' = current PROVE UpToDate'
  BY <1>2, <1>3, <1>6, ReturnFrame DEF ReturnCheck
<1>7. ASSUME StepCheck(t), EndCheck(t), stale' = stale PROVE UpToDate'
  <2>0. (\A s \in Slots \ {t} : check'[s] = check[s]) => \A s \in Slots \ stale : s # t => Fresh(s)'
    BY <1>1 DEF UpToDate, Fresh
  <2>1. CASE ReadTotal(t)
    <3>1. /\ \A s \in Slots \ {t} : check'[s] = check[s]
          /\ check'[t].user = check[t].user
          /\ \/ check'[t].pc = "done"
             \/ check'[t].pc = "configs" /\ check'[t].total = total[check[t].user]
      BY <2>1, ReadFrame
    <3>2. current' = current /\ level' = level
      BY <1>7, <2>1 DEF EndCheck, ReadTotal
    <3>3. Fresh(t)'
      BY <1>1, <3>1 DEF Fresh
    <3>4. QED
      BY <1>1, <1>7, <2>0, <3>1, <3>2, <3>3 DEF UpToDate, LevelCurrent
  <2>2. CASE ReadConfigs(t)
    <3>1. /\ \A s \in Slots \ {t} : check'[s] = check[s]
          /\ check'[t].user = check[t].user /\ check'[t].total = check[t].total
          /\ check'[t].pc = "user" /\ check'[t].next \in LevelsFor(config, check[t].total)
      BY <2>2, ConfigsFrame
    <3>2. current' = current /\ level' = level /\ check[t].pc = "configs"
      BY <1>7, <2>2, <3>1 DEF EndCheck, ReadConfigs
    <3>3. t \notin stale => Fresh(t)'
      BY <1>1, <3>1, <3>2 DEF UpToDate, Fresh
    <3>4. QED
      BY <1>1, <1>7, <2>0, <3>1, <3>2, <3>3 DEF UpToDate, LevelCurrent
  <2>3. CASE ReadUser(t)
    <3>1. check[t].pc = "user" /\ check[t].user \in Users /\ level' = level
      BY <1>2, <2>3 DEF ReadUser, Checks
    <3>2. /\ \A s \in Slots \ {t} : check'[s] = check[s]
          /\ check'[t].pc = IF level[check[t].user] = check[t].next THEN "done" ELSE "update"
          /\ check'[t].user = check[t].user /\ check'[t].total = check[t].total
          /\ check'[t].next = check[t].next
      BY <1>2, <2>3, <3>1, GotoFrame DEF ReadUser, CheckPc
    <3>3. t \notin stale => Fresh(t)'
      BY <1>1, <3>1, <3>2 DEF UpToDate, Fresh
    <3>4. CASE check'[t].pc = "done" /\ t \notin stale
      <4>1. current' = current \cup {check[t].user}
        BY <1>7, <3>1, <3>4 DEF EndCheck
      <4>2. level[check[t].user] \in LevelsFor(config, total[check[t].user])
        BY <3>1, <3>2, <3>4 DEF UpToDate, Fresh
      <4>3. QED
        BY <1>1, <1>7, <2>0, <3>1, <3>2, <3>3, <4>1, <4>2 DEF UpToDate, LevelCurrent
    <3>5. CASE ~(check'[t].pc = "done" /\ t \notin stale)
      <4>1. current' = current
        BY <1>7, <3>1, <3>5 DEF EndCheck
      <4>2. QED
        BY <1>1, <1>7, <2>0, <3>1, <3>2, <3>3, <4>1 DEF UpToDate, LevelCurrent
    <3>6. QED
      BY <3>4, <3>5
  <2>4. CASE UpdateLevel(t)
    <3>1. /\ check[t].pc = "update" /\ check[t].user \in Users
          /\ level' = [level EXCEPT ![check[t].user] = check[t].next]
      BY <1>2, <2>4 DEF UpdateLevel, Checks
    <3>2. /\ \A s \in Slots \ {t} : check'[s] = check[s]
          /\ check'[t].pc = "done"
      BY <1>2, <2>4, <3>1, GotoFrame DEF UpdateLevel, CheckPc
    <3>3. Fresh(t)'
      BY <3>2 DEF Fresh
    <3>4. CASE t \notin stale
      <4>1. current' = current \cup {check[t].user}
        BY <1>7, <3>1, <3>2, <3>4 DEF EndCheck
      <4>2. check[t].next \in LevelsFor(config, total[check[t].user])
        BY <3>1, <3>4 DEF UpToDate, Fresh
      <4>3. \A u \in current' : level'[u] \in LevelsFor(config, total[u])
        BY <3>1, <4>1, <4>2 DEF UpToDate, LevelCurrent, Shapes
      <4>4. QED
        BY <1>1, <1>7, <2>0, <3>1, <3>2, <3>3, <4>1, <4>3 DEF UpToDate, LevelCurrent
    <3>5. CASE t \in stale
      <4>1. current' = IF level' # level THEN current \ {check[t].user} ELSE current
        BY <1>7, <3>1, <3>2, <3>5 DEF EndCheck
      <4>2. \A u \in current' : level'[u] \in LevelsFor(config, total[u])
        BY <3>1, <4>1 DEF UpToDate, LevelCurrent, Shapes
      <4>3. QED
        BY <1>1, <1>7, <2>0, <3>2, <3>3, <4>1, <4>2 DEF UpToDate, LevelCurrent
    <3>6. QED
      BY <3>4, <3>5
  <2>5. QED
    BY <1>7, <2>1, <2>2, <2>3, <2>4 DEF StepCheck
<1>8. QED
  BY <1>4, <1>5, <1>6, <1>7 DEF RunCheck

LEMMA UpToDateStep == Shapes /\ UpToDate /\ [RaceNext]_vars => UpToDate'
<1> SUFFICES ASSUME Shapes, UpToDate, [RaceNext]_vars PROVE UpToDate'
  OBVIOUS
<1>0. \A t \in Slots : check[t].pc \in CheckPc /\ (check[t].pc # "idle" => check[t].user \in Users)
  BY DEF Shapes, Checks, CheckFrame
<1>1. ASSUME NEW t \in Slots, RunCheck(t) PROVE UpToDate'
  BY <1>1, UpToDateCheck
<1>2. ASSUME NEW u \in Users, NEW g \in Totals, WalletChange(u, g) PROVE UpToDate'
  <2>1. /\ UNCHANGED <<config, check, level>>
        /\ stale' = stale \cup HasTotal(u) /\ current' = current \ {u}
        /\ \A w \in Users \ {u} : total'[w] = total[w]
    BY <1>2 DEF WalletChange, codeVars, Shapes
  <2>2. \A t \in Slots \ stale' :
           \/ check'[t].pc \in {"idle", "wallet", "done", "failed"}
           \/ t \notin stale /\ check[t].user \in Users \ {u}
    BY <1>0, <2>1 DEF HasTotal, CheckPc
  <2>3. QED
    BY <2>1, <2>2, UpToDateKept DEF UpToDate
<1>3. ASSUME NEW u \in Users, NEW l \in Levels, Override(u, l) PROVE UpToDate'
  <2>1. /\ UNCHANGED <<config, check, total, stale>> /\ current' = current \ {u}
        /\ \A w \in Users \ {u} : level'[w] = level[w]
    BY <1>3 DEF Override, OverrideLevel, WalletUnchanged, Shapes
  <2>2. QED
    BY <2>1, UpToDateKept DEF UpToDate
<1>4. ASSUME UNCHANGED <<config, check, total, level, stale, current>> PROVE UpToDate'
  BY <1>4, UpToDateKept
<1>5. ASSUME NEW e \in Editors, NEW body \in EditRequests, BeginEdit(e, body) PROVE UpToDate'
  BY <1>4, <1>5 DEF BeginEdit, StartEdit, WalletUnchanged
<1>6. ASSUME NEW e \in Editors, Edit(e) PROVE UpToDate'
  <2>1. CASE FailEdit(e) /\ WalletUnchanged /\ UNCHANGED historyVars
    BY <1>4, <2>1 DEF FailEdit, WalletUnchanged, historyVars
  <2>2. CASE UpsertRow(e) /\ stale' = stale \cup HasConfigs /\ TableChange
    <3>1. UNCHANGED <<check, level, total>> /\ current' = IF config' = config THEN current ELSE {}
      BY <2>2 DEF UpsertRow, TableChange, WalletUnchanged
    <3>2. \A t \in Slots \ stale' : t \notin stale /\ check[t].pc \notin {"user", "update"}
      BY <2>2 DEF HasConfigs
    <3>3. QED
      BY <3>1, <3>2, UpToDateKept
  <2>3. QED
    BY <1>6, <2>1, <2>2 DEF Edit
<1>7. ASSUME CrashAndRestart PROVE UpToDate'
  <2>1. \A t \in Slots : check'[t].pc = "idle"
    BY <1>7, ForgetFrames DEF CrashAndRestart, Restart, Shapes
  <2>2. UNCHANGED <<level, total>> /\ current' = IF config' = config THEN current ELSE {}
    BY <1>7 DEF CrashAndRestart, Restart, TableChange, WalletUnchanged
  <2>3. QED
    BY <2>1, <2>2, UpToDateKept
<1>8. ASSUME UNCHANGED vars PROVE UpToDate'
  BY <1>4, <1>8 DEF vars, codeVars, historyVars
<1>9. QED
  BY <1>1, <1>2, <1>3, <1>5, <1>6, <1>7, <1>8 DEF RaceNext

(* A level that a check has brought up to date is the one the present      *)
(* total and thresholds give, until one of them, or the level, changes.    *)
THEOREM LevelsAreCurrent == RaceSpec => []LevelCurrent
<1>1. RaceInit => Shapes /\ UpToDate
  BY ShapesInit, UpToDateInit
<1>2. Shapes /\ UpToDate /\ [RaceNext]_vars => (Shapes /\ UpToDate)'
  BY ShapesStep, UpToDateStep
<1>3. UpToDate => LevelCurrent
  BY DEF UpToDate
<1>4. QED
  BY <1>1, <1>2, <1>3, PTL DEF RaceSpec
-----------------------------------------------------------------------------
(***************************************************************************)
(* Types.                                                                  *)
(***************************************************************************)
Surroundings ==
    /\ opened \in SUBSET Users
    /\ overridden \in SUBSET Users
    /\ stale \in SUBSET Slots
    /\ changes \in Nat

LEMMA SurroundingsStep == Shapes /\ Surroundings /\ [RaceNext]_vars => Surroundings'
<1> SUFFICES ASSUME Shapes, Surroundings, [RaceNext]_vars PROVE Surroundings'
  OBVIOUS
<1> USE DEF Surroundings
<1>1. ASSUME NEW t \in Slots, RunCheck(t) PROVE Surroundings'
  BY <1>1 DEF RunCheck, WalletUnchanged, historyVars
<1>2. ASSUME NEW u \in Users, NEW g \in Totals, WalletChange(u, g) PROVE Surroundings'
  BY <1>2 DEF WalletChange, OutsideChange, HasTotal
<1>3. ASSUME NEW u \in Users, NEW l \in Levels, Override(u, l) PROVE Surroundings'
  BY <1>3 DEF Override, OutsideChange, WalletUnchanged
<1>4. ASSUME NEW e \in Editors, NEW body \in EditRequests, BeginEdit(e, body)
      PROVE  Surroundings'
  BY <1>4 DEF BeginEdit, OutsideChange, WalletUnchanged
<1>5. ASSUME NEW e \in Editors, Edit(e) PROVE Surroundings'
  BY <1>5 DEF Edit, TableChange, HasConfigs, WalletUnchanged, historyVars
<1>6. CASE CrashAndRestart
  BY <1>6 DEF CrashAndRestart, TableChange, WalletUnchanged
<1>7. CASE UNCHANGED vars
  BY <1>7 DEF vars, historyVars
<1>8. QED
  BY <1>1, <1>2, <1>3, <1>4, <1>5, <1>6, <1>7 DEF RaceNext

(* Tables, checks, edits and the records of the past keep their types.     *)
THEOREM TypeCorrect == RaceSpec => []TypeOK
<1> DEFINE Inv == Shapes /\ Earned /\ UpToDate /\ Surroundings
<1>1. RaceInit => Inv
  BY ShapesInit, EarnedInit, UpToDateInit DEF RaceInit, Surroundings
<1>2. Inv /\ [RaceNext]_vars => Inv'
  BY ShapesStep, EarnedStep, UpToDateStep, SurroundingsStep
<1>3. Inv => TypeOK
  BY DEF Shapes, Table, Checks, Earned, UpToDate, Surroundings, TypeOK, ServiceTypeOK
<1>4. QED
  BY <1>1, <1>2, <1>3, PTL DEF RaceSpec
-----------------------------------------------------------------------------
(***************************************************************************)
(* The next level.  Of the thresholds above a total, one is the least: no  *)
(* set of naturals is without a least member.                              *)
(***************************************************************************)
LEMMA LeastThreshold ==
    ASSUME NEW cfg, Table(cfg), NEW g \in Int, NEW l \in DOMAIN cfg, cfg[l] > g
    PROVE  \E k \in DOMAIN cfg :
              cfg[k] > g /\ \A j \in DOMAIN cfg : cfg[j] > g => cfg[k] <= cfg[j]
<1> DEFINE above == {k \in DOMAIN cfg : cfg[k] > g}
           distances == {cfg[k] - g : k \in above}
<1>1. distances \subseteq Nat /\ distances # {}
  BY DEF Table
<1>2. PICK d \in distances : \A e \in distances : <<e, d>> \notin OpToRel(<, Nat)
  BY <1>1, NatLessThanWellFounded, WFMin
<1>3. \A e \in distances : ~(e < d)
  BY <1>1, <1>2 DEF OpToRel
<1>4. PICK k \in above : d = cfg[k] - g
  OBVIOUS
<1>5. ASSUME NEW j \in DOMAIN cfg, cfg[j] > g PROVE cfg[k] <= cfg[j]
  <2>1. ~(cfg[j] - g < cfg[k] - g)
    BY <1>3, <1>4, <1>5
  <2>2. QED
    BY <2>1 DEF Table
<1>6. QED
  BY <1>4, <1>5

LEMMA NextThreshold ==
    ASSUME NEW cfg, Table(cfg), NEW g \in Int, NEW n, n = GramsToNext(cfg, g)
    PROVE  \/ n = 0 /\ \A l \in DOMAIN cfg : cfg[l] <= g
           \/ /\ n \in Nat /\ n > 0
              /\ \E l \in DOMAIN cfg : cfg[l] = g + n
              /\ \A l \in DOMAIN cfg : cfg[l] <= g \/ cfg[l] >= g + n
<1> DEFINE above == {l \in DOMAIN cfg : cfg[l] > g}
           least(m) == m \in {cfg[l] : l \in above} /\ \A l \in above : m <= cfg[l]
<1>1. CASE above = {}
  BY <1>1 DEF GramsToNext, Table
<1>2. CASE above # {}
  <2>1. \E m : least(m)
    BY <1>2, LeastThreshold
  <2> DEFINE m == CHOOSE x \in {cfg[l] : l \in above} : \A l \in above : x <= cfg[l]
  <2>2. least(m)
    BY <2>1
  <2>3. n = m - g
    BY <1>2 DEF GramsToNext
  <2> HIDE DEF m
  <2>4. PICK k \in above : m = cfg[k]
    BY <2>2
  <2>5. QED
    BY <2>2, <2>3, <2>4 DEF Table
<1>3. QED
  BY <1>1, <1>2

(* What GET membership/info tells a user of the next level is true of any  *)
(* table that edits, seeding and restarts leave.                           *)
THEOREM PromiseIsKept == RaceSpec => []NextLevelPromise
<1>1. Shapes => NextLevelPromise
  <2> SUFFICES ASSUME Shapes, NEW g \in Totals, NEW h \in Totals, h >= g,
                      NEW n, n = GramsToNext(config, g)
               PROVE  /\ (n = 0 \/ h - g < n) => LevelsFor(config, h) = LevelsFor(config, g)
                      /\ (n > 0 /\ h - g = n) => \A l \in LevelsFor(config, h) : config[l] = h
    BY DEF NextLevelPromise
  <2>1. g \in Int /\ h \in Int /\ Table(config)
    BY RacesAssumption DEF Shapes
  <2>2. \/ n = 0 /\ \A l \in DOMAIN config : config[l] <= g
        \/ /\ n \in Nat /\ n > 0
           /\ \E l \in DOMAIN config : config[l] = g + n
           /\ \A l \in DOMAIN config : config[l] <= g \/ config[l] >= g + n
    BY <2>1, NextThreshold
  <2>3. ASSUME n = 0 \/ h - g < n PROVE LevelsFor(config, h) = LevelsFor(config, g)
    <3>1. Reached(config, h) = Reached(config, g)
      BY <2>1, <2>2, <2>3 DEF Reached, Table
    <3>2. QED
      BY <3>1 DEF LevelsFor
  <2>4. ASSUME n > 0, h - g = n, NEW l \in LevelsFor(config, h) PROVE config[l] = h
    <3>1. PICK k \in DOMAIN config : config[k] = h
      BY <2>1, <2>2, <2>4
    <3>2. k \in Reached(config, h)
      BY <2>1, <3>1 DEF Reached
    <3>3. l \in DOMAIN config /\ config[l] <= h /\ config[k] <= config[l]
      BY <3>2, <2>4 DEF LevelsFor, Reached
    <3>4. QED
      BY <2>1, <3>1, <3>3 DEF Table
  <2>5. QED
    BY <2>3, <2>4
<1>2. QED
  BY <1>1, ShapesInit, ShapesStep, PTL DEF RaceSpec
=============================================================================
