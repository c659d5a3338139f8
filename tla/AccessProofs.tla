---------------------------- MODULE AccessProofs ----------------------------
(***************************************************************************)
(* Proofs about MCAccess, for any constants that satisfy AccessAssumption: *)
(* any phones, requests, administrators, pages, sections, users and times. *)
(* Each part is proved for itself, from an inductive invariant of its own; *)
(* the last section puts them together.                                    *)
(***************************************************************************)
EXTENDS MCAccess, Integers, Sequences, FiniteSetTheorems, TLAPS

-----------------------------------------------------------------------------
(*************************************************************************)
(* The lockout: Login.                                                   *)
(*************************************************************************)
LEMMA LoginTypeInit == ASSUME Login!LoginAssumption PROVE Login!Init => Login!TypeOK
BY DEF Login!LoginAssumption, Login!Init, Login!TypeOK, Login!NoRecord, Login!IdleAttempt

(* The record a failure leaves is a record again.                          *)
LEMMA LoginFailedRecord ==
    ASSUME Login!LoginAssumption, now \in 0..MaxNow,
           NEW rec \in [count : 0..MaxFailures - 1, until : 0..MaxNow + Block]
    PROVE  /\ Login!Failed(rec) \in [count : 0..MaxFailures - 1, until : 0..MaxNow + Block]
           /\ rec.until = 0 /\ Login!Failed(rec).until = 0 => Login!Failed(rec).count = rec.count + 1
           /\ rec.until # 0 => Login!Failed(rec).until # 0
           /\ Login!Failed(rec).until # rec.until => rec.count = MaxFailures - 1
BY DEF Login!LoginAssumption, Login!Failed

LEMMA LoginTypeStep == ASSUME Login!LoginAssumption PROVE Login!TypeOK /\ [Login!Next]_(Login!vars) => Login!TypeOK'
<1> SUFFICES ASSUME Login!TypeOK, [Login!Next]_(Login!vars) PROVE Login!TypeOK'
  OBVIOUS
<1> USE DEF Login!TypeOK
<1>1. ASSUME NEW t \in Tries, NEW p \in Phones, Login!Login(t, p) PROVE Login!TypeOK'
  BY <1>1 DEF Login!LoginAssumption, Login!Login, Login!NoRecord
<1>2. ASSUME NEW t \in Tries, attempt[t].pc # "idle", Login!Fail(t) PROVE Login!TypeOK'
  <2>1. PICK p \in Phones : p = attempt[t].phone
    BY <1>2
  <2>2. attempts' = [attempts EXCEPT ![p] = Login!Failed(attempts[p])]
    BY <1>2, <2>1 DEF Login!Fail
  <2>3. attempts' \in [Phones -> [count : 0..MaxFailures - 1, until : 0..MaxNow + Block]]
    BY <2>1, <2>2, LoginFailedRecord
  <2>4. QED
    BY <1>2, <2>1, <2>3 DEF Login!Fail, Login!IdleAttempt
<1>3. ASSUME NEW t \in Tries, Login!Lookup(t) PROVE Login!TypeOK'
  BY <1>2, <1>3 DEF Login!LoginAssumption, Login!Lookup
<1>4. ASSUME NEW t \in Tries, Login!WrongPassword(t) PROVE Login!TypeOK'
  BY <1>2, <1>4 DEF Login!WrongPassword
<1>5. ASSUME NEW t \in Tries, Login!RightPassword(t) PROVE Login!TypeOK'
  BY <1>5 DEF Login!LoginAssumption, Login!RightPassword, Login!NoRecord, Login!IdleAttempt
<1>6. CASE Login!Tick
  BY <1>6 DEF Login!LoginAssumption, Login!Tick
<1>7. CASE Login!Restart
  BY <1>7 DEF Login!LoginAssumption, Login!Restart, Login!NoRecord, Login!IdleAttempt
<1>8. CASE UNCHANGED Login!vars
  BY <1>8 DEF Login!vars
<1>9. QED
  BY <1>1, <1>3, <1>4, <1>5, <1>6, <1>7, <1>8 DEF Login!Next

(* Records, handlers and counters keep their types.                        *)
LEMMA LoginTypeCorrect == ASSUME Login!LoginAssumption PROVE Login!Spec => []Login!TypeOK
<1>1. Login!Init => Login!TypeOK
  BY LoginTypeInit
<1>2. Login!TypeOK /\ [Login!Next]_(Login!vars) => Login!TypeOK'
  BY LoginTypeStep
<1>3. QED
  BY <1>1, <1>2, PTL DEF Login!Spec

-----------------------------------------------------------------------------
(* What holds of one phone's guesses: before a block they are exactly what *)
(* the record counts; from the block on, every judged guess takes one of   *)
(* the handlers that were in flight, and nobody else gets past the check.  *)
LoginBounded(p) ==
    IF attempts[p].until = 0
    THEN wrong[p] = attempts[p].count
    ELSE wrong[p] + Cardinality(Login!InFlight(p)) <= MaxFailures + Cardinality(Tries) - 1

LoginGuessInv == Login!TypeOK /\ \A p \in Phones : LoginBounded(p)

LEMMA LoginFlightFinite ==
    ASSUME IsFiniteSet(Tries), NEW p
    PROVE  /\ IsFiniteSet(Login!InFlight(p))
           /\ Cardinality(Login!InFlight(p)) \in Nat
           /\ Cardinality(Tries) \in Nat
           /\ Cardinality(Login!InFlight(p)) <= Cardinality(Tries)
<1>1. Login!InFlight(p) \subseteq Tries
  BY DEF Login!InFlight
<1>2. QED
  BY <1>1, FS_Subset, FS_CardinalityType

(* A failure counts in the record, or takes one handler out of the flight. *)
LEMMA LoginFailBounded ==
    ASSUME Login!LoginAssumption, IsFiniteSet(Tries), LoginGuessInv,
           NEW t \in Tries, attempt[t].pc # "idle", Login!Fail(t), NEW q \in Phones
    PROVE  LoginBounded(q)'
<1>1. PICK p \in Phones : p = attempt[t].phone
  BY DEF LoginGuessInv, Login!TypeOK
<1>2. /\ attempts' = [attempts EXCEPT ![p] = Login!Failed(attempts[p])]
      /\ wrong' = [wrong EXCEPT ![p] = wrong[p] + 1]
      /\ attempt' = [attempt EXCEPT ![t] = Login!IdleAttempt]
  BY <1>1 DEF Login!Fail
<1>3. Login!IdleAttempt.phone # p /\ Login!IdleAttempt.phone # q
  BY DEF Login!IdleAttempt, Login!LoginAssumption
<1>a. attempts \in [Phones -> [count : 0..MaxFailures - 1, until : 0..MaxNow + Block]]
      /\ attempt \in [Tries -> [pc : {"idle", "lookup", "compare"}, phone : Phones \cup {Nil}]]
      /\ wrong \in [Phones -> Nat] /\ now \in 0..MaxNow
  BY DEF LoginGuessInv, Login!TypeOK
<1>4. CASE q # p
  <2>1. Login!InFlight(q)' = Login!InFlight(q)
    BY <1>1, <1>2, <1>3, <1>4, <1>a DEF Login!InFlight
  <2>2. attempts'[q] = attempts[q] /\ wrong'[q] = wrong[q]
    BY <1>2, <1>4, <1>a
  <2>3. QED
    BY <2>1, <2>2 DEF LoginGuessInv, LoginBounded
<1>5. CASE q = p
  <2>1. Login!InFlight(p)' = Login!InFlight(p) \ {t} /\ t \in Login!InFlight(p)
    BY <1>1, <1>2, <1>3, <1>a DEF Login!InFlight
  <2>2. Cardinality(Login!InFlight(p)') = Cardinality(Login!InFlight(p)) - 1
    BY <2>1, LoginFlightFinite, FS_RemoveElement
  <2>3. attempts'[p] = Login!Failed(attempts[p]) /\ wrong'[p] = wrong[p] + 1
    BY <1>2, <1>a
  <2>4. Cardinality(Login!InFlight(p)) \in Nat /\ Cardinality(Tries) \in Nat
        /\ Cardinality(Login!InFlight(p)) <= Cardinality(Tries)
    BY LoginFlightFinite
  <2>5. MaxFailures \in Nat /\ LoginBounded(p)
    BY DEF LoginGuessInv, Login!LoginAssumption
  <2>6. /\ attempts[p].until = 0 /\ Login!Failed(attempts[p]).until = 0
             => Login!Failed(attempts[p]).count = attempts[p].count + 1
        /\ attempts[p].until # 0 => Login!Failed(attempts[p]).until # 0
        /\ Login!Failed(attempts[p]).until # attempts[p].until => attempts[p].count = MaxFailures - 1
    BY <1>a, LoginFailedRecord
  <2>7. IF attempts'[p].until = 0
        THEN wrong'[p] = attempts'[p].count
        ELSE wrong'[p] + Cardinality(Login!InFlight(p)') <= MaxFailures + Cardinality(Tries) - 1
    BY <1>a, <2>2, <2>3, <2>4, <2>5, <2>6 DEF LoginBounded
  <2>8. QED
    BY <1>5, <2>7 DEF LoginBounded
<1>6. QED
  BY <1>4, <1>5

LEMMA LoginGuessInit == ASSUME Login!LoginAssumption PROVE Login!Init => LoginGuessInv
<1>1. SUFFICES ASSUME Login!Init PROVE \A p \in Phones : LoginBounded(p)
  BY LoginTypeInit DEF LoginGuessInv
<1>2. QED
  BY <1>1 DEF Login!Init, LoginBounded, Login!NoRecord

LEMMA LoginGuessStep ==
    ASSUME Login!LoginAssumption, IsFiniteSet(Tries)
    PROVE  LoginGuessInv /\ [Login!Next]_(Login!vars) => LoginGuessInv'
<1> SUFFICES ASSUME LoginGuessInv, [Login!Next]_(Login!vars), NEW q \in Phones PROVE LoginBounded(q)'
  BY LoginTypeStep DEF LoginGuessInv
<1>a. attempts \in [Phones -> [count : 0..MaxFailures - 1, until : 0..MaxNow + Block]]
      /\ attempt \in [Tries -> [pc : {"idle", "lookup", "compare"}, phone : Phones \cup {Nil}]]
      /\ wrong \in [Phones -> Nat] /\ LoginBounded(q)
      /\ \A t \in Tries : attempt[t].pc = "idle" <=> attempt[t].phone = Nil
  BY DEF LoginGuessInv, Login!TypeOK
<1>1. ASSUME NEW t \in Tries, NEW p \in Phones, Login!Login(t, p) PROVE LoginBounded(q)'
  <2>1. CASE p = q
    BY <1>1, <1>a, <2>1 DEF Login!Login, LoginBounded, Login!NoRecord
  <2>2. CASE p # q
    <3>1. attempt[t].phone # q
      BY <1>1, <1>a DEF Login!Login, Login!LoginAssumption
    <3>2. Login!InFlight(q)' = Login!InFlight(q)
      BY <1>1, <1>a, <2>2, <3>1 DEF Login!Login, Login!InFlight
    <3>3. attempts'[q] = attempts[q] /\ wrong'[q] = wrong[q]
      BY <1>1, <1>a, <2>2 DEF Login!Login
    <3>4. QED
      BY <1>a, <3>2, <3>3 DEF LoginBounded
  <2>3. QED
    BY <2>1, <2>2
<1>2. ASSUME NEW t \in Tries, Login!Lookup(t) PROVE LoginBounded(q)'
  <2>1. CASE attempt[t].phone \in Registered
    <3>1. Login!InFlight(q)' = Login!InFlight(q)
      BY <1>2, <1>a, <2>1 DEF Login!Lookup, Login!InFlight
    <3>2. QED
      BY <1>2, <1>a, <2>1, <3>1 DEF Login!Lookup, LoginBounded
  <2>2. CASE attempt[t].phone \notin Registered
    BY <1>2, <2>2, LoginFailBounded DEF Login!Lookup
  <2>3. QED
    BY <2>1, <2>2
<1>3. ASSUME NEW t \in Tries, Login!WrongPassword(t) PROVE LoginBounded(q)'
  BY <1>3, LoginFailBounded DEF Login!WrongPassword
<1>4. ASSUME NEW t \in Tries, Login!RightPassword(t) PROVE LoginBounded(q)'
  <2>1. PICK p \in Phones : p = attempt[t].phone
    BY <1>4, <1>a DEF Login!RightPassword
  <2>2. CASE p = q
    BY <1>4, <1>a, <2>1, <2>2 DEF Login!RightPassword, LoginBounded, Login!NoRecord
  <2>3. CASE p # q
    <3>1. Login!InFlight(q)' = Login!InFlight(q)
      BY <1>4, <1>a, <2>1, <2>3 DEF Login!RightPassword, Login!InFlight, Login!IdleAttempt, Login!LoginAssumption
    <3>2. attempts'[q] = attempts[q] /\ wrong'[q] = wrong[q]
      BY <1>4, <1>a, <2>1, <2>3 DEF Login!RightPassword
    <3>3. QED
      BY <1>a, <3>1, <3>2 DEF LoginBounded
  <2>4. QED
    BY <2>2, <2>3
<1>5. CASE Login!Tick
  BY <1>5, <1>a DEF Login!Tick, LoginBounded, Login!InFlight
<1>6. CASE Login!Restart
  BY <1>6 DEF Login!Restart, LoginBounded, Login!NoRecord
<1>7. CASE UNCHANGED Login!vars
  BY <1>7, <1>a DEF Login!vars, LoginBounded, Login!InFlight
<1>8. QED
  BY <1>1, <1>2, <1>3, <1>4, <1>5, <1>6, <1>7 DEF Login!Next

(* The cardinality the instance names is that of the library.              *)
LEMMA LoginCounts ==
    ASSUME NEW S
    PROVE  /\ Login!Cardinality(S) = Cardinality(S)
           /\ Login!IsFiniteSet(S) <=> IsFiniteSet(S)
BY DEF Login!Cardinality, Cardinality, Login!IsFiniteSet, IsFiniteSet

LEMMA LoginGuessBound ==
    ASSUME Login!LoginAssumption, IsFiniteSet(Tries)
    PROVE  LoginGuessInv => Login!GuessesBounded
<1> SUFFICES ASSUME LoginGuessInv, NEW p \in Phones
             PROVE  wrong[p] <= MaxFailures + Cardinality(Tries) - 1
  BY LoginCounts DEF Login!GuessesBounded
<1>1. Cardinality(Login!InFlight(p)) \in Nat /\ Cardinality(Tries) \in Nat
  BY LoginFlightFinite
<1>2. attempts[p].count \in 0..MaxFailures - 1 /\ wrong[p] \in Nat /\ LoginBounded(p) /\ MaxFailures \in Nat
  BY DEF LoginGuessInv, Login!TypeOK, Login!LoginAssumption
<1>3. QED
  BY <1>1, <1>2 DEF LoginBounded

(* The lockout lets through no more guesses of a phone than its limit and  *)
(* one for every other request that can be in flight, however many those   *)
(* are and wherever the process restarts.                                  *)
LEMMA LoginLockoutHolds ==
    ASSUME Login!LoginAssumption, IsFiniteSet(Tries)
    PROVE  Login!Spec => []Login!GuessesBounded
<1>1. Login!Init => LoginGuessInv
  BY LoginGuessInit
<1>2. LoginGuessInv /\ [Login!Next]_(Login!vars) => LoginGuessInv'
  BY LoginGuessStep
<1>3. LoginGuessInv => Login!GuessesBounded
  BY LoginGuessBound
<1>4. QED
  BY <1>1, <1>2, <1>3, PTL DEF Login!Spec

-----------------------------------------------------------------------------
(* No block reaches further than its length from now.                      *)
LoginNear == Login!TypeOK /\ \A p \in Phones : attempts[p].until <= now + Block

LEMMA LoginNearStep == ASSUME Login!LoginAssumption PROVE LoginNear /\ [Login!Next]_(Login!vars) => LoginNear'
<1> SUFFICES ASSUME LoginNear, [Login!Next]_(Login!vars), NEW p \in Phones
             PROVE  attempts'[p].until <= now' + Block
  BY LoginTypeStep DEF LoginNear
<1>a. /\ attempts \in [Phones -> [count : 0..MaxFailures - 1, until : 0..MaxNow + Block]]
      /\ now \in Nat /\ Block \in Nat /\ attempts[p].until \in Nat
      /\ attempts[p].until <= now + Block
  BY DEF LoginNear, Login!TypeOK, Login!LoginAssumption
<1>1. ASSUME NEW t \in Tries, Login!Fail(t) PROVE attempts'[p].until <= now' + Block
  <2>1. attempts'[p] = attempts[p] \/ attempts'[p] = Login!Failed(attempts[p])
    BY <1>1, <1>a DEF Login!Fail
  <2>2. Login!Failed(attempts[p]).until = attempts[p].until \/ Login!Failed(attempts[p]).until = now + Block
    BY <1>a DEF Login!Failed
  <2>3. now' = now
    BY <1>1 DEF Login!Fail
  <2>4. QED
    BY <1>a, <2>1, <2>2, <2>3
<1>2. ASSUME NEW t \in Tries, NEW q \in Phones, Login!Login(t, q)
      PROVE  attempts'[p].until <= now' + Block
  BY <1>2, <1>a DEF Login!Login, Login!NoRecord
<1>3. ASSUME NEW t \in Tries, Login!Lookup(t) PROVE attempts'[p].until <= now' + Block
  BY <1>1, <1>3, <1>a DEF Login!Lookup
<1>4. ASSUME NEW t \in Tries, Login!WrongPassword(t) PROVE attempts'[p].until <= now' + Block
  BY <1>1, <1>4 DEF Login!WrongPassword
<1>5. ASSUME NEW t \in Tries, Login!RightPassword(t) PROVE attempts'[p].until <= now' + Block
  BY <1>5, <1>a DEF Login!RightPassword, Login!NoRecord
<1>6. CASE Login!Tick
  BY <1>6, <1>a DEF Login!Tick
<1>7. CASE Login!Restart
  BY <1>7, <1>a DEF Login!Restart, Login!NoRecord
<1>8. CASE UNCHANGED Login!vars
  BY <1>8, <1>a DEF Login!vars
<1>9. QED
  BY <1>2, <1>3, <1>4, <1>5, <1>6, <1>7, <1>8 DEF Login!Next

(* What one step does to a block that stands.                              *)
LoginStands(p) ==
    \/ attempts'[p].until >= attempts[p].until
    \/ restarts' > restarts
    \/ \E t \in Login!InFlight(p) : attempt[t].pc = "compare" /\ attempt'[t].pc = "idle"
                              /\ attempts'[p] = Login!NoRecord

LEMMA LoginStandsStep ==
    ASSUME Login!LoginAssumption, LoginNear, Login!Next, NEW p \in Phones, Login!Blocked(p)
    PROVE  LoginStands(p)
<1>a. /\ attempts \in [Phones -> [count : 0..MaxFailures - 1, until : 0..MaxNow + Block]]
      /\ attempt \in [Tries -> [pc : {"idle", "lookup", "compare"}, phone : Phones \cup {Nil}]]
      /\ now \in Nat /\ Block \in Nat /\ restarts \in Nat /\ attempts[p].until \in Nat
      /\ attempts[p].until <= now + Block
  BY DEF LoginNear, Login!TypeOK, Login!LoginAssumption
<1>1. ASSUME NEW t \in Tries, Login!Fail(t) PROVE LoginStands(p)
  <2>1. attempts'[p] = attempts[p] \/ attempts'[p] = Login!Failed(attempts[p])
    BY <1>1, <1>a DEF Login!Fail
  <2>2. Login!Failed(attempts[p]).until = attempts[p].until \/ Login!Failed(attempts[p]).until = now + Block
    BY <1>a DEF Login!Failed
  <2>3. QED
    BY <1>a, <2>1, <2>2 DEF LoginStands
<1>2. ASSUME NEW t \in Tries, NEW q \in Phones, Login!Login(t, q) PROVE LoginStands(p)
  <2>1. q # p
    BY <1>2 DEF Login!Login
  <2>2. attempts'[p] = attempts[p]
    BY <1>2, <1>a, <2>1 DEF Login!Login
  <2>3. QED
    BY <1>a, <2>2 DEF LoginStands
<1>3. ASSUME NEW t \in Tries, Login!Lookup(t) PROVE LoginStands(p)
  BY <1>1, <1>3, <1>a DEF Login!Lookup, LoginStands
<1>4. ASSUME NEW t \in Tries, Login!WrongPassword(t) PROVE LoginStands(p)
  BY <1>1, <1>4 DEF Login!WrongPassword
<1>5. ASSUME NEW t \in Tries, Login!RightPassword(t) PROVE LoginStands(p)
  <2>1. CASE attempt[t].phone = p
    <3>1. t \in Login!InFlight(p) /\ attempt[t].pc = "compare" /\ attempt'[t].pc = "idle"
          /\ attempts'[p] = Login!NoRecord
      BY <1>5, <1>a, <2>1 DEF Login!RightPassword, Login!IdleAttempt, Login!InFlight
    <3>2. QED
      BY <3>1 DEF LoginStands
  <2>2. CASE attempt[t].phone # p
    <3>1. attempts'[p] = attempts[p]
      BY <1>5, <1>a, <2>2 DEF Login!RightPassword
    <3>2. QED
      BY <1>a, <3>1 DEF LoginStands
  <2>3. QED
    BY <2>1, <2>2
<1>6. CASE Login!Tick
  BY <1>6, <1>a DEF Login!Tick, LoginStands
<1>7. CASE Login!Restart
  BY <1>7, <1>a DEF Login!Restart, LoginStands
<1>8. QED
  BY <1>2, <1>3, <1>4, <1>5, <1>6, <1>7 DEF Login!Next

(* A block of a phone lasts its time: only a restart, or the right         *)
(* password of a handler that was already in flight, ends it early.        *)
LEMMA LoginBlocksLast == ASSUME Login!LoginAssumption PROVE Login!Spec => Login!BlockLasts
<1>1. Login!Init => LoginNear
  BY LoginTypeInit DEF LoginNear, Login!Init, Login!NoRecord, Login!LoginAssumption
<1>2. LoginNear /\ [Login!Next]_(Login!vars) => LoginNear'
  BY LoginNearStep
<1>3. LoginNear /\ [Login!Next]_(Login!vars) => [\A p \in Phones : Login!Blocked(p) => LoginStands(p)]_(Login!vars)
  BY LoginStandsStep
<1>4. QED
  BY <1>1, <1>2, <1>3, PTL DEF Login!Spec, Login!BlockLasts, LoginStands
-----------------------------------------------------------------------------
(*************************************************************************)
(* A customer's tokens: Tokens.                                          *)
(*************************************************************************)
TokensCallPc == {"idle", "sign", "row", "lookup", "delete", "account", "signed"}

TokensShape ==
    /\ clock \in Nat
    /\ rows \cup revoked \subseteq DOMAIN issued
    /\ issued \in Seq([row : Nat, jwt : Nat])
    /\ access \subseteq [exp : Nat, late : BOOLEAN, dead : BOOLEAN]
    /\ request \in [Slots -> [pc : TokensCallPc, id : Nat, exp : Nat, late : BOOLEAN, dead : BOOLEAN]]

(* What signs a token for an account that is suspended was on its way; a   *)
(* token never lives longer than its life from now.                        *)
TokensStanding ==
    /\ status = "ACTIVE" => barred = Nil
    /\ barred # Nil => barred \in Nat
    /\ \A a \in access : a.exp <= clock + AccessTtl
    /\ barred # Nil => \A t \in Slots : request[t].pc \in {"sign", "signed"} => request[t].late
    /\ Tokens!SuspendedIsOut

(* A request with a revoked token gets as far as the lookup of its row.    *)
TokensRefused ==
    /\ rows \cap revoked = {}
    /\ \A t \in Slots : request[t].dead => request[t].pc = "lookup" /\ request[t].id \in revoked
    /\ Tokens!RevokedYieldsNothing

(* What a refresh deletes has expired.                                     *)
TokensKept ==
    /\ \A t \in Slots : request[t].pc = "lookup" => request[t].id \in DOMAIN issued
    /\ \A t \in Slots : request[t].pc = "delete" =>
          request[t].id \in DOMAIN issued /\ issued[request[t].id].row < clock
    /\ Tokens!OnlyLogoutRevokes

TokensIInv == TokensShape /\ TokensStanding /\ TokensRefused /\ TokensKept

LEMMA TokensInvInit == ASSUME Tokens!TokensAssumption PROVE Tokens!Init => TokensIInv
BY DEF Tokens!TokensAssumption, Tokens!Init, Tokens!IdleCall, TokensIInv, TokensShape, TokensCallPc, TokensStanding,
     TokensRefused, TokensKept, Tokens!SuspendedIsOut, Tokens!RevokedYieldsNothing, Tokens!OnlyLogoutRevokes

(* When a row was issued and expires is a number.                          *)
LEMMA TokensRowTimes ==
    ASSUME TokensShape
    PROVE  DOMAIN issued \subseteq Nat /\ \A i \in DOMAIN issued : issued[i].row \in Nat
<1>1. issued \in Seq([row : Nat, jwt : Nat])
  BY DEF TokensShape
<1> DEFINE R == [row : Nat, jwt : Nat]
<1>2. \A r \in R : r.row \in Nat
  OBVIOUS
<1>3. issued \in Seq(R)
  BY <1>1
<1> HIDE DEF R
<1>4. DOMAIN issued = 1..Len(issued) /\ Len(issued) \in Nat
  BY <1>3
<1>5. \A i \in 1..Len(issued) : issued[i] \in R
  BY <1>3
<1>6. QED
  BY <1>2, <1>4, <1>5

(* A request that starts, goes on or ends, and signs nothing.              *)
LEMMA TokensInvMoves ==
    ASSUME TokensIInv, UNCHANGED <<Tokens!clock, rows, issued, access, revoked>>, NEW t \in Slots,
           \/ Tokens!Leave(t)
           \/ /\ Tokens!Goto(t, "sign") /\ request[t].pc = "idle" /\ status = "ACTIVE"
           \/ /\ Tokens!Goto(t, "delete") /\ request[t].pc = "lookup" /\ request[t].id \in rows
              /\ issued[request[t].id].row < clock
           \/ Tokens!Goto(t, "account") /\ request[t].pc = "lookup" /\ request[t].id \in rows
           \/ Tokens!Goto(t, "signed") /\ request[t].pc = "account" /\ status = "ACTIVE"
           \/ \E i \in DOMAIN issued, b \in BOOLEAN :
                 /\ b = TRUE => i \in revoked
                 /\ request' = [request EXCEPT ![t] = Tokens!LookupCall(i, b)]
    PROVE  TokensIInv'
<1> USE DEF TokensIInv, Tokens!clock
<1>1. \A s \in Slots \ {t} : request'[s] = request[s]
  BY DEF TokensShape, Tokens!Leave, Tokens!Goto
<1> DEFINE Post ==
      /\ request' \in [Slots -> [pc : TokensCallPc, id : Nat, exp : Nat, late : BOOLEAN, dead : BOOLEAN]]
      /\ request'[t].pc \in {"sign", "signed"} => status = "ACTIVE"
      /\ request'[t].dead => request'[t].pc = "lookup" /\ request'[t].id \in revoked
      /\ request'[t].pc = "lookup" => request'[t].id \in DOMAIN issued
      /\ request'[t].pc = "delete" =>
            request'[t].id \in DOMAIN issued /\ issued[request'[t].id].row < clock
<1>2. Post
  <2>1. CASE Tokens!Leave(t)
    BY <2>1 DEF TokensShape, Tokens!Leave, Tokens!IdleCall, TokensCallPc
  <2>2. ASSUME NEW pc \in TokensCallPc \ {"lookup"}, Tokens!Goto(t, pc),
               pc \in {"sign", "signed"} => status = "ACTIVE",
               request[t].pc = "lookup" => request[t].id \in rows,
               pc = "delete" => request[t].id \in rows /\ issued[request[t].id].row < clock
        PROVE  Post
    <3>1. request' \in [Slots -> [pc : TokensCallPc, id : Nat, exp : Nat, late : BOOLEAN, dead : BOOLEAN]]
      BY <2>2 DEF TokensShape, Tokens!Goto
    <3>2. request'[t].pc = pc /\ request'[t].id = request[t].id /\ request'[t].dead = request[t].dead
      BY <2>2 DEF TokensShape, Tokens!Goto
    <3>3. ~request[t].dead /\ rows \subseteq DOMAIN issued
      BY <2>2 DEF TokensShape, TokensRefused
    <3>4. pc = "delete" => request[t].id \in DOMAIN issued /\ issued[request[t].id].row < clock
      BY <2>2, <3>3
    <3>5. QED
      BY <2>2, <3>1, <3>2, <3>3, <3>4
  <2>3. ASSUME NEW i \in DOMAIN issued, NEW b \in BOOLEAN, b = TRUE => i \in revoked,
               request' = [request EXCEPT ![t] = Tokens!LookupCall(i, b)]
        PROVE  Post
    <3>1. i \in Nat
      BY TokensRowTimes
    <3> DEFINE c == Tokens!LookupCall(i, b)
    <3>3. c \in [pc : TokensCallPc, id : Nat, exp : Nat, late : BOOLEAN, dead : BOOLEAN]
      BY <3>1 DEF Tokens!LookupCall, TokensCallPc
    <3>4. c.pc = "lookup" /\ c.id = i /\ c.dead = b
      BY DEF Tokens!LookupCall
    <3>5. request' = [request EXCEPT ![t] = c]
      BY <2>3 DEF c
    <3> HIDE DEF c
    <3>6. request' \in [Slots -> [pc : TokensCallPc, id : Nat, exp : Nat, late : BOOLEAN, dead : BOOLEAN]]
      BY <3>3, <3>5 DEF TokensShape
    <3>7. request'[t] = c
      BY <3>5 DEF TokensShape
    <3>8. QED
      BY <2>3, <3>4, <3>6, <3>7
  <2>4. CASE Tokens!Goto(t, "sign") /\ request[t].pc = "idle" /\ status = "ACTIVE"
    BY <2>2, <2>4 DEF TokensCallPc
  <2>5. CASE Tokens!Goto(t, "delete") /\ request[t].id \in rows /\ issued[request[t].id].row < clock
    BY <2>2, <2>5 DEF TokensCallPc
  <2>6. CASE Tokens!Goto(t, "account") /\ request[t].id \in rows
    BY <2>2, <2>6 DEF TokensCallPc
  <2>7. CASE Tokens!Goto(t, "signed") /\ request[t].pc = "account" /\ status = "ACTIVE"
    BY <2>2, <2>7 DEF TokensCallPc
  <2> HIDE DEF Post
  <2>8. QED
    BY <2>1, <2>3, <2>4, <2>5, <2>6, <2>7
<1>3. TokensShape'
  BY <1>2 DEF TokensShape
<1>4. TokensStanding'
  BY <1>1, <1>2 DEF TokensStanding, Tokens!SuspendedIsOut, Tokens!Accepts
<1>5. TokensRefused'
  BY <1>1, <1>2 DEF TokensRefused, Tokens!RevokedYieldsNothing
<1>6. TokensKept'
  BY <1>1, <1>2 DEF TokensKept, Tokens!OnlyLogoutRevokes
<1>7. QED
  BY <1>3, <1>4, <1>5, <1>6

(* issueTokens and refreshToken sign an access token.                      *)
LEMMA TokensInvSigns ==
    ASSUME Tokens!TokensAssumption, TokensIInv, UNCHANGED <<Tokens!clock, rows, issued, revoked>>, NEW t \in Slots,
           request[t].pc \in {"sign", "signed"}, access' = access \cup {Tokens!AccessOf(t)},
           \/ Tokens!Leave(t)
           \/ request' = [request EXCEPT ![t].pc = "row", ![t].exp = clock + RefreshTtl]
    PROVE  TokensIInv'
<1> USE DEF TokensIInv, Tokens!clock
<1>1. /\ clock + AccessTtl \in Nat /\ clock + RefreshTtl \in Nat /\ ~request[t].dead
      /\ barred # Nil => request[t].late
  BY DEF TokensShape, TokensRefused, TokensStanding, Tokens!TokensAssumption
<1>2. Tokens!AccessOf(t) \in [exp : Nat, late : BOOLEAN, dead : BOOLEAN]
  BY <1>1 DEF Tokens!AccessOf, TokensShape
<1>3. /\ request' \in [Slots -> [pc : TokensCallPc, id : Nat, exp : Nat, late : BOOLEAN, dead : BOOLEAN]]
      /\ \A s \in Slots \ {t} : request'[s] = request[s]
      /\ request'[t].pc \in {"idle", "row"} /\ ~request'[t].dead
  <2>1. CASE Tokens!Leave(t)
    BY <2>1 DEF TokensShape, Tokens!Leave, Tokens!IdleCall, TokensCallPc
  <2>2. CASE request' = [request EXCEPT ![t].pc = "row", ![t].exp = clock + RefreshTtl]
    <3>1. \A s \in Slots \ {t} : request'[s] = request[s]
      BY <2>2 DEF TokensShape
    <3>2. request'[t] = [request[t] EXCEPT !.pc = "row", !.exp = clock + RefreshTtl]
      BY <2>2 DEF TokensShape
    <3>3. /\ request[t] \in [pc : TokensCallPc, id : Nat, exp : Nat, late : BOOLEAN, dead : BOOLEAN]
          /\ DOMAIN request' = Slots /\ request' = [s \in Slots |-> request'[s]]
      BY <2>2 DEF TokensShape
    <3>4. /\ request'[t] \in [pc : TokensCallPc, id : Nat, exp : Nat, late : BOOLEAN, dead : BOOLEAN]
          /\ request'[t].pc = "row" /\ request'[t].dead = request[t].dead
      BY <1>1, <3>2, <3>3 DEF TokensCallPc
    <3>5. QED
      BY <1>1, <3>1, <3>3, <3>4 DEF TokensShape
  <2>3. QED
    BY <2>1, <2>2
<1>4. TokensShape'
  BY <1>2, <1>3 DEF TokensShape
<1>5. TokensStanding'
  <2>1. Tokens!AccessOf(t).exp = clock + AccessTtl /\ Tokens!AccessOf(t).late = request[t].late
    BY DEF Tokens!AccessOf
  <2>2. \A a \in access' : a \in access \/ a = Tokens!AccessOf(t)
    OBVIOUS
  <2>3. UNCHANGED <<clock, status, barred>>
    OBVIOUS
  <2>4. \A a \in access' : a.exp <= clock + AccessTtl
    BY <1>1, <2>1, <2>2 DEF TokensStanding
  <2>5. Tokens!SuspendedIsOut'
    BY <1>1, <2>1, <2>2, <2>3 DEF TokensStanding, Tokens!SuspendedIsOut, Tokens!Accepts
  <2>6. QED
    BY <1>3, <2>3, <2>4, <2>5 DEF TokensStanding
<1>6. TokensRefused'
  BY <1>1, <1>3 DEF TokensRefused, Tokens!RevokedYieldsNothing, Tokens!AccessOf
<1>7. TokensKept'
  BY <1>3 DEF TokensKept, Tokens!OnlyLogoutRevokes
<1>8. QED
  BY <1>4, <1>5, <1>6, <1>7

LEMMA TokensInvStep == ASSUME Tokens!TokensAssumption PROVE TokensIInv /\ [Tokens!Next]_(Tokens!vars) => TokensIInv'
<1> SUFFICES ASSUME TokensIInv, [Tokens!Next]_(Tokens!vars) PROVE TokensIInv'
  OBVIOUS
<1>1. ASSUME NEW t \in Slots,
             \/ Tokens!BeginLogin(t) \/ Tokens!Lookup(t) \/ Tokens!ReadAccount(t) \/
                  \E i \in Tokens!Ids : Tokens!BeginRefresh(t, i)
      PROVE  TokensIInv'
  <2>1. ASSUME NEW i \in Tokens!Ids, Tokens!BeginRefresh(t, i) PROVE TokensIInv'
    <3>1. (i \in revoked) = TRUE \/ (i \in revoked) = FALSE
      OBVIOUS
    <3>2. \E b \in BOOLEAN : /\ b = TRUE => i \in revoked
                             /\ request' = [request EXCEPT ![t] = Tokens!LookupCall(i, b)]
      <4>1. CASE (i \in revoked) = TRUE
        BY <2>1, <4>1, Zenon DEF Tokens!BeginRefresh
      <4>2. CASE (i \in revoked) = FALSE
        BY <2>1, <4>2, Zenon DEF Tokens!BeginRefresh
      <4>3. QED
        BY <3>1, <4>1, <4>2
    <3>3. i \in DOMAIN issued /\ UNCHANGED <<Tokens!clock, rows, issued, access, revoked>>
      BY <2>1 DEF Tokens!BeginRefresh
    <3>4. QED
      BY <3>2, <3>3, TokensInvMoves
  <2>2. CASE Tokens!BeginLogin(t) \/ Tokens!Lookup(t) \/ Tokens!ReadAccount(t)
    BY <2>2, TokensInvMoves DEF Tokens!BeginLogin, Tokens!Lookup, Tokens!ReadAccount
  <2>3. QED
    BY <1>1, <2>1, <2>2
<1>2. ASSUME NEW t \in Slots, Tokens!SignAccess(t) \/ Tokens!SignRefreshed(t) PROVE TokensIInv'
  BY <1>2, TokensInvSigns DEF Tokens!SignAccess, Tokens!SignRefreshed
<1>3. ASSUME NEW t \in Slots, Tokens!CreateRow(t) PROVE TokensIInv'
  <2> DEFINE n == Len(issued) + 1
  <2> USE DEF TokensIInv
  <2>1. /\ issued \in Seq([row : Nat, jwt : Nat])
        /\ [row |-> request[t].exp, jwt |-> clock + RefreshTtl] \in [row : Nat, jwt : Nat]
    BY DEF TokensShape, Tokens!TokensAssumption
  <2>2. /\ issued' \in Seq([row : Nat, jwt : Nat])
        /\ DOMAIN issued' = DOMAIN issued \cup {n} /\ n \notin DOMAIN issued
        /\ \A i \in DOMAIN issued : issued'[i] = issued[i]
        /\ Len(issued') = n
    BY <1>3, <2>1 DEF Tokens!CreateRow
  <2>3. rows' = rows \cup {n}
    BY <1>3, <2>2 DEF Tokens!CreateRow
  <2> HIDE DEF n
  <2>4. /\ request' \in [Slots -> [pc : TokensCallPc, id : Nat, exp : Nat, late : BOOLEAN, dead : BOOLEAN]]
        /\ \A s \in Slots \ {t} : request'[s] = request[s]
        /\ request'[t].pc = "idle" /\ ~request'[t].dead
    BY <1>3 DEF TokensShape, Tokens!CreateRow, Tokens!Leave, Tokens!IdleCall, TokensCallPc
  <2>5. TokensShape'
    BY <1>3, <2>2, <2>3, <2>4 DEF TokensShape, Tokens!CreateRow, Tokens!clock
  <2>6. TokensStanding'
    BY <1>3, <2>4 DEF TokensStanding, Tokens!CreateRow, Tokens!clock, Tokens!SuspendedIsOut, Tokens!Accepts
  <2>7. TokensRefused'
    BY <1>3, <2>2, <2>3, <2>4 DEF TokensRefused, Tokens!CreateRow, Tokens!RevokedYieldsNothing, TokensShape
  <2>8. TokensKept'
    BY <1>3, <2>2, <2>3, <2>4 DEF TokensKept, Tokens!CreateRow, Tokens!OnlyLogoutRevokes, Tokens!clock
  <2>9. QED
    BY <2>5, <2>6, <2>7, <2>8
<1>4. ASSUME NEW t \in Slots, Tokens!DeleteExpired(t) PROVE TokensIInv'
  <2> USE DEF TokensIInv
  <2>1. /\ request' \in [Slots -> [pc : TokensCallPc, id : Nat, exp : Nat, late : BOOLEAN, dead : BOOLEAN]]
        /\ \A s \in Slots \ {t} : request'[s] = request[s]
        /\ request'[t].pc = "idle" /\ ~request'[t].dead
    BY <1>4 DEF TokensShape, Tokens!DeleteExpired, Tokens!Leave, Tokens!IdleCall, TokensCallPc
  <2>2. rows' = rows \ {request[t].id} /\ UNCHANGED <<Tokens!clock, issued, access, revoked>>
    BY <1>4 DEF Tokens!DeleteExpired
  <2>3. issued[request[t].id].row < clock
    BY <1>4 DEF Tokens!DeleteExpired, TokensKept
  <2>4. TokensShape' /\ TokensStanding' /\ TokensRefused'
    BY <2>1, <2>2 DEF TokensShape, TokensStanding, TokensRefused, Tokens!clock, Tokens!SuspendedIsOut, Tokens!Accepts,
                      Tokens!RevokedYieldsNothing
  <2>5. TokensKept'
    BY <2>1, <2>2, <2>3 DEF TokensKept, Tokens!OnlyLogoutRevokes, Tokens!clock
  <2>6. QED
    BY <2>4, <2>5
<1>5. ASSUME Tokens!Logout PROVE TokensIInv'
  BY <1>5 DEF Tokens!Logout, Tokens!clock, TokensIInv, TokensShape, TokensStanding, TokensRefused, TokensKept,
       Tokens!SuspendedIsOut, Tokens!Accepts, Tokens!RevokedYieldsNothing, Tokens!OnlyLogoutRevokes
<1>6. ASSUME Tokens!Suspend PROVE TokensIInv'
  <2> USE DEF TokensIInv
  <2>1. \A t \in Slots : /\ request'[t].pc = request[t].pc /\ request'[t].id = request[t].id
                         /\ request'[t].dead = request[t].dead
                         /\ request[t].pc # "idle" => request'[t].late
    BY <1>6 DEF Tokens!Suspend, TokensShape
  <2>2. request' \in [Slots -> [pc : TokensCallPc, id : Nat, exp : Nat, late : BOOLEAN, dead : BOOLEAN]]
    BY <1>6 DEF Tokens!Suspend, TokensShape
  <2>3. UNCHANGED <<clock, rows, issued, access, revoked>> /\ barred' = clock /\ status' = "SUSPENDED"
    BY <1>6 DEF Tokens!Suspend
  <2>4. TokensShape' /\ TokensRefused' /\ TokensKept'
    BY <2>1, <2>2, <2>3 DEF TokensShape, TokensRefused, TokensKept, Tokens!RevokedYieldsNothing,
         Tokens!OnlyLogoutRevokes
  <2>5. TokensStanding'
    BY <2>1, <2>3 DEF TokensShape, TokensStanding, Tokens!SuspendedIsOut, Tokens!Accepts
  <2>6. QED
    BY <2>4, <2>5
<1>7. ASSUME Tokens!Reinstate PROVE TokensIInv'
  BY <1>7 DEF Tokens!Reinstate, TokensIInv, TokensShape, TokensStanding, TokensRefused, TokensKept,
       Tokens!SuspendedIsOut, Tokens!Accepts, Tokens!RevokedYieldsNothing, Tokens!OnlyLogoutRevokes
<1>8. ASSUME Tokens!Tick PROVE TokensIInv'
  <2> USE DEF TokensIInv
  <2>1. /\ clock \in Nat /\ clock' = clock + 1 /\ access' \subseteq access
        /\ UNCHANGED <<status, rows, issued, request, barred, revoked>>
    BY <1>8 DEF Tokens!Tick, TokensShape
  <2>2. TokensShape' /\ TokensRefused'
    BY <2>1 DEF TokensShape, TokensRefused, Tokens!RevokedYieldsNothing
  <2>3. TokensStanding'
    BY <2>1 DEF TokensShape, TokensStanding, Tokens!SuspendedIsOut, Tokens!Accepts, Tokens!TokensAssumption
  <2>4. TokensKept'
    <3>0. \A i \in DOMAIN issued : issued[i].row \in Nat
      BY TokensRowTimes
    <3>1. \A i \in DOMAIN issued : issued[i].row < clock => issued[i].row < clock'
      BY <2>1, <3>0
    <3>2. issued' = issued /\ rows' = rows /\ revoked' = revoked /\ request' = request
      BY <2>1
    <3>3. Tokens!OnlyLogoutRevokes'
      <4>1. SUFFICES ASSUME NEW i \in DOMAIN issued \ rows PROVE i \in revoked \/ issued[i].row < clock'
        BY <3>2 DEF Tokens!OnlyLogoutRevokes
      <4>2. i \in revoked \/ issued[i].row < clock
        BY DEF TokensKept, Tokens!OnlyLogoutRevokes
      <4>3. QED
        BY <3>1, <4>2
    <3>4. ASSUME NEW t \in Slots, request[t].pc = "delete"
          PROVE  request[t].id \in DOMAIN issued /\ issued[request[t].id].row < clock'
      <4>1. request[t].id \in DOMAIN issued /\ issued[request[t].id].row < clock
        BY <3>4 DEF TokensKept
      <4>2. QED
        BY <3>1, <4>1
    <3>5. \A t \in Slots : request[t].pc = "lookup" => request[t].id \in DOMAIN issued
      BY DEF TokensKept
    <3>6. QED
      BY <3>2, <3>3, <3>4, <3>5 DEF TokensKept
  <2>5. QED
    BY <2>2, <2>3, <2>4
<1>9. ASSUME UNCHANGED Tokens!vars PROVE TokensIInv'
  BY <1>9 DEF Tokens!vars, TokensIInv, TokensShape, TokensStanding, TokensRefused, TokensKept, Tokens!SuspendedIsOut,
       Tokens!Accepts, Tokens!RevokedYieldsNothing, Tokens!OnlyLogoutRevokes
<1>10. QED
  BY <1>1, <1>2, <1>3, <1>4, <1>5, <1>6, <1>7, <1>8, <1>9 DEF Tokens!Next

LEMMA TokensAlwaysInv == ASSUME Tokens!TokensAssumption PROVE Tokens!Spec => []TokensIInv
<1>1. Tokens!Init => TokensIInv
  BY TokensInvInit
<1>2. TokensIInv /\ [Tokens!Next]_(Tokens!vars) => TokensIInv'
  BY TokensInvStep
<1>3. QED
  BY <1>1, <1>2, PTL DEF Tokens!Spec

(* No more rows than there are ids, none dated after its JWT, and a time of *)
(* suspension exactly for a suspended account.                             *)
TokensSized ==
    /\ clock \in 0..MaxClock /\ status \in {"ACTIVE", "SUSPENDED"}
    /\ Len(issued) <= MaxRows
    /\ \A i \in DOMAIN issued : issued[i].row <= issued[i].jwt
    /\ \A t \in Slots : request[t].pc = "row" => request[t].exp <= clock + RefreshTtl
    /\ barred = Nil <=> status = "ACTIVE"

LEMMA TokensSizedStep ==
    ASSUME Tokens!TokensAssumption, TokensIInv, TokensSized, [Tokens!Next]_(Tokens!vars)
    PROVE  TokensSized'
<1>1. /\ clock \in Nat /\ MaxClock \in Nat /\ RefreshTtl \in Nat /\ MaxRows \in Nat
      /\ issued \in Seq([row : Nat, jwt : Nat])
      /\ request \in [Slots -> [pc : TokensCallPc, id : Nat, exp : Nat, late : BOOLEAN, dead : BOOLEAN]]
  BY DEF Tokens!TokensAssumption, TokensIInv, TokensShape
<1>2. ASSUME NEW t \in Slots, Tokens!CreateRow(t) PROVE TokensSized'
  <2>1. /\ request[t].pc = "row" /\ Len(issued) < MaxRows
        /\ issued' = Append(issued, [row |-> request[t].exp, jwt |-> clock + RefreshTtl])
        /\ request' = [request EXCEPT ![t] = Tokens!IdleCall] /\ UNCHANGED <<clock, status, barred>>
    BY <1>2 DEF Tokens!CreateRow, Tokens!Leave, Tokens!clock
  <2>2. request[t].exp \in Nat /\ request[t].exp <= clock + RefreshTtl
    BY <1>1, <2>1 DEF TokensSized
  <2>3. /\ Len(issued') = Len(issued) + 1 /\ Len(issued) \in Nat
        /\ DOMAIN issued' = 1..(Len(issued) + 1) /\ DOMAIN issued = 1..Len(issued)
        /\ issued'[Len(issued) + 1] = [row |-> request[t].exp, jwt |-> clock + RefreshTtl]
        /\ \A i \in DOMAIN issued : issued'[i] = issued[i]
    BY <1>1, <2>1, <2>2
  <2>4. \A i \in DOMAIN issued' : issued'[i].row <= issued'[i].jwt
    BY <2>2, <2>3 DEF TokensSized
  <2>5. \A s \in Slots : request'[s].pc = "row" => request'[s].exp <= clock + RefreshTtl
    BY <1>1, <2>1 DEF TokensSized, Tokens!IdleCall
  <2>6. QED
    BY <1>1, <2>1, <2>3, <2>4, <2>5 DEF TokensSized
<1>3. ASSUME NEW t \in Slots, Tokens!SignAccess(t) PROVE TokensSized'
  <2>1. request' = [request EXCEPT ![t].pc = "row", ![t].exp = clock + RefreshTtl]
        /\ UNCHANGED <<clock, status, barred, issued>>
    BY <1>3 DEF Tokens!SignAccess, Tokens!clock
  <2>2. \A s \in Slots : request'[s].pc = "row" => request'[s].exp <= clock + RefreshTtl
    BY <1>1, <2>1 DEF TokensSized
  <2>3. QED
    BY <2>1, <2>2 DEF TokensSized
<1>4. ASSUME NEW t \in Slots,
             \/ Tokens!BeginLogin(t) \/ (\E i \in Tokens!Ids : Tokens!BeginRefresh(t, i))
             \/ Tokens!Lookup(t) \/ Tokens!DeleteExpired(t) \/ Tokens!ReadAccount(t) \/ Tokens!SignRefreshed(t)
      PROVE  TokensSized'
  <2>1. UNCHANGED <<clock, status, barred, issued>>
    BY <1>4 DEF Tokens!BeginLogin, Tokens!BeginRefresh, Tokens!Lookup, Tokens!DeleteExpired, Tokens!ReadAccount,
         Tokens!SignRefreshed, Tokens!clock
  <2>2. \A s \in Slots : request'[s].pc = "row" => request'[s] = request[s]
    <3>1. CASE Tokens!Leave(t)
      BY <1>1, <3>1 DEF Tokens!Leave, Tokens!IdleCall
    <3>2. CASE \E i, b : request' = [request EXCEPT ![t] = Tokens!LookupCall(i, b)]
      BY <1>1, <3>2 DEF Tokens!LookupCall
    <3>3. ASSUME NEW pc \in {"sign", "delete", "account", "signed"}, Tokens!Goto(t, pc)
          PROVE  \A s \in Slots : request'[s].pc = "row" => request'[s] = request[s]
      BY <1>1, <3>3 DEF Tokens!Goto
    <3>4. Tokens!BeginLogin(t) => Tokens!Goto(t, "sign")
      BY DEF Tokens!BeginLogin
    <3>5. Tokens!Lookup(t) => Tokens!Leave(t) \/ Tokens!Goto(t, "delete") \/ Tokens!Goto(t, "account")
      BY DEF Tokens!Lookup
    <3>6. Tokens!ReadAccount(t) => Tokens!Leave(t) \/ Tokens!Goto(t, "signed")
      BY DEF Tokens!ReadAccount
    <3>7. Tokens!DeleteExpired(t) \/ Tokens!SignRefreshed(t) => Tokens!Leave(t)
      BY DEF Tokens!DeleteExpired, Tokens!SignRefreshed
    <3>8. (\E i \in Tokens!Ids : Tokens!BeginRefresh(t, i)) =>
            \E i, b : request' = [request EXCEPT ![t] = Tokens!LookupCall(i, b)]
      BY DEF Tokens!BeginRefresh
    <3>9. QED
      BY <1>4, <3>1, <3>2, <3>3, <3>4, <3>5, <3>6, <3>7, <3>8
  <2>3. QED
    BY <2>1, <2>2 DEF TokensSized
<1>5. CASE Tokens!Logout \/ UNCHANGED Tokens!vars
  BY <1>5 DEF Tokens!Logout, Tokens!vars, Tokens!clock, TokensSized
<1>6. CASE Tokens!Suspend
  <2>1. /\ request' = [t \in Slots |-> [request[t] EXCEPT !.late = request[t].pc # "idle"]]
        /\ barred' = clock /\ status' = "SUSPENDED" /\ UNCHANGED <<clock, issued>>
    BY <1>6 DEF Tokens!Suspend
  <2>2. \A s \in Slots : request'[s].pc = request[s].pc /\ request'[s].exp = request[s].exp
    BY <1>1, <2>1
  <2>3. clock # Nil
    BY <1>1 DEF Tokens!TokensAssumption
  <2>4. QED
    BY <2>1, <2>2, <2>3 DEF TokensSized
<1>7. CASE Tokens!Reinstate
  BY <1>7 DEF Tokens!Reinstate, TokensSized
<1>8. CASE Tokens!Tick
  <2>1. clock' = clock + 1 /\ clock' \in 0..MaxClock /\ UNCHANGED <<status, issued, request, barred>>
    BY <1>1, <1>8 DEF Tokens!Tick, TokensSized
  <2>2. \A s \in Slots : request[s].pc = "row" => request[s].exp <= clock' + RefreshTtl
    BY <1>1, <2>1 DEF TokensSized
  <2>3. QED
    BY <2>1, <2>2 DEF TokensSized
<1>9. QED
  BY <1>2, <1>3, <1>4, <1>5, <1>6, <1>7, <1>8 DEF Tokens!Next

LEMMA TokensTypes == ASSUME Tokens!TokensAssumption PROVE Tokens!Spec => []Tokens!TypeOK
<1>1. Tokens!Init => TokensSized
  BY DEF Tokens!TokensAssumption, Tokens!Init, Tokens!IdleCall, TokensSized
<1>2. TokensIInv /\ TokensSized /\ [Tokens!Next]_(Tokens!vars) => TokensSized'
  BY TokensSizedStep
<1>3. TokensIInv /\ TokensSized => Tokens!TypeOK
  <2> SUFFICES ASSUME TokensIInv, TokensSized PROVE Tokens!TypeOK
    OBVIOUS
  <2>1. issued \in Seq([row : Nat, jwt : Nat]) /\ MaxRows \in Nat
    BY DEF Tokens!TokensAssumption, TokensIInv, TokensShape
  <2>2. DOMAIN issued \subseteq Tokens!Ids
    BY <2>1 DEF TokensSized, Tokens!Ids
  <2>3. \A t \in Slots : request[t].pc \in TokensCallPc
    BY DEF TokensIInv, TokensShape
  <2>4. QED
    BY <2>2, <2>3 DEF TokensIInv, TokensShape, TokensSized, TokensCallPc, Tokens!TypeOK
<1>4. QED
  BY <1>1, <1>2, <1>3, TokensAlwaysInv, PTL DEF Tokens!Spec

(* A suspension ends every token within one token's life, but for those of *)
(* requests that were in flight when it came.                              *)
LEMMA TokensSuspensionsEnd == ASSUME Tokens!TokensAssumption PROVE Tokens!Spec => []Tokens!SuspendedIsOut
<1>1. TokensIInv => Tokens!SuspendedIsOut
  BY DEF TokensIInv, TokensStanding
<1>2. QED
  BY <1>1, TokensAlwaysInv, PTL

(* No refresh that began after the logout of its token signs another one.  *)
LEMMA TokensLogoutsRevoke == ASSUME Tokens!TokensAssumption PROVE Tokens!Spec => []Tokens!RevokedYieldsNothing
<1>1. TokensIInv => Tokens!RevokedYieldsNothing
  BY DEF TokensIInv, TokensRefused
<1>2. QED
  BY <1>1, TokensAlwaysInv, PTL

(* Nothing but a logout ends a session before its time.                    *)
LEMMA TokensSessionsLast == ASSUME Tokens!TokensAssumption PROVE Tokens!Spec => []Tokens!OnlyLogoutRevokes
<1>1. TokensIInv => Tokens!OnlyLogoutRevokes
  BY DEF TokensIInv, TokensKept
<1>2. QED
  BY <1>1, TokensAlwaysInv, PTL
-----------------------------------------------------------------------------
(*************************************************************************)
(* The administrators' rows: Admins.                                     *)
(*************************************************************************)
AdminsRights == [role : Administrators!Roles, status : {"NONE", "ACTIVE", "DELETED"}]

(* What a request asks for fits its field, and one past its guard comes    *)
(* from an administrator with a row.                                       *)
AdminsCallOK(a) ==
    /\ call[a].pc \in {"idle", "guard", "write"}
    /\ call[a].pc # "idle" => call[a].to \in Admins
    /\ call[a].field \in {"role", "create"} => call[a].value \in Administrators!Roles
    /\ call[a].field \notin {"role", "create"} => call[a].value \in {"ACTIVE", "DELETED"}
    /\ call[a].pc = "write" => call[a].was = "SUPER_ADMIN" /\ row[a].status # "NONE"

AdminsShape ==
    /\ day \in 0..MaxDay /\ sends \in 0..MaxSends
    /\ row \in [Admins -> AdminsRights]
    /\ expires \in [Admins -> Nat] /\ out \in [Admins -> Nat]
    /\ choice \in [Admins -> Administrators!Roles] /\ target \in [Admins -> Admins \cup {Nil}]
    /\ DOMAIN call = Admins /\ \A a \in Admins : AdminsCallOK(a)

(* A token lives no longer than its life from now, and that of somebody    *)
(* who was deactivated no longer than its life from then.                  *)
AdminsTokened(a) ==
    /\ row[a].status = "NONE" => expires[a] = 0
    /\ row[a].status = "DELETED" => expires[a] <= out[a] + Ttl
    /\ expires[a] <= day + Ttl

AdminsIInv == AdminsShape /\ (\A a \in Admins : AdminsTokened(a)) /\ Administrators!SomebodyManages

LEMMA AdminsInvInit == ASSUME Administrators!AdminsAssumption PROVE Administrators!Init => AdminsIInv
<1> SUFFICES ASSUME Administrators!Init PROVE AdminsIInv
  OBVIOUS
<1>1. row \in [Admins -> AdminsRights] /\ row[Founder] = [role |-> "SUPER_ADMIN", status |-> "ACTIVE"]
  BY DEF Administrators!AdminsAssumption, Administrators!Init, Administrators!NoRow, Administrators!Roles, AdminsRights
<1>2. AdminsShape
  BY <1>1 DEF Administrators!AdminsAssumption, Administrators!Init, Administrators!NoCall, Administrators!Roles,
       AdminsShape, AdminsCallOK
<1>3. ASSUME NEW a \in Admins PROVE AdminsTokened(a)
  <2>1. row[a].status \in {"NONE", "ACTIVE"} /\ expires[a] = 0 /\ day = 0 /\ Ttl \in Nat
    BY DEF Administrators!AdminsAssumption, Administrators!Init, Administrators!NoRow
  <2>2. QED
    BY <2>1 DEF AdminsTokened
<1>4. QED
  BY <1>1, <1>2, <1>3 DEF Administrators!AdminsAssumption, AdminsIInv, Administrators!SomebodyManages

(* The steps that leave the rows alone and ask for something that fits.    *)
LEMMA AdminsAskStep ==
    ASSUME Administrators!AdminsAssumption, AdminsShape, NEW a \in Admins, NEW b \in Admins, NEW field, NEW value,
           Administrators!Send(a, b, field, value),
           \/ field \in {"role", "create"} /\ value \in Administrators!Roles
           \/ field \in {"status", "delete"} /\ value \in {"ACTIVE", "DELETED"}
    PROVE  /\ sends' \in 0..MaxSends /\ DOMAIN call' = Admins /\ \A c \in Admins : AdminsCallOK(c)'
           /\ UNCHANGED <<day, row, expires, Administrators!past>>
<1>1. /\ call' = [call EXCEPT ![a] = [Administrators!NoCall EXCEPT !.pc = "guard", !.to = b,
                                                    !.field = field, !.value = value]]
      /\ UNCHANGED <<day, row, expires, Administrators!past>>
      /\ sends < MaxSends /\ sends' = sends + 1
  BY DEF Administrators!Send
<1>2. /\ call'[a].pc = "guard" /\ call'[a].to = b /\ call'[a].field = field /\ call'[a].value = value
      /\ \A c \in Admins \ {a} : call'[c] = call[c]
      /\ DOMAIN call' = Admins
  BY <1>1 DEF AdminsShape, Administrators!NoCall
<1>3. \A c \in Admins : AdminsCallOK(c)'
  BY <1>1, <1>2 DEF AdminsShape, AdminsCallOK
<1>4. sends' \in 0..MaxSends
  <2>1. sends \in 0..MaxSends /\ MaxSends \in Nat
    BY DEF AdminsShape, Administrators!AdminsAssumption
  <2>2. QED
    BY <1>1, <2>1
<1>5. QED
  BY <1>1, <1>2, <1>3, <1>4

LEMMA AdminsQuietStep ==
    ASSUME AdminsIInv, AdminsShape', UNCHANGED <<row, expires, out, risky>>, day' >= day, day \in Nat, day' \in Nat,
           Administrators!AdminsAssumption
    PROVE  AdminsIInv'
<1>1. \A a \in Admins : expires[a] \in Nat /\ Ttl \in Nat
  BY DEF AdminsIInv, AdminsShape, Administrators!AdminsAssumption
<1>2. \A a \in Admins : AdminsTokened(a)'
  BY <1>1 DEF AdminsIInv, AdminsTokened
<1>3. Administrators!SomebodyManages'
  BY DEF AdminsIInv, Administrators!SomebodyManages
<1>4. QED
  BY <1>2, <1>3 DEF AdminsIInv

LEMMA AdminsWriteStep ==
    ASSUME Administrators!AdminsAssumption, AdminsIInv, NEW a \in Admins, Administrators!Write(a)
    PROVE  AdminsIInv'
<1>0. AdminsShape /\ (\A b \in Admins : AdminsTokened(b)) /\ Administrators!SomebodyManages
  BY DEF AdminsIInv
<1> DEFINE c == call[a]
<1>1. /\ c.pc = "write" /\ (c.field = "create" \/ row[c.to].status # "NONE")
      /\ c.to \in Admins /\ c.was = "SUPER_ADMIN" /\ row[a].status # "NONE"
      /\ row' = [row EXCEPT ![c.to] = Administrators!Written(c)]
      /\ call' = [call EXCEPT ![a] = Administrators!NoCall]
      /\ out' = IF row'[c.to].status = "DELETED" /\ row[c.to].status = "ACTIVE"
                THEN [out EXCEPT ![c.to] = day] ELSE out
      /\ target' = IF c.field = "role" THEN [target EXCEPT ![a] = Nil] ELSE target
      /\ risky' = (risky \/ (c.to = a /\ c.field # "create") \/ c.was # row[a].role
                       \/ row[a].status = "DELETED")
      /\ UNCHANGED <<day, expires, choice, sends>>
  BY <1>0 DEF Administrators!Write, AdminsShape, AdminsCallOK
<1>2. row[c.to] \in AdminsRights /\ Administrators!Written(c) \in AdminsRights /\
        Administrators!Written(c).status # "NONE"
  <2>1. row[c.to] \in AdminsRights
    BY <1>0, <1>1 DEF AdminsShape
  <2>2. CASE c.field = "create"
    <3>1. c.value \in Administrators!Roles
      BY <1>0, <2>2 DEF AdminsShape, AdminsCallOK
    <3>2. QED
      BY <2>1, <2>2, <3>1 DEF Administrators!Written, AdminsRights
  <2>3. CASE c.field = "role"
    <3>1. c.value \in Administrators!Roles
      BY <1>0, <2>3 DEF AdminsShape, AdminsCallOK
    <3>2. QED
      BY <1>1, <2>1, <2>3, <3>1 DEF Administrators!Written, AdminsRights
  <2>4. CASE c.field \notin {"role", "create"}
    <3>1. c.value \in {"ACTIVE", "DELETED"}
      BY <1>0, <2>4 DEF AdminsShape, AdminsCallOK
    <3>2. QED
      BY <1>1, <2>1, <2>4, <3>1 DEF Administrators!Written, AdminsRights
  <2>5. QED
    BY <2>1, <2>2, <2>3, <2>4
<1>3. /\ row' \in [Admins -> AdminsRights] /\ row'[c.to] = Administrators!Written(c)
      /\ \A b \in Admins : row'[b] = row[b] \/ b = c.to
      /\ \A b \in Admins : row[b].status # "NONE" => row'[b].status # "NONE"
  BY <1>0, <1>1, <1>2 DEF AdminsShape
<1>4. /\ call'[a] = Administrators!NoCall /\ DOMAIN call' = Admins /\ \A b \in Admins \ {a} : call'[b] = call[b]
  BY <1>0, <1>1 DEF AdminsShape
<1> HIDE DEF c
<1>5. \A b \in Admins : AdminsCallOK(b)'
  BY <1>0, <1>3, <1>4 DEF AdminsShape, AdminsCallOK, Administrators!NoCall, Administrators!Roles
<1>6. day \in Nat /\ out' \in [Admins -> Nat] /\ target' \in [Admins -> Admins \cup {Nil}]
  BY <1>0, <1>1 DEF AdminsShape, Administrators!AdminsAssumption
<1>7. AdminsShape'
  BY <1>0, <1>1, <1>3, <1>4, <1>5, <1>6 DEF AdminsShape
<1>8. ASSUME NEW b \in Admins PROVE AdminsTokened(b)'
  <2>1. AdminsTokened(b) /\ expires'[b] = expires[b] /\ expires[b] \in Nat /\ day' = day /\ row[b] \in AdminsRights
    BY <1>0, <1>1 DEF AdminsShape
  <2>2. CASE b # c.to
    BY <1>0, <1>1, <1>3, <2>1, <2>2 DEF AdminsTokened, AdminsShape
  <2>3. CASE b = c.to /\ row'[b].status = "DELETED" /\ row[b].status = "ACTIVE"
    <3>1. out'[b] = day
      BY <1>0, <1>1, <2>3 DEF AdminsShape
    <3>2. QED
      BY <2>1, <2>3, <3>1 DEF AdminsTokened
  <2>4. CASE b = c.to /\ ~(row'[b].status = "DELETED" /\ row[b].status = "ACTIVE")
    <3>1. out' = out /\ row'[b].status # "NONE"
      BY <1>1, <1>2, <1>3, <2>4
    <3>2. row'[b].status = "DELETED" => row[b].status \in {"NONE", "DELETED"}
      BY <2>1, <2>4 DEF AdminsRights
    <3>3. row[b].status = "NONE" => c.field = "create" /\ row'[b].status = "ACTIVE"
      BY <1>1, <1>3, <2>4 DEF Administrators!Written
    <3>4. QED
      BY <2>1, <3>1, <3>2, <3>3 DEF AdminsTokened
  <2>5. QED
    BY <2>2, <2>3, <2>4
<1>9. Administrators!SomebodyManages'
  <2> SUFFICES ASSUME ~risky'
               PROVE  row'[a] = [role |-> "SUPER_ADMIN", status |-> "ACTIVE"]
    BY DEF Administrators!SomebodyManages
  <2>1. /\ c.to # a \/ c.field = "create"
        /\ row[a].role = "SUPER_ADMIN" /\ row[a].status = "ACTIVE"
    BY <1>0, <1>1 DEF AdminsShape, AdminsRights
  <2>2. row'[a] = row[a]
    BY <1>1, <1>3, <2>1 DEF Administrators!Written
  <2>3. row[a] \in AdminsRights
    BY <1>0 DEF AdminsShape
  <2>4. QED
    BY <2>1, <2>2, <2>3 DEF AdminsRights
<1>10. QED
  BY <1>7, <1>8, <1>9 DEF AdminsIInv

LEMMA AdminsInvStep ==
    ASSUME Administrators!AdminsAssumption
    PROVE  AdminsIInv /\ [Administrators!Next]_(Administrators!vars) => AdminsIInv'
<1> SUFFICES ASSUME AdminsIInv, [Administrators!Next]_(Administrators!vars) PROVE AdminsIInv'
  OBVIOUS
<1>0. AdminsShape /\ day \in Nat /\ MaxDay \in Nat
  BY DEF AdminsIInv, AdminsShape, Administrators!AdminsAssumption
<1>1. ASSUME NEW a \in Admins, Administrators!Login(a) PROVE AdminsIInv'
  <2>1. /\ row[a].status = "ACTIVE" /\ expires' = [expires EXCEPT ![a] = day + Ttl]
        /\ UNCHANGED <<day, row, choice, target, call, sends, out, risky>>
    BY <1>1 DEF Administrators!Login, Administrators!desk, Administrators!past
  <2>2. AdminsShape'
    BY <1>0, <2>1 DEF AdminsShape, AdminsCallOK, Administrators!AdminsAssumption
  <2>3. \A b \in Admins : AdminsTokened(b)'
    BY <1>0, <2>1 DEF AdminsIInv, AdminsTokened, AdminsShape, Administrators!AdminsAssumption
  <2>4. Administrators!SomebodyManages'
    BY <2>1 DEF AdminsIInv, Administrators!SomebodyManages
  <2>5. QED
    BY <2>2, <2>3, <2>4 DEF AdminsIInv
<1>2. ASSUME NEW a \in Admins, Administrators!FetchAdmins(a) \/ (\E b \in Admins : Administrators!OpenRole(a, b))
                                  \/ (\E r \in Administrators!Roles : Administrators!ChooseRole(a, r))
      PROVE  AdminsIInv'
  <2>1. /\ choice' \in [Admins -> Administrators!Roles] /\ target' \in [Admins -> Admins \cup {Nil}]
        /\ UNCHANGED <<day, row, expires, call, sends, out, risky>>
    BY <1>0, <1>2 DEF Administrators!FetchAdmins, Administrators!OpenRole, Administrators!ChooseRole, AdminsShape,
         Administrators!past
  <2>2. AdminsShape'
    BY <1>0, <2>1 DEF AdminsShape, AdminsCallOK
  <2>3. QED
    BY <1>0, <2>1, <2>2, AdminsQuietStep
<1>3. ASSUME NEW a \in Admins, NEW b \in Admins, NEW field, NEW value, Administrators!Send(a, b, field, value),
             \/ field \in {"role", "create"} /\ value \in Administrators!Roles
             \/ field \in {"status", "delete"} /\ value \in {"ACTIVE", "DELETED"},
             UNCHANGED Administrators!desk
      PROVE  AdminsIInv'
  <2>1. /\ sends' \in 0..MaxSends /\ DOMAIN call' = Admins /\ \A c \in Admins : AdminsCallOK(c)'
        /\ UNCHANGED <<day, row, expires, Administrators!past>>
    BY <1>0, <1>3, AdminsAskStep
  <2>2. AdminsShape'
    BY <1>0, <1>3, <2>1 DEF AdminsShape, Administrators!desk, Administrators!past
  <2>3. QED
    BY <1>0, <2>1, <2>2, AdminsQuietStep DEF Administrators!past
<1>4. ASSUME NEW a \in Admins, Administrators!ConfirmRole(a) PROVE AdminsIInv'
  <2>1. target[a] \in Admins /\ choice[a] \in Administrators!Roles
    BY <1>0, <1>4 DEF Administrators!ConfirmRole, AdminsShape
  <2>2. QED
    BY <1>3, <1>4, <2>1 DEF Administrators!ConfirmRole
<1>5. ASSUME NEW a \in Admins, NEW b \in Admins,
             Administrators!ToggleStatus(a, b) \/ Administrators!DeleteAdmin(a, b) \/
               (\E r \in Administrators!Roles : Administrators!AddAdmin(a, b, r))
      PROVE  AdminsIInv'
  BY <1>3, <1>5 DEF Administrators!ToggleStatus, Administrators!DeleteAdmin, Administrators!AddAdmin
<1>6. ASSUME NEW a \in Admins, Administrators!Guard(a) PROVE AdminsIInv'
  <2>1. /\ call[a].pc = "guard"
        /\ call' = [call EXCEPT ![a] = IF Administrators!Known(a) /\ Administrators!IsSuper(a)
                                       THEN [@ EXCEPT !.pc = "write", !.was = row[a].role]
                                       ELSE Administrators!NoCall]
        /\ UNCHANGED <<day, row, expires, choice, target, sends, out, risky>>
    BY <1>6 DEF Administrators!Guard, Administrators!desk, Administrators!past
  <2>2. DOMAIN call' = Admins /\ \A b \in Admins \ {a} : call'[b] = call[b]
    BY <1>0, <2>1 DEF AdminsShape
  <2>3. AdminsCallOK(a)'
    <3>1. CASE Administrators!Known(a) /\ Administrators!IsSuper(a)
      <4>1. call'[a] = [call[a] EXCEPT !.pc = "write", !.was = row[a].role]
        BY <1>0, <2>1, <3>1 DEF AdminsShape
      <4>2. /\ call'[a].to = call[a].to /\ call'[a].field = call[a].field
            /\ call'[a].value = call[a].value /\ call'[a].pc \in {"write", call[a].pc}
            /\ call'[a].was \in {"SUPER_ADMIN", call[a].was}
        BY <3>1, <4>1 DEF Administrators!IsSuper
      <4>3. QED
        BY <1>0, <2>1, <3>1, <4>1, <4>2 DEF AdminsShape, AdminsCallOK, Administrators!Known, Administrators!IsSuper
    <3>2. CASE ~(Administrators!Known(a) /\ Administrators!IsSuper(a))
      BY <1>0, <2>1, <3>2 DEF AdminsShape, AdminsCallOK, Administrators!NoCall, Administrators!Roles
    <3>3. QED
      BY <3>1, <3>2
  <2>4. AdminsShape'
    BY <1>0, <2>1, <2>2, <2>3 DEF AdminsShape, AdminsCallOK
  <2>5. QED
    BY <1>0, <2>1, <2>4, AdminsQuietStep
<1>7. ASSUME NEW a \in Admins, Administrators!Write(a) PROVE AdminsIInv'
  BY <1>7, AdminsWriteStep
<1>8. CASE Administrators!Tick
  <2>1. AdminsShape' /\ day' = day + 1 /\ UNCHANGED <<row, expires, out, risky>>
    BY <1>0, <1>8 DEF Administrators!Tick, AdminsShape, AdminsCallOK, Administrators!desk, Administrators!past
  <2>2. QED
    BY <1>0, <2>1, AdminsQuietStep
<1>9. CASE UNCHANGED Administrators!vars
  <2>1. AdminsShape' /\ UNCHANGED <<day, row, expires, out, risky>>
    BY <1>0, <1>9 DEF Administrators!vars, AdminsShape, AdminsCallOK, Administrators!desk, Administrators!past
  <2>2. QED
    BY <1>0, <2>1, AdminsQuietStep
<1>10. QED
  BY <1>1, <1>2, <1>4, <1>5, <1>6, <1>7, <1>8, <1>9 DEF Administrators!Next

LEMMA AdminsInvMeans == AdminsIInv =>
  Administrators!TypeOK /\ Administrators!SomebodyManages /\ Administrators!DeactivatedIsOut
BY DEF AdminsIInv, AdminsShape, AdminsRights, AdminsCallOK, AdminsTokened, Administrators!TypeOK,
     Administrators!DeactivatedIsOut

LEMMA AdminsHold ==
    ASSUME Administrators!AdminsAssumption
    PROVE  Administrators!Spec =>
           [](Administrators!TypeOK /\ Administrators!SomebodyManages /\ Administrators!DeactivatedIsOut)
BY AdminsInvInit, AdminsInvStep, AdminsInvMeans, PTL DEF Administrators!Spec
-----------------------------------------------------------------------------
(*************************************************************************)
(* The settings and their page: Settings.                                *)
(*************************************************************************)
(* A read in flight, as far as it got.                                     *)
SettingsReads == UNION {[D -> Settings!Section] : D \in SUBSET Settings!Sections}

SettingsGetOK(a) ==
    /\ get[a] \in [pc : {"idle", "find", "create", "go", "answer"}, at : 1..Len(Order),
                   read : SettingsReads, missed : SUBSET Settings!Sections]
    /\ get[a].pc = "answer" => DOMAIN get[a].read = Settings!Sections
    /\ get[a].pc \in {"idle", "find", "create"} => DOMAIN get[a].read = {}

SettingsPutOK(a) ==
    /\ save[a] \in [pc : {"idle", "find", "create", "go", "log", "answer"}, at : 1..Len(Order),
                   section : Settings!Sections \cup {Nil}, value : Settings!Section \cup {Nil},
                   edits : SUBSET Fields, late : BOOLEAN]
    /\ save[a].pc # "idle" => save[a].section \in Settings!Sections /\ save[a].value \in Settings!Section

(* The rows before the one a request looks at are there; all, when it has  *)
(* looked at all.                                                          *)
SettingsPassed(c) ==
    /\ c.pc \in {"find", "create"} => \A i \in 1..Len(Order) : i < c.at => stored[Order[i]] # Nil
    /\ c.pc \in {"go", "log", "answer"} => \A s \in Settings!Sections : stored[s] # Nil

SettingsShape ==
    /\ stored \in [Settings!Sections -> Settings!Section \cup {Nil}]
    /\ data \in [Editors -> [Settings!Sections -> Settings!Section] \cup {Nil}]
    /\ draft \in [Editors -> [Settings!Sections -> Settings!Section]]
    /\ dirty \in [Editors -> SUBSET (Settings!Sections \X Fields)]
    /\ behind \in [Editors -> SUBSET Settings!Sections]
    /\ DOMAIN get = Editors /\ DOMAIN save = Editors

(* What a has read, or has on its page, is what the backend serves, but    *)
(* for its own write whose answer is still to come.                        *)
SettingsWriting(a, s) == save[a].pc \in {"log", "answer"} /\ save[a].section = s

SettingsReadFresh(a) ==
    \A s \in DOMAIN get[a].read \ get[a].missed : SettingsWriting(a, s) \/ get[a].read[s] = Settings!View(s)

SettingsPageFresh(a) ==
    data[a] # Nil /\ get[a].pc = "idle" =>
        \A s \in Settings!Sections \ behind[a] : SettingsWriting(a, s) \/ data[a][s] = Settings!View(s)

(* A draft differs from the data only where it was typed in.               *)
SettingsDraftKept(a) ==
    data[a] # Nil =>
        \A s \in Settings!Sections, f \in Fields : <<s, f>> \notin dirty[a] => draft[a][s][f] = data[a][s][f]

(* What a save sends without having been typed is what the backend serves. *)
SettingsSaveFresh(a) ==
    save[a].pc \in {"find", "create", "go"} /\ ~save[a].late =>
        \A f \in Fields \ save[a].edits :
            <<save[a].section, f>> \notin EnvFields => save[a].value[f] = Settings!View(save[a].section)[f]

SettingsGood(a) ==
    /\ SettingsGetOK(a) /\ SettingsPutOK(a) /\ SettingsPassed(get[a]) /\ SettingsPassed(save[a])
    /\ SettingsReadFresh(a) /\ SettingsPageFresh(a) /\ SettingsDraftKept(a) /\ SettingsSaveFresh(a)

SettingsIInv == SettingsShape /\ \A a \in Editors : SettingsGood(a)

LEMMA SettingsRows ==
    ASSUME Settings!SettingsAssumption, SettingsShape
    PROVE  /\ \A s \in Settings!Sections : Settings!View(s) \in Settings!Section /\
              stored[s] \in Settings!Section \cup {Nil}
           /\ Settings!Defaults \in Settings!Section /\ \A v \in Settings!Section : v # Nil
           /\ Len(Order) \in Nat /\ Len(Order) >= 1 /\ \A i \in 1..Len(Order) : Order[i] \in Settings!Sections
           /\ \A s \in Settings!Sections : \E i \in 1..Len(Order) : s = Order[i]
           /\ Nil \notin Settings!Sections
<1>1. Settings!Defaults \in Settings!Section
  BY DEF Settings!Defaults, Settings!Section, Settings!Values
<1>2. \A v \in Settings!Section : v # Nil
  BY DEF Settings!SettingsAssumption
<1>3. ASSUME NEW s \in Settings!Sections
      PROVE  Settings!View(s) \in Settings!Section /\ stored[s] \in Settings!Section \cup {Nil}
  <2>1. stored[s] \in Settings!Section \cup {Nil}
    BY DEF SettingsShape
  <2>2. CASE stored[s] = Nil
    BY <2>2 DEF Settings!View, Settings!Section, Settings!Values
  <2>3. CASE stored[s] \in Settings!Section
    BY <2>3 DEF Settings!View, Settings!Section, Settings!Values
  <2>4. QED
    BY <2>1, <2>2, <2>3
<1>4. Order \in Seq(Settings!Sections) /\ Order # <<>>
  BY DEF Settings!SettingsAssumption
<1>5. Len(Order) \in Nat /\ Len(Order) >= 1 /\ DOMAIN Order = 1..Len(Order)
  BY <1>4
<1>6. /\ \A i \in 1..Len(Order) : Order[i] \in Settings!Sections
      /\ \A s \in Settings!Sections : \E i \in 1..Len(Order) : s = Order[i]
  BY <1>5 DEF Settings!Sections
<1>7. QED
  BY <1>1, <1>2, <1>3, <1>5, <1>6 DEF Settings!SettingsAssumption

LEMMA SettingsNothing == <<>> \in SettingsReads /\ DOMAIN <<>> = {}
<1>1. DOMAIN <<>> = {}
  OBVIOUS
<1>2. <<>> \in [{} -> Settings!Section]
  BY <1>1
<1>3. QED
  BY <1>1, <1>2 DEF SettingsReads

(* Nobody who had no part in a step is touched by it, unless the backend   *)
(* serves something else afterwards.                                       *)
LEMMA SettingsBystander ==
    ASSUME NEW b \in Editors, SettingsGood(b),
           get'[b] = get[b], save'[b] = save[b], data'[b] = data[b], behind'[b] = behind[b],
           draft'[b] = draft[b], dirty'[b] = dirty[b],
           \A s \in Settings!Sections : Settings!View(s)' = Settings!View(s) /\ (stored[s] # Nil => stored'[s] # Nil),
           Settings!SettingsAssumption, SettingsShape
    PROVE  SettingsGood(b)'
<1>0. SettingsGetOK(b) /\ SettingsPutOK(b) /\ SettingsPassed(get[b]) /\ SettingsPassed(save[b])
      /\ SettingsReadFresh(b) /\ SettingsPageFresh(b) /\ SettingsDraftKept(b) /\ SettingsSaveFresh(b)
  BY DEF SettingsGood
<1>1. SettingsGetOK(b)' /\ SettingsPutOK(b)'
  BY <1>0 DEF SettingsGetOK, SettingsPutOK
<1>2. SettingsPassed(get[b])' /\ SettingsPassed(save[b])'
  BY <1>0, SettingsRows DEF SettingsPassed
<1>3. DOMAIN get[b].read \subseteq Settings!Sections
  BY <1>0 DEF SettingsGetOK, SettingsReads
<1>4. SettingsReadFresh(b)'
  BY <1>0, <1>3 DEF SettingsReadFresh, SettingsWriting
<1>5. SettingsPageFresh(b)'
  BY <1>0 DEF SettingsPageFresh, SettingsWriting
<1>6. SettingsDraftKept(b)'
  BY <1>0 DEF SettingsDraftKept
<1>7. SettingsSaveFresh(b)'
  BY <1>0 DEF SettingsSaveFresh, SettingsPutOK
<1>8. QED
  BY <1>1, <1>2, <1>4, <1>5, <1>6, <1>7 DEF SettingsGood

LEMMA SettingsInvInit == ASSUME Settings!SettingsAssumption PROVE Settings!Init => SettingsIInv
<1> SUFFICES ASSUME Settings!Init PROVE SettingsIInv
  OBVIOUS
<1>1. SettingsShape
  BY DEF Settings!Init, SettingsShape, Settings!Section, Settings!Values
<1>2. Len(Order) \in Nat /\ 1 \in 1..Len(Order)
  BY <1>1, SettingsRows
<1>3. ASSUME NEW a \in Editors PROVE SettingsGood(a)
  <2>1. get[a] = Settings!IdleGet /\ save[a] = Settings!IdlePut /\ data[a] = Nil
    BY DEF Settings!Init
  <2>2. SettingsGetOK(a)
    BY <1>2, <2>1, SettingsNothing DEF SettingsGetOK, Settings!IdleGet
  <2>3. SettingsPutOK(a)
    BY <1>2, <2>1 DEF SettingsPutOK, Settings!IdlePut
  <2>4. SettingsPassed(get[a]) /\ SettingsPassed(save[a])
    BY <2>1 DEF SettingsPassed, Settings!IdleGet, Settings!IdlePut
  <2>5. SettingsReadFresh(a)
    BY <2>1, SettingsNothing DEF SettingsReadFresh, Settings!IdleGet
  <2>6. SettingsPageFresh(a) /\ SettingsDraftKept(a) /\ SettingsSaveFresh(a)
    BY <2>1 DEF SettingsPageFresh, SettingsDraftKept, SettingsSaveFresh, Settings!IdlePut
  <2>7. QED
    BY <2>2, <2>3, <2>4, <2>5, <2>6 DEF SettingsGood
<1>4. QED
  BY <1>1, <1>3 DEF SettingsIInv

(* Steps of the page, which leave the rows alone.                          *)
LEMMA SettingsTypeStep ==
    ASSUME Settings!SettingsAssumption, SettingsIInv, NEW a \in Editors, NEW s \in Settings!Sections, NEW f \in Fields,
           NEW v \in Typable, Settings!Type(a, s, f, v)
    PROVE  SettingsIInv'
<1>1. /\ draft' = [draft EXCEPT ![a][s][f] = v] /\ dirty' = [dirty EXCEPT ![a] = @ \cup {<<s, f>>}]
      /\ UNCHANGED <<stored, data, get, save, behind>>
  BY DEF Settings!Type
<1>2. SettingsShape /\ \A b \in Editors : SettingsGood(b)
  BY DEF SettingsIInv
<1>3. draft[a] \in [Settings!Sections -> Settings!Section] /\ draft[a][s] \in [Fields -> Settings!Values] /\
        v \in Settings!Values
  BY <1>2 DEF SettingsShape, Settings!Section, Settings!Values
<1>4. /\ draft'[a] = [draft[a] EXCEPT ![s] = [draft[a][s] EXCEPT ![f] = v]]
      /\ \A b \in Editors \ {a} : draft'[b] = draft[b] /\ dirty'[b] = dirty[b]
      /\ DOMAIN draft' = Editors /\ dirty'[a] = dirty[a] \cup {<<s, f>>}
  BY <1>1, <1>2 DEF SettingsShape
<1>5. [draft[a][s] EXCEPT ![f] = v] \in Settings!Section
  BY <1>3 DEF Settings!Section
<1>6. draft'[a] \in [Settings!Sections -> Settings!Section]
  BY <1>3, <1>4, <1>5
<1>7. SettingsShape'
  <2>1. draft' \in [Editors -> [Settings!Sections -> Settings!Section]]
    BY <1>1, <1>2, <1>4, <1>6 DEF SettingsShape
  <2>2. dirty' \in [Editors -> SUBSET (Settings!Sections \X Fields)]
    BY <1>1, <1>2 DEF SettingsShape
  <2>3. QED
    BY <1>1, <1>2, <2>1, <2>2 DEF SettingsShape
<1>8. \A t \in Settings!Sections : Settings!View(t)' = Settings!View(t)
  BY <1>1 DEF Settings!View
<1>9. ASSUME NEW b \in Editors \ {a} PROVE SettingsGood(b)'
  BY <1>1, <1>2, <1>4, <1>8, SettingsBystander
<1>10. SettingsGood(a)'
  <2>1. SettingsGetOK(a)' /\ SettingsPutOK(a)' /\ SettingsPassed(get[a])' /\ SettingsPassed(save[a])'
    BY <1>1, <1>2 DEF SettingsGood, SettingsGetOK, SettingsPutOK, SettingsPassed
  <2>2. SettingsReadFresh(a)' /\ SettingsPageFresh(a)' /\ SettingsSaveFresh(a)'
    BY <1>1, <1>2 DEF SettingsGood, SettingsReadFresh, SettingsPageFresh, SettingsSaveFresh, SettingsWriting,
         Settings!View
  <2>3. SettingsDraftKept(a)'
    <3> SUFFICES ASSUME data[a] # Nil, NEW t \in Settings!Sections, NEW g \in Fields, <<t, g>> \notin dirty'[a]
                 PROVE  draft'[a][t][g] = data[a][t][g]
      BY <1>1 DEF SettingsDraftKept
    <3>1. draft[a][t][g] = data[a][t][g] /\ ~(t = s /\ g = f)
      BY <1>2, <1>4 DEF SettingsGood, SettingsDraftKept
    <3>2. draft'[a][t][g] = draft[a][t][g]
      BY <1>3, <1>4, <3>1
    <3>3. QED
      BY <3>1, <3>2
  <2>4. QED
    BY <2>1, <2>2, <2>3 DEF SettingsGood
<1>11. QED
  BY <1>7, <1>9, <1>10 DEF SettingsIInv

(* A step of a's own request that leaves the page and the rows alone, or   *)
(* only adds a row of defaults.                                            *)
LEMMA SettingsRequestStep ==
    ASSUME Settings!SettingsAssumption, SettingsIInv, NEW a \in Editors,
           UNCHANGED <<data, draft, dirty>>, SettingsShape',
           \A b \in Editors \ {a} : get'[b] = get[b] /\ save'[b] = save[b] /\ behind'[b] = behind[b],
           \A s \in Settings!Sections : Settings!View(s)' = Settings!View(s) /\ (stored[s] # Nil => stored'[s] # Nil),
           SettingsGetOK(a)', SettingsPutOK(a)', SettingsPassed(get[a])', SettingsPassed(save[a])',
           SettingsReadFresh(a)', SettingsPageFresh(a)', SettingsSaveFresh(a)'
    PROVE  SettingsIInv'
<1>1. SettingsShape /\ \A b \in Editors : SettingsGood(b)
  BY DEF SettingsIInv
<1>2. ASSUME NEW b \in Editors \ {a} PROVE SettingsGood(b)'
  BY <1>1, SettingsBystander
<1>3. SettingsDraftKept(a)'
  BY <1>1 DEF SettingsGood, SettingsDraftKept
<1>4. SettingsGood(a)'
  BY <1>3 DEF SettingsGood
<1>5. QED
  BY <1>2, <1>4 DEF SettingsIInv

LEMMA SettingsFetchStep ==
    ASSUME Settings!SettingsAssumption, SettingsIInv, NEW a \in Editors, Settings!Fetch(a)
    PROVE  SettingsIInv'
<1>1. /\ get[a].pc = "idle" /\ get' = [get EXCEPT ![a] = [Settings!IdleGet EXCEPT !.pc = "find"]]
      /\ UNCHANGED <<stored, data, draft, save, dirty, behind>>
  BY DEF Settings!Fetch, Settings!page, Settings!past
<1>2. SettingsShape /\ SettingsGood(a)
  BY DEF SettingsIInv
<1>3. /\ get'[a] = [pc |-> "find", at |-> 1, read |-> <<>>, missed |-> {}]
      /\ DOMAIN get' = Editors /\ \A b \in Editors \ {a} : get'[b] = get[b]
  BY <1>1, <1>2 DEF SettingsShape, Settings!IdleGet
<1>4. SettingsShape' /\ \A t \in Settings!Sections : Settings!View(t)' = Settings!View(t)
  BY <1>1, <1>2, <1>3 DEF SettingsShape, Settings!View
<1>5. SettingsGetOK(a)' /\ SettingsPassed(get[a])' /\ SettingsReadFresh(a)' /\ SettingsPageFresh(a)'
  BY <1>2, <1>3, SettingsRows, SettingsNothing DEF SettingsGetOK, SettingsPassed, SettingsReadFresh, SettingsPageFresh
<1>6. SettingsPutOK(a)' /\ SettingsPassed(save[a])' /\ SettingsSaveFresh(a)'
  BY <1>1, <1>2 DEF SettingsGood, SettingsPutOK, SettingsPassed, SettingsSaveFresh, Settings!View
<1>7. QED
  BY <1>1, <1>3, <1>4, <1>5, <1>6, SettingsRequestStep

LEMMA SettingsHandleSaveStep ==
    ASSUME Settings!SettingsAssumption, SettingsIInv, NEW a \in Editors, NEW s \in Settings!Sections,
           Settings!HandleSave(a, s)
    PROVE  SettingsIInv'
<1> DEFINE edits == {f \in Fields : <<s, f>> \in dirty[a]}
           isLate == data[a] = Nil \/ get[a].pc # "idle" \/ s \in behind[a]
<1>1. /\ save[a].pc = "idle"
      /\ save' = [save EXCEPT ![a] = [pc |-> "find", at |-> 1, section |-> s, value |-> draft[a][s],
                                    edits |-> edits, late |-> isLate]]
      /\ UNCHANGED <<stored, data, draft, get, dirty, behind>>
  BY DEF Settings!HandleSave, Settings!page, Settings!past
<1>2. SettingsShape /\ SettingsGood(a)
  BY DEF SettingsIInv
<1>3. /\ save'[a] = [pc |-> "find", at |-> 1, section |-> s, value |-> draft[a][s], edits |-> edits, late |-> isLate]
      /\ DOMAIN save' = Editors /\ \A b \in Editors \ {a} : save'[b] = save[b]
  BY <1>1, <1>2 DEF SettingsShape
<1>4. SettingsShape' /\ \A t \in Settings!Sections : Settings!View(t)' = Settings!View(t)
  BY <1>1, <1>2, <1>3 DEF SettingsShape, Settings!View
<1>5. draft[a][s] \in Settings!Section /\ edits \in SUBSET Fields /\ isLate \in BOOLEAN
  BY <1>2 DEF SettingsShape
<1>6. SettingsPutOK(a)' /\ SettingsPassed(save[a])'
  <2> HIDE DEF edits, isLate
  <2>1. QED
    BY <1>2, <1>3, <1>5, SettingsRows DEF SettingsPutOK, SettingsPassed
<1>7. SettingsGetOK(a)' /\ SettingsPassed(get[a])'
  BY <1>1, <1>2 DEF SettingsGood, SettingsGetOK, SettingsPassed
<1>8. SettingsReadFresh(a)' /\ SettingsPageFresh(a)'
  BY <1>1, <1>2, <1>3 DEF SettingsGood, SettingsReadFresh, SettingsPageFresh, SettingsWriting, Settings!View
<1>9. SettingsSaveFresh(a)'
  <2> SUFFICES ASSUME ~isLate, NEW f \in Fields, f \notin edits, <<s, f>> \notin EnvFields
               PROVE  draft[a][s][f] = Settings!View(s)[f]
    <3>1. /\ save'[a].section = s /\ save'[a].value = draft[a][s]
          /\ save'[a].edits = edits /\ save'[a].late = isLate /\ Settings!View(s)' = Settings!View(s)
      BY <1>3, <1>4
    <3> HIDE DEF edits, isLate
    <3>2. QED
      BY <3>1 DEF SettingsSaveFresh
  <2>1. draft[a][s][f] = data[a][s][f]
    BY <1>2 DEF SettingsGood, SettingsDraftKept
  <2>2. data[a][s] = Settings!View(s)
    BY <1>1, <1>2 DEF SettingsGood, SettingsPageFresh, SettingsWriting
  <2>3. QED
    BY <2>1, <2>2
<1>10. QED
  BY <1>1, <1>3, <1>4, <1>6, <1>7, <1>8, <1>9, SettingsRequestStep

LEMMA SettingsGetAnsweredStep ==
    ASSUME Settings!SettingsAssumption, SettingsIInv, NEW a \in Editors, Settings!GetAnswered(a)
    PROVE  SettingsIInv'
<1>1. /\ get[a].pc = "answer" /\ get' = [get EXCEPT ![a] = Settings!IdleGet]
      /\ data' = [data EXCEPT ![a] = get[a].read]
      /\ IF get[a].read = data[a] THEN UNCHANGED <<draft, dirty>>
         ELSE draft' = [draft EXCEPT ![a] = get[a].read] /\ dirty' = [dirty EXCEPT ![a] = {}]
      /\ behind' = [behind EXCEPT ![a] = get[a].missed]
      /\ UNCHANGED <<stored, save>>
  BY DEF Settings!GetAnswered, Settings!Replace
<1>2. SettingsShape /\ \A b \in Editors : SettingsGood(b)
  BY DEF SettingsIInv
<1>3. get[a].read \in [Settings!Sections -> Settings!Section] /\ get[a].missed \in SUBSET Settings!Sections
  BY <1>1, <1>2 DEF SettingsGood, SettingsGetOK, SettingsReads
<1>4. /\ get'[a] = Settings!IdleGet /\ DOMAIN get' = Editors /\ data'[a] = get[a].read /\ behind'[a] = get[a].missed
      /\ \A b \in Editors \ {a} : /\ get'[b] = get[b] /\ data'[b] = data[b] /\ behind'[b] = behind[b]
                                 /\ draft'[b] = draft[b] /\ dirty'[b] = dirty[b]
      /\ \/ get[a].read = data[a] /\ draft'[a] = draft[a] /\ dirty'[a] = dirty[a]
         \/ draft'[a] = get[a].read /\ dirty'[a] = {}
  BY <1>1, <1>2 DEF SettingsShape
<1>5. SettingsShape'
  <2>1. draft' \in [Editors -> [Settings!Sections -> Settings!Section]] /\
          dirty' \in [Editors -> SUBSET (Settings!Sections \X Fields)]
    BY <1>1, <1>2, <1>3 DEF SettingsShape
  <2>2. data' \in [Editors -> [Settings!Sections -> Settings!Section] \cup {Nil}] /\
          behind' \in [Editors -> SUBSET Settings!Sections]
    BY <1>1, <1>2, <1>3 DEF SettingsShape
  <2>3. QED
    BY <1>1, <1>2, <1>4, <2>1, <2>2 DEF SettingsShape
<1>6. \A t \in Settings!Sections : Settings!View(t)' = Settings!View(t)
  BY <1>1 DEF Settings!View
<1>7. ASSUME NEW b \in Editors \ {a} PROVE SettingsGood(b)'
  BY <1>1, <1>2, <1>4, <1>6, SettingsBystander
<1>8. SettingsGood(a)'
  <2>1. SettingsGetOK(a)' /\ SettingsPassed(get[a])' /\ SettingsReadFresh(a)'
    BY <1>2, <1>4, SettingsRows, SettingsNothing DEF SettingsGetOK, SettingsPassed, SettingsReadFresh, Settings!IdleGet
  <2>2. SettingsPutOK(a)' /\ SettingsPassed(save[a])' /\ SettingsSaveFresh(a)'
    BY <1>1, <1>2 DEF SettingsGood, SettingsPutOK, SettingsPassed, SettingsSaveFresh, Settings!View
  <2>3. SettingsPageFresh(a)'
    BY <1>1, <1>2, <1>3, <1>4, <1>6 DEF SettingsGood, SettingsReadFresh, SettingsPageFresh, SettingsWriting
  <2>4. SettingsDraftKept(a)'
    BY <1>2, <1>4 DEF SettingsGood, SettingsDraftKept
  <2>5. QED
    BY <2>1, <2>2, <2>3, <2>4 DEF SettingsGood
<1>9. QED
  BY <1>5, <1>7, <1>8 DEF SettingsIInv

LEMMA SettingsGetFailedStep ==
    ASSUME Settings!SettingsAssumption, SettingsIInv, NEW a \in Editors, Settings!GetFailed(a)
    PROVE  SettingsIInv'
<1>1. /\ get' = [get EXCEPT ![a] = Settings!IdleGet] /\ behind' = [behind EXCEPT ![a] = Settings!Sections]
      /\ UNCHANGED <<stored, data, draft, save, dirty>>
  BY DEF Settings!GetFailed, Settings!page
<1>2. SettingsShape /\ SettingsGood(a)
  BY DEF SettingsIInv
<1>3. /\ get'[a] = Settings!IdleGet /\ DOMAIN get' = Editors /\ behind'[a] = Settings!Sections
      /\ \A b \in Editors \ {a} : get'[b] = get[b] /\ behind'[b] = behind[b]
  BY <1>1, <1>2 DEF SettingsShape
<1>4. SettingsShape' /\ \A t \in Settings!Sections : Settings!View(t)' = Settings!View(t)
  BY <1>1, <1>2, <1>3 DEF SettingsShape, Settings!View
<1>5. SettingsGetOK(a)' /\ SettingsPassed(get[a])' /\ SettingsReadFresh(a)' /\ SettingsPageFresh(a)'
  BY <1>2, <1>3, SettingsRows, SettingsNothing DEF SettingsGetOK, SettingsPassed, SettingsReadFresh, SettingsPageFresh,
       Settings!IdleGet
<1>6. SettingsPutOK(a)' /\ SettingsPassed(save[a])' /\ SettingsSaveFresh(a)'
  BY <1>1, <1>2 DEF SettingsGood, SettingsPutOK, SettingsPassed, SettingsSaveFresh, Settings!View
<1>7. QED
  BY <1>1, <1>3, <1>4, <1>5, <1>6, SettingsRequestStep

LEMMA SettingsPutAnsweredStep ==
    ASSUME Settings!SettingsAssumption, SettingsIInv, NEW a \in Editors, Settings!PutAnswered(a)
    PROVE  SettingsIInv'
<1>1. /\ save' = [save EXCEPT ![a] = Settings!IdlePut] /\
           get' = [get EXCEPT ![a] = [Settings!IdleGet EXCEPT !.pc = "find"]]
      /\ UNCHANGED <<stored, data, draft, dirty, behind>>
  BY DEF Settings!PutAnswered, Settings!page, Settings!past
<1>2. SettingsShape /\ SettingsGood(a)
  BY DEF SettingsIInv
<1>3. /\ get'[a] = [pc |-> "find", at |-> 1, read |-> <<>>, missed |-> {}] /\ save'[a] = Settings!IdlePut
      /\ DOMAIN get' = Editors /\ DOMAIN save' = Editors
      /\ \A b \in Editors \ {a} : get'[b] = get[b] /\ save'[b] = save[b]
  BY <1>1, <1>2 DEF SettingsShape, Settings!IdleGet
<1>4. SettingsShape' /\ \A t \in Settings!Sections : Settings!View(t)' = Settings!View(t)
  BY <1>1, <1>2, <1>3 DEF SettingsShape, Settings!View
<1>5. SettingsGetOK(a)' /\ SettingsPassed(get[a])' /\ SettingsReadFresh(a)' /\ SettingsPageFresh(a)'
  BY <1>2, <1>3, SettingsRows, SettingsNothing DEF SettingsGetOK, SettingsPassed, SettingsReadFresh, SettingsPageFresh
<1>6. SettingsPutOK(a)' /\ SettingsPassed(save[a])' /\ SettingsSaveFresh(a)'
  BY <1>2, <1>3, SettingsRows DEF SettingsPutOK, SettingsPassed, SettingsSaveFresh, Settings!IdlePut
<1>7. QED
  BY <1>1, <1>3, <1>4, <1>5, <1>6, SettingsRequestStep

LEMMA SettingsPutFailedStep ==
    ASSUME Settings!SettingsAssumption, SettingsIInv, NEW a \in Editors, Settings!PutFailed(a)
    PROVE  SettingsIInv'
<1> DEFINE unknown == IF save[a].pc \in {"log", "answer"} THEN {save[a].section} ELSE {}
<1>1. /\ save[a].pc # "idle" /\ save' = [save EXCEPT ![a] = Settings!IdlePut]
      /\ behind' = [behind EXCEPT ![a] = @ \cup unknown]
      /\ get' = [get EXCEPT ![a].missed = @ \cup unknown]
      /\ UNCHANGED <<stored, data, draft, dirty>>
  BY DEF Settings!PutFailed, Settings!page
<1>2. SettingsShape /\ SettingsGood(a)
  BY DEF SettingsIInv
<1>3. unknown \in SUBSET Settings!Sections /\ \A s \in Settings!Sections : SettingsWriting(a, s) => s \in unknown
  BY <1>1, <1>2 DEF SettingsGood, SettingsPutOK, SettingsWriting
<1> HIDE DEF unknown
<1>4. /\ get'[a] = [get[a] EXCEPT !.missed = @ \cup unknown] /\ save'[a] = Settings!IdlePut
      /\ DOMAIN get' = Editors /\ DOMAIN save' = Editors /\ behind'[a] = behind[a] \cup unknown
      /\ \A b \in Editors \ {a} : get'[b] = get[b] /\ save'[b] = save[b] /\ behind'[b] = behind[b]
  BY <1>1, <1>2 DEF SettingsShape
<1>5. /\ get'[a].pc = get[a].pc /\ get'[a].at = get[a].at /\ get'[a].read = get[a].read
      /\ get'[a].missed = get[a].missed \cup unknown /\ SettingsGetOK(a)'
  <2>1. get[a] \in [pc : {"idle", "find", "create", "go", "answer"}, at : 1..Len(Order),
                   read : SettingsReads, missed : SUBSET Settings!Sections]
    BY <1>2 DEF SettingsGood, SettingsGetOK
  <2>2. /\ get'[a].pc = get[a].pc /\ get'[a].at = get[a].at /\ get'[a].read = get[a].read
        /\ get'[a].missed = get[a].missed \cup unknown
        /\ get'[a] \in [pc : {"idle", "find", "create", "go", "answer"}, at : 1..Len(Order),
                   read : SettingsReads, missed : SUBSET Settings!Sections]
    BY <1>3, <1>4, <2>1
  <2>3. QED
    BY <1>2, <2>2 DEF SettingsGood, SettingsGetOK, SettingsReads, Settings!Section, Settings!Sections, Settings!Values
<1>6. SettingsShape' /\ \A t \in Settings!Sections : Settings!View(t)' = Settings!View(t)
  <2>1. behind' \in [Editors -> SUBSET Settings!Sections]
    BY <1>1, <1>2, <1>3 DEF SettingsShape
  <2>2. QED
    BY <1>1, <1>2, <1>4, <2>1 DEF SettingsShape, Settings!View
<1>7. SettingsPutOK(a)' /\ SettingsPassed(save[a])' /\ SettingsSaveFresh(a)'
  BY <1>2, <1>4, SettingsRows DEF SettingsPutOK, SettingsPassed, SettingsSaveFresh, Settings!IdlePut
<1>8. SettingsPassed(get[a])'
  BY <1>1, <1>2, <1>5 DEF SettingsGood, SettingsPassed
<1>9. DOMAIN get[a].read \subseteq Settings!Sections
  BY <1>2 DEF SettingsGood, SettingsGetOK, SettingsReads
<1>10. SettingsReadFresh(a)'
  BY <1>2, <1>3, <1>5, <1>6, <1>9 DEF SettingsGood, SettingsReadFresh
<1>11. SettingsPageFresh(a)'
  BY <1>1, <1>2, <1>3, <1>4, <1>5, <1>6 DEF SettingsGood, SettingsPageFresh
<1>12. QED
  BY <1>1, <1>4, <1>5, <1>6, <1>7, <1>8, <1>10, <1>11, SettingsRequestStep

(* What the frame of a request becomes in ensureDefaults.                  *)
LEMMA SettingsFrameFound ==
    ASSUME Settings!SettingsAssumption, SettingsShape, NEW c, c.pc = "find", SettingsPassed(c), c.at \in 1..Len(Order),
           "pc" \in DOMAIN c, "at" \in DOMAIN c, NEW d, d = Settings!Found(c)
    PROVE  /\ SettingsPassed(d) /\ d.at \in 1..Len(Order) /\ d.pc \in {"find", "create", "go"}
           /\ d = [[c EXCEPT !.at = d.at] EXCEPT !.pc = d.pc]
<1>1. Len(Order) \in Nat /\ c.at \in 1..Len(Order)
  BY SettingsRows
<1>2. CASE stored[Order[c.at]] = Nil
  <2>1. d = [c EXCEPT !.pc = "create"] /\ d.pc = "create" /\ d.at = c.at
    BY <1>2 DEF Settings!Found
  <2>2. QED
    BY <1>1, <2>1 DEF SettingsPassed
<1>3. CASE stored[Order[c.at]] # Nil /\ c.at < Len(Order)
  <2>1. d = [c EXCEPT !.at = @ + 1] /\ d.pc = "find" /\ d.at = c.at + 1
    BY <1>3 DEF Settings!Found
  <2>2. d.at \in 1..Len(Order) /\ \A i \in 1..Len(Order) : i < d.at => i < c.at \/ i = c.at
    BY <1>1, <1>3, <2>1
  <2>3. SettingsPassed(d)
    BY <1>3, <2>1, <2>2 DEF SettingsPassed
  <2>4. QED
    BY <2>1, <2>2, <2>3
<1>4. CASE stored[Order[c.at]] # Nil /\ ~(c.at < Len(Order))
  <2>1. d = [c EXCEPT !.pc = "go"] /\ d.pc = "go" /\ d.at = c.at
    BY <1>4 DEF Settings!Found
  <2>2. \A i \in 1..Len(Order) : i < c.at \/ i = c.at
    BY <1>1, <1>4
  <2>3. \A s \in Settings!Sections : stored[s] # Nil
    BY <1>4, <2>2, SettingsRows DEF SettingsPassed
  <2>4. QED
    BY <1>1, <2>1, <2>3 DEF SettingsPassed
<1>5. QED
  BY <1>2, <1>3, <1>4

LEMMA SettingsFrameCreated ==
    ASSUME Settings!SettingsAssumption, SettingsShape, NEW c, c.pc = "create", SettingsPassed(c),
           c.at \in 1..Len(Order),
           "pc" \in DOMAIN c, "at" \in DOMAIN c, NEW d, d = Settings!Created(c),
           stored' = [stored EXCEPT ![Order[c.at]] = Settings!Defaults]
    PROVE  /\ SettingsPassed(d)' /\ d.at \in 1..Len(Order) /\ d.pc \in {"find", "go"}
           /\ d = [[c EXCEPT !.at = d.at] EXCEPT !.pc = d.pc]
<1>1. Len(Order) \in Nat /\ c.at \in 1..Len(Order)
  BY SettingsRows
<1>2. Order[c.at] \in Settings!Sections /\ Settings!Defaults # Nil /\ stored'[Order[c.at]] # Nil
      /\ \A s \in Settings!Sections : stored[s] # Nil => stored'[s] # Nil
  BY <1>1, SettingsRows DEF SettingsShape
<1>3. CASE c.at < Len(Order)
  <2>1. d.pc = "find" /\ d.at = c.at + 1 /\ d = [[c EXCEPT !.at = d.at] EXCEPT !.pc = d.pc]
    BY <1>3 DEF Settings!Created
  <2>2. d.at \in 1..Len(Order) /\ \A i \in 1..Len(Order) : i < d.at => i < c.at \/ i = c.at
    BY <1>1, <1>3, <2>1
  <2>3. QED
    BY <1>2, <2>1, <2>2, SettingsRows DEF SettingsPassed
<1>4. CASE ~(c.at < Len(Order))
  <2>1. d = [c EXCEPT !.pc = "go"] /\ d.pc = "go" /\ d.at = c.at
    BY <1>4 DEF Settings!Created
  <2>2. \A i \in 1..Len(Order) : i < c.at \/ i = c.at
    BY <1>1, <1>4
  <2>3. \A s \in Settings!Sections : stored'[s] # Nil
    BY <1>2, <2>2, SettingsRows DEF SettingsPassed
  <2>4. QED
    BY <1>1, <2>1, <2>3 DEF SettingsPassed
<1>5. QED
  BY <1>3, <1>4

(* A row of defaults is what was served without it.                        *)
LEMMA SettingsCreateServesSame ==
    ASSUME Settings!SettingsAssumption, SettingsShape, NEW s \in Settings!Sections, Settings!Create(s)
    PROVE  /\ stored' = [stored EXCEPT ![s] = Settings!Defaults] /\
              stored' \in [Settings!Sections -> Settings!Section \cup {Nil}]
           /\ \A t \in Settings!Sections : Settings!View(t)' = Settings!View(t) /\
                (stored[t] # Nil => stored'[t] # Nil /\ stored'[t] = stored[t])
<1>1. /\ stored' = [stored EXCEPT ![s] = Settings!Defaults] /\ stored[s] = Nil /\
           Settings!Defaults \in Settings!Section /\ Settings!Defaults # Nil
  BY SettingsRows DEF Settings!Create
<1>2. stored' \in [Settings!Sections -> Settings!Section \cup {Nil}] /\ stored'[s] = Settings!Defaults
      /\ \A t \in Settings!Sections : t # s => stored'[t] = stored[t]
  BY <1>1 DEF SettingsShape
<1>3. ASSUME NEW t \in Settings!Sections PROVE Settings!View(t)' = Settings!View(t)
  <2>1. CASE t # s
    BY <1>2, <2>1 DEF Settings!View
  <2>2. CASE t = s
    <3>1. \A f \in Fields : Settings!Defaults[f] = Default
      BY DEF Settings!Defaults
    <3>2. QED
      BY <1>1, <1>2, <2>2, <3>1 DEF Settings!View
  <2>3. QED
    BY <2>1, <2>2
<1>4. QED
  BY <1>1, <1>2, <1>3

LEMMA SettingsEnsureDefaultsStep ==
    ASSUME Settings!SettingsAssumption, SettingsIInv, NEW a \in Editors, Settings!EnsureDefaults(a)
    PROVE  SettingsIInv'
<1>1. UNCHANGED <<data, draft, dirty, behind>>
  BY DEF Settings!EnsureDefaults, Settings!page, Settings!past
<1>2. SettingsShape /\ SettingsGood(a)
  BY DEF SettingsIInv
<1>3. /\ get[a] \in [pc : {"idle", "find", "create", "go", "answer"}, at : 1..Len(Order),
                     read : SettingsReads, missed : SUBSET Settings!Sections]
      /\ save[a] \in [pc : {"idle", "find", "create", "go", "log", "answer"}, at : 1..Len(Order),
                     section : Settings!Sections \cup {Nil}, value : Settings!Section \cup {Nil},
                     edits : SUBSET Fields, late : BOOLEAN]
      /\ SettingsPassed(get[a]) /\ SettingsPassed(save[a])
  BY <1>2 DEF SettingsGood, SettingsGetOK, SettingsPutOK
<1>4. ASSUME NEW d, d.at \in 1..Len(Order), d.pc \in {"find", "create", "go"},
             get[a].pc \in {"find", "create"}, SettingsPassed(d)',
             d = [[get[a] EXCEPT !.at = d.at] EXCEPT !.pc = d.pc],
             get' = [get EXCEPT ![a] = d], save' = save, stored' \in [Settings!Sections -> Settings!Section \cup {Nil}],
             \A s \in Settings!Sections : Settings!View(s)' = Settings!View(s) /\ (stored[s] # Nil => stored'[s] # Nil)
      PROVE  SettingsIInv'
  <2>1. get'[a] = d /\ DOMAIN get' = Editors /\ \A b \in Editors \ {a} : get'[b] = get[b]
    BY <1>2, <1>4 DEF SettingsShape
  <2>2. d.read = get[a].read /\ d.missed = get[a].missed
        /\ d \in [pc : {"idle", "find", "create", "go", "answer"}, at : 1..Len(Order),
                  read : SettingsReads, missed : SUBSET Settings!Sections]
    BY <1>3, <1>4
  <2>3. DOMAIN d.read = {}
    BY <1>2, <1>4, <2>2 DEF SettingsGood, SettingsGetOK
  <2>4. SettingsGetOK(a)'
    BY <1>4, <2>1, <2>2, <2>3 DEF SettingsGetOK, SettingsReads, Settings!Section, Settings!Sections, Settings!Values
  <2>5. SettingsPassed(get[a])' /\ SettingsReadFresh(a)' /\ SettingsPageFresh(a)'
    BY <1>4, <2>1, <2>3 DEF SettingsPassed, SettingsReadFresh, SettingsPageFresh
  <2>6. SettingsPutOK(a)' /\ SettingsSaveFresh(a)'
    BY <1>2, <1>4 DEF SettingsGood, SettingsPutOK, SettingsSaveFresh
  <2>7. SettingsPassed(save[a])'
    BY <1>2, <1>3, <1>4, SettingsRows DEF SettingsPassed
  <2>8. SettingsShape'
    BY <1>1, <1>2, <1>4, <2>1 DEF SettingsShape
  <2>9. QED
    BY <1>1, <1>4, <2>1, <2>4, <2>5, <2>6, <2>7, <2>8, SettingsRequestStep
<1>5. ASSUME NEW d, d.at \in 1..Len(Order), d.pc \in {"find", "create", "go"},
             save[a].pc \in {"find", "create"}, SettingsPassed(d)',
             d = [[save[a] EXCEPT !.at = d.at] EXCEPT !.pc = d.pc],
             save' = [save EXCEPT ![a] = d], get' = get, stored' \in [Settings!Sections -> Settings!Section \cup {Nil}],
             \A s \in Settings!Sections : Settings!View(s)' = Settings!View(s) /\ (stored[s] # Nil => stored'[s] # Nil)
      PROVE  SettingsIInv'
  <2>1. save'[a] = d /\ DOMAIN save' = Editors /\ \A b \in Editors \ {a} : save'[b] = save[b]
    BY <1>2, <1>5 DEF SettingsShape
  <2>2. /\ d.section = save[a].section /\ d.value = save[a].value /\ d.edits = save[a].edits /\ d.late = save[a].late
        /\ d \in [pc : {"idle", "find", "create", "go", "log", "answer"}, at : 1..Len(Order),
                     section : Settings!Sections \cup {Nil}, value : Settings!Section \cup {Nil},
                     edits : SUBSET Fields, late : BOOLEAN]
    BY <1>3, <1>5
  <2>3. d.section \in Settings!Sections /\ d.value \in Settings!Section
    BY <1>2, <1>5, <2>2 DEF SettingsGood, SettingsPutOK
  <2>4. SettingsPutOK(a)'
    BY <2>1, <2>2, <2>3 DEF SettingsPutOK, Settings!Section, Settings!Sections, Settings!Values
  <2>5. SettingsPassed(save[a])' /\ SettingsSaveFresh(a)'
    BY <1>2, <1>5, <2>1, <2>2, <2>3 DEF SettingsGood, SettingsPassed, SettingsSaveFresh
  <2>6. DOMAIN get[a].read \subseteq Settings!Sections
    BY <1>3 DEF SettingsReads
  <2>7. SettingsGetOK(a)' /\ SettingsReadFresh(a)' /\ SettingsPageFresh(a)'
    BY <1>1, <1>2, <1>5, <2>1, <2>6 DEF SettingsGood, SettingsGetOK, SettingsReadFresh, SettingsPageFresh,
         SettingsWriting
  <2>8. SettingsPassed(get[a])'
    BY <1>2, <1>3, <1>5, SettingsRows DEF SettingsPassed
  <2>9. SettingsShape'
    BY <1>1, <1>2, <1>5, <2>1 DEF SettingsShape
  <2>10. QED
    BY <1>1, <1>5, <2>1, <2>4, <2>5, <2>7, <2>8, <2>9, SettingsRequestStep
<1>6. ASSUME stored' = stored
      PROVE  /\ stored' \in [Settings!Sections -> Settings!Section \cup {Nil}] /\
                \A c : SettingsPassed(c)' <=> SettingsPassed(c)
             /\ \A s \in Settings!Sections : Settings!View(s)' = Settings!View(s) /\
                  (stored[s] # Nil => stored'[s] # Nil)
  BY <1>2, <1>6 DEF SettingsShape, Settings!View, SettingsPassed
<1>7. CASE get[a].pc = "find" /\ get' = [get EXCEPT ![a] = Settings!Found(@)] /\ UNCHANGED <<stored, save>>
  <2>1. PICK d : d = Settings!Found(get[a])
    OBVIOUS
  <2>2. /\ SettingsPassed(d) /\ d.at \in 1..Len(Order) /\ d.pc \in {"find", "create", "go"}
        /\ d = [[get[a] EXCEPT !.at = d.at] EXCEPT !.pc = d.pc]
    BY <1>2, <1>3, <1>7, <2>1, SettingsFrameFound
  <2>3. get' = [get EXCEPT ![a] = d] /\ save' = save /\ stored' = stored
    BY <1>2, <1>7, <2>1 DEF SettingsShape
  <2>4. SettingsPassed(d)'
    BY <2>2, <2>3 DEF SettingsPassed
  <2>5. QED
    BY <1>4, <1>6, <1>7, <2>2, <2>3, <2>4
<1>8. CASE save[a].pc = "find" /\ save' = [save EXCEPT ![a] = Settings!Found(@)] /\ UNCHANGED <<stored, get>>
  <2>1. PICK d : d = Settings!Found(save[a])
    OBVIOUS
  <2>2. /\ SettingsPassed(d) /\ d.at \in 1..Len(Order) /\ d.pc \in {"find", "create", "go"}
        /\ d = [[save[a] EXCEPT !.at = d.at] EXCEPT !.pc = d.pc]
    BY <1>2, <1>3, <1>8, <2>1, SettingsFrameFound
  <2>3. save' = [save EXCEPT ![a] = d] /\ get' = get /\ stored' = stored
    BY <1>2, <1>8, <2>1 DEF SettingsShape
  <2>4. SettingsPassed(d)'
    BY <2>2, <2>3 DEF SettingsPassed
  <2>5. QED
    BY <1>5, <1>6, <1>8, <2>2, <2>3, <2>4
<1>9. CASE get[a].pc = "create" /\ Settings!Create(Order[get[a].at]) /\
             get' = [get EXCEPT ![a] = Settings!Created(@)] /\ UNCHANGED save
  <2>1. PICK d : d = Settings!Created(get[a])
    OBVIOUS
  <2>2. Order[get[a].at] \in Settings!Sections
    BY <1>2, <1>3, SettingsRows
  <2>3. /\ stored' = [stored EXCEPT ![Order[get[a].at]] = Settings!Defaults] /\
             stored' \in [Settings!Sections -> Settings!Section \cup {Nil}]
        /\ \A s \in Settings!Sections : Settings!View(s)' = Settings!View(s) /\ (stored[s] # Nil => stored'[s] # Nil)
    BY <1>2, <1>9, <2>2, SettingsCreateServesSame
  <2>4. /\ SettingsPassed(d)' /\ d.at \in 1..Len(Order) /\ d.pc \in {"find", "go"}
        /\ d = [[get[a] EXCEPT !.at = d.at] EXCEPT !.pc = d.pc]
    BY <1>2, <1>3, <1>9, <2>1, <2>3, SettingsFrameCreated
  <2>5. get' = [get EXCEPT ![a] = d] /\ save' = save
    BY <1>2, <1>9, <2>1 DEF SettingsShape
  <2>6. QED
    BY <1>4, <1>9, <2>3, <2>4, <2>5
<1>10. CASE save[a].pc = "create" /\ Settings!Create(Order[save[a].at]) /\
              save' = [save EXCEPT ![a] = Settings!Created(@)] /\ UNCHANGED get
  <2>1. PICK d : d = Settings!Created(save[a])
    OBVIOUS
  <2>2. Order[save[a].at] \in Settings!Sections
    BY <1>2, <1>3, SettingsRows
  <2>3. /\ stored' = [stored EXCEPT ![Order[save[a].at]] = Settings!Defaults] /\
             stored' \in [Settings!Sections -> Settings!Section \cup {Nil}]
        /\ \A s \in Settings!Sections : Settings!View(s)' = Settings!View(s) /\ (stored[s] # Nil => stored'[s] # Nil)
    BY <1>2, <1>10, <2>2, SettingsCreateServesSame
  <2>4. /\ SettingsPassed(d)' /\ d.at \in 1..Len(Order) /\ d.pc \in {"find", "go"}
        /\ d = [[save[a] EXCEPT !.at = d.at] EXCEPT !.pc = d.pc]
    BY <1>2, <1>3, <1>10, <2>1, <2>3, SettingsFrameCreated
  <2>5. save' = [save EXCEPT ![a] = d] /\ get' = get
    BY <1>2, <1>10, <2>1 DEF SettingsShape
  <2>6. QED
    BY <1>5, <1>10, <2>3, <2>4, <2>5
<1>11. QED
  BY <1>7, <1>8, <1>9, <1>10 DEF Settings!EnsureDefaults

LEMMA SettingsReadSectionStep ==
    ASSUME Settings!SettingsAssumption, SettingsIInv, NEW a \in Editors, NEW s \in Settings!Sections,
           Settings!ReadSection(a, s)
    PROVE  SettingsIInv'
<1>1. UNCHANGED <<stored, data, draft, save, dirty, behind>> /\ get[a].pc = "go"
  BY DEF Settings!ReadSection, Settings!page, Settings!past
<1>2. SettingsShape /\ SettingsGood(a)
  BY DEF SettingsIInv
<1> DEFINE old == get[a].read
           r == [k \in DOMAIN old \cup {s} |-> IF k = s THEN Settings!View(s) ELSE old[k]]
           pc == IF DOMAIN r = Settings!Sections THEN "answer" ELSE "go"
<1>3. get' = [get EXCEPT ![a].read = r, ![a].pc = pc]
  BY DEF Settings!ReadSection
<1>4. get[a] \in [pc : {"idle", "find", "create", "go", "answer"}, at : 1..Len(Order),
                  read : SettingsReads, missed : SUBSET Settings!Sections]
  BY <1>2 DEF SettingsGood, SettingsGetOK
<1>5. PICK D \in SUBSET Settings!Sections : old \in [D -> Settings!Section]
  BY <1>4 DEF SettingsReads
<1>6. /\ DOMAIN r = D \cup {s} /\ r \in [D \cup {s} -> Settings!Section] /\ r[s] = Settings!View(s)
      /\ \A k \in D \ {s} : r[k] = old[k]
  BY <1>2, <1>5, SettingsRows
<1>7. r \in SettingsReads
  <2>1. D \cup {s} \in SUBSET Settings!Sections
    OBVIOUS
  <2>2. QED
    BY <1>6, <2>1 DEF SettingsReads
<1>8. pc \in {"answer", "go"} /\ (pc = "answer" => DOMAIN r = Settings!Sections)
  OBVIOUS
<1>9. DOMAIN get' = Editors /\ \A b \in Editors \ {a} : get'[b] = get[b]
  BY <1>2, <1>3 DEF SettingsShape
<1> HIDE DEF r, pc
<1>10. /\ get'[a].read = r /\ get'[a].pc = pc /\ get'[a].missed = get[a].missed
       /\ get'[a] \in [pc : {"idle", "find", "create", "go", "answer"}, at : 1..Len(Order),
                  read : SettingsReads, missed : SUBSET Settings!Sections]
  <2>1. get'[a] = [get[a] EXCEPT !.read = r, !.pc = pc]
    BY <1>2, <1>3 DEF SettingsShape
  <2>2. QED
    BY <1>4, <1>7, <1>8, <2>1
<1>11. SettingsGetOK(a)'
  BY <1>8, <1>10 DEF SettingsGetOK, SettingsReads, Settings!Section, Settings!Sections, Settings!Values
<1>12. SettingsShape' /\ \A t \in Settings!Sections : Settings!View(t)' = Settings!View(t) /\ stored' = stored
  BY <1>1, <1>2, <1>9 DEF SettingsShape, Settings!View
<1>13. SettingsPassed(get[a])' /\ SettingsPassed(save[a])' /\ SettingsPutOK(a)' /\ SettingsSaveFresh(a)'
  <2>1. SettingsPassed(save[a])' /\ SettingsPutOK(a)' /\ SettingsSaveFresh(a)'
    BY <1>1, <1>2 DEF SettingsGood, SettingsPassed, SettingsPutOK, SettingsSaveFresh, Settings!View
  <2>2. SettingsPassed(get[a])'
    BY <1>1, <1>2, <1>8, <1>10 DEF SettingsGood, SettingsPassed
  <2>3. QED
    BY <2>1, <2>2
<1>14. SettingsReadFresh(a)'
  <2> SUFFICES ASSUME NEW t \in DOMAIN r \ get[a].missed, ~SettingsWriting(a, t)
               PROVE  r[t] = Settings!View(t)
    BY <1>1, <1>6, <1>10, <1>12 DEF SettingsReadFresh, SettingsWriting
  <2>1. CASE t = s
    BY <1>6, <2>1
  <2>2. CASE t # s
    BY <1>2, <1>5, <1>6, <2>2 DEF SettingsGood, SettingsReadFresh
  <2>3. QED
    BY <2>1, <2>2
<1>15. SettingsPageFresh(a)'
  BY <1>8, <1>10 DEF SettingsPageFresh
<1>16. QED
  BY <1>1, <1>9, <1>11, <1>12, <1>13, <1>14, <1>15, SettingsRequestStep

LEMMA SettingsUpsertStep ==
    ASSUME Settings!SettingsAssumption, SettingsIInv, NEW a \in Editors, Settings!Upsert(a)
    PROVE  SettingsIInv'
<1> DEFINE s == save[a].section
<1>1. /\ save[a].pc = "go" /\ save' = [b \in Editors |-> IF b = a THEN [save[a] EXCEPT !.pc = "log"]
                                       ELSE [save[b] EXCEPT !.late = @ \/ save[b].section = s]]
      /\ stored' = [stored EXCEPT ![s] = Settings!Overlay(Settings!View(s), save[a].value)]
      /\ behind' = [b \in Editors |-> IF b = a THEN behind[b] ELSE behind[b] \cup {s}]
      /\ get' = [b \in Editors |-> IF b = a THEN get[b] ELSE [get[b] EXCEPT !.missed = @ \cup {s}]]
      /\ UNCHANGED <<data, draft, dirty>>
  BY DEF Settings!Upsert, Settings!page
<1>2. SettingsShape /\ \A b \in Editors : SettingsGood(b)
  BY DEF SettingsIInv
<1>3. s \in Settings!Sections /\ save[a].value \in Settings!Section
  BY <1>1, <1>2 DEF SettingsGood, SettingsPutOK
<1>4. Settings!Overlay(Settings!View(s), save[a].value) \in Settings!Section
  BY <1>3 DEF Settings!Overlay, Settings!Section
<1> HIDE DEF s
<1>5. /\ stored' \in [Settings!Sections -> Settings!Section \cup {Nil}] /\ stored'[s] # Nil
      /\ \A t \in Settings!Sections : t # s => stored'[t] = stored[t] /\ Settings!View(t)' = Settings!View(t)
  BY <1>1, <1>2, <1>3, <1>4, SettingsRows DEF SettingsShape, Settings!View
<1>6. \A t \in Settings!Sections : stored[t] # Nil => stored'[t] # Nil
  BY <1>5
<1>7. SettingsShape'
  BY <1>1, <1>2, <1>3, <1>5 DEF SettingsShape
<1>8. ASSUME NEW b \in Editors PROVE SettingsDraftKept(b)'
  BY <1>1, <1>2 DEF SettingsGood, SettingsDraftKept
<1>9. SettingsGood(a)'
  <2>1. save'[a] = [save[a] EXCEPT !.pc = "log"] /\ get'[a] = get[a] /\ behind'[a] = behind[a]
    BY <1>1
  <2>2. save[a] \in [pc : {"idle", "find", "create", "go", "log", "answer"}, at : 1..Len(Order),
                    section : Settings!Sections \cup {Nil}, value : Settings!Section \cup {Nil},
                    edits : SUBSET Fields, late : BOOLEAN]
    BY <1>2 DEF SettingsGood, SettingsPutOK
  <2>3. /\ save'[a].pc = "log" /\ save'[a].section = s /\ save'[a].value = save[a].value
        /\ save'[a] \in [pc : {"idle", "find", "create", "go", "log", "answer"}, at : 1..Len(Order),
                    section : Settings!Sections \cup {Nil}, value : Settings!Section \cup {Nil},
                    edits : SUBSET Fields, late : BOOLEAN]
    BY <2>1, <2>2 DEF s
  <2>4. SettingsPutOK(a)' /\ SettingsSaveFresh(a)'
    BY <1>3, <2>3 DEF SettingsPutOK, SettingsSaveFresh, Settings!Section, Settings!Sections, Settings!Values
  <2>5. SettingsGetOK(a)'
    BY <1>2, <2>1 DEF SettingsGood, SettingsGetOK
  <2>6. SettingsPassed(get[a])' /\ SettingsPassed(save[a])'
    <3>1. \A t \in Settings!Sections : stored'[t] # Nil
      BY <1>1, <1>2, <1>6 DEF SettingsGood, SettingsPassed
    <3>2. QED
      BY <1>2, <2>1, <2>3, <3>1, SettingsRows DEF SettingsPassed
  <2>7. DOMAIN get[a].read \subseteq Settings!Sections
    BY <1>2 DEF SettingsGood, SettingsGetOK, SettingsReads
  <2>8. SettingsReadFresh(a)'
    BY <1>1, <1>2, <1>5, <2>1, <2>3, <2>7 DEF SettingsGood, SettingsReadFresh, SettingsWriting
  <2>9. SettingsPageFresh(a)'
    BY <1>1, <1>2, <1>5, <2>1, <2>3 DEF SettingsGood, SettingsPageFresh, SettingsWriting
  <2>10. QED
    BY <1>8, <2>4, <2>5, <2>6, <2>8, <2>9 DEF SettingsGood
<1>10. ASSUME NEW b \in Editors \ {a} PROVE SettingsGood(b)'
  <2>1. /\ save'[b] = [save[b] EXCEPT !.late = @ \/ save[b].section = s]
        /\ get'[b] = [get[b] EXCEPT !.missed = @ \cup {s}] /\ behind'[b] = behind[b] \cup {s}
    BY <1>1
  <2>2. /\ get[b] \in [pc : {"idle", "find", "create", "go", "answer"}, at : 1..Len(Order),
                       read : SettingsReads, missed : SUBSET Settings!Sections]
        /\ save[b] \in [pc : {"idle", "find", "create", "go", "log", "answer"}, at : 1..Len(Order),
                       section : Settings!Sections \cup {Nil}, value : Settings!Section \cup {Nil},
                       edits : SUBSET Fields, late : BOOLEAN]
        /\ SettingsPassed(get[b]) /\ SettingsPassed(save[b])
    BY <1>2 DEF SettingsGood, SettingsGetOK, SettingsPutOK
  <2>3. /\ get'[b].pc = get[b].pc /\ get'[b].read = get[b].read /\ get'[b].at = get[b].at
        /\ get'[b].missed = get[b].missed \cup {s}
        /\ get'[b] \in [pc : {"idle", "find", "create", "go", "answer"}, at : 1..Len(Order),
                       read : SettingsReads, missed : SUBSET Settings!Sections]
    BY <1>3, <2>1, <2>2
  <2>4. /\ save'[b].pc = save[b].pc /\ save'[b].at = save[b].at /\ save'[b].section = save[b].section
        /\ save'[b].value = save[b].value /\ save'[b].edits = save[b].edits
        /\ (~save'[b].late => ~save[b].late /\ save[b].section # s)
        /\ save'[b] \in [pc : {"idle", "find", "create", "go", "log", "answer"}, at : 1..Len(Order),
                       section : Settings!Sections \cup {Nil}, value : Settings!Section \cup {Nil},
                       edits : SUBSET Fields, late : BOOLEAN]
    BY <2>1, <2>2
  <2>5. SettingsGetOK(b)'
    BY <1>2, <2>3 DEF SettingsGood, SettingsGetOK, SettingsReads, Settings!Section, Settings!Sections, Settings!Values
  <2>6. SettingsPutOK(b)'
    BY <1>2, <2>4 DEF SettingsGood, SettingsPutOK, Settings!Section, Settings!Sections, Settings!Values
  <2>7. SettingsPassed(get[b])' /\ SettingsPassed(save[b])'
    BY <1>2, <1>6, <2>2, <2>3, <2>4, SettingsRows DEF SettingsPassed
  <2>8. DOMAIN get[b].read \subseteq Settings!Sections
    BY <2>2 DEF SettingsReads
  <2>9. SettingsReadFresh(b)'
    BY <1>2, <1>5, <2>3, <2>4, <2>8 DEF SettingsGood, SettingsReadFresh, SettingsWriting
  <2>10. SettingsPageFresh(b)'
    BY <1>1, <1>2, <1>5, <2>1, <2>3, <2>4 DEF SettingsGood, SettingsPageFresh, SettingsWriting
  <2>11. SettingsSaveFresh(b)'
    <3> SUFFICES ASSUME save[b].pc \in {"find", "create", "go"}, ~save'[b].late, NEW f \in Fields \ save[b].edits,
                        <<save[b].section, f>> \notin EnvFields
                 PROVE  save[b].value[f] = Settings!View(save[b].section)'[f]
      BY <2>4 DEF SettingsSaveFresh
    <3>1. ~save[b].late /\ save[b].section # s
      BY <2>4
    <3>2. save[b].section \in Settings!Sections /\ save[b].value[f] = Settings!View(save[b].section)[f]
      BY <1>2, <3>1 DEF SettingsGood, SettingsSaveFresh, SettingsPutOK
    <3>3. QED
      BY <1>5, <2>4, <3>1, <3>2 DEF Settings!View
  <2>12. QED
    BY <1>8, <2>5, <2>6, <2>7, <2>9, <2>10, <2>11 DEF SettingsGood
<1>11. QED
  BY <1>7, <1>9, <1>10 DEF SettingsIInv

LEMMA SettingsLogUpdateStep ==
    ASSUME Settings!SettingsAssumption, SettingsIInv, NEW a \in Editors, Settings!LogUpdate(a)
    PROVE  SettingsIInv'
<1>1. /\ save[a].pc = "log" /\ save' = [save EXCEPT ![a].pc = "answer"]
      /\ UNCHANGED <<stored, data, draft, get, dirty, behind>>
  BY DEF Settings!LogUpdate, Settings!page, Settings!past
<1>2. SettingsShape /\ SettingsGood(a)
  BY DEF SettingsIInv
<1>3. /\ save'[a] = [save[a] EXCEPT !.pc = "answer"]
      /\ DOMAIN save' = Editors /\ \A b \in Editors \ {a} : save'[b] = save[b]
  BY <1>1, <1>2 DEF SettingsShape
<1>4. save[a] \in [pc : {"idle", "find", "create", "go", "log", "answer"}, at : 1..Len(Order),
                  section : Settings!Sections \cup {Nil}, value : Settings!Section \cup {Nil},
                  edits : SUBSET Fields, late : BOOLEAN]
  BY <1>2 DEF SettingsGood, SettingsPutOK
<1>5. /\ save'[a].pc = "answer" /\ save'[a].section = save[a].section /\ save'[a].value = save[a].value
      /\ save'[a] \in [pc : {"idle", "find", "create", "go", "log", "answer"}, at : 1..Len(Order),
                  section : Settings!Sections \cup {Nil}, value : Settings!Section \cup {Nil},
                  edits : SUBSET Fields, late : BOOLEAN]
  BY <1>3, <1>4
<1>6. SettingsShape' /\ \A t \in Settings!Sections : Settings!View(t)' = Settings!View(t) /\ stored' = stored
  BY <1>1, <1>2, <1>3 DEF SettingsShape, Settings!View
<1>7. SettingsPutOK(a)' /\ SettingsPassed(save[a])' /\ SettingsSaveFresh(a)'
  <2>1. SettingsPutOK(a)'
    BY <1>1, <1>2, <1>5 DEF SettingsGood, SettingsPutOK, Settings!Section, Settings!Sections, Settings!Values
  <2>2. SettingsPassed(save[a])' /\ SettingsSaveFresh(a)'
    BY <1>1, <1>2, <1>5 DEF SettingsGood, SettingsPassed, SettingsSaveFresh
  <2>3. QED
    BY <2>1, <2>2
<1>8. SettingsGetOK(a)' /\ SettingsPassed(get[a])'
  BY <1>1, <1>2 DEF SettingsGood, SettingsGetOK, SettingsPassed
<1>9. SettingsReadFresh(a)' /\ SettingsPageFresh(a)'
  BY <1>1, <1>2, <1>5, <1>6 DEF SettingsGood, SettingsReadFresh, SettingsPageFresh, SettingsWriting, Settings!View
<1>10. QED
  BY <1>1, <1>3, <1>6, <1>7, <1>8, <1>9, SettingsRequestStep

LEMMA SettingsInvStep ==
    ASSUME Settings!SettingsAssumption
    PROVE  SettingsIInv /\ [Settings!Next]_(Settings!vars) => SettingsIInv'
<1> SUFFICES ASSUME SettingsIInv, [Settings!Next]_(Settings!vars) PROVE SettingsIInv'
  OBVIOUS
<1>1. ASSUME NEW a \in Editors, NEW s \in Settings!Sections, Settings!HandleSave(a, s) \/ Settings!ReadSection(a, s)
      PROVE  SettingsIInv'
  BY <1>1, SettingsHandleSaveStep, SettingsReadSectionStep
<1>2. ASSUME NEW a \in Editors, NEW s \in Settings!Sections, NEW f \in Fields, NEW v \in Typable,
             Settings!Type(a, s, f, v)
      PROVE  SettingsIInv'
  BY <1>2, SettingsTypeStep
<1>3. ASSUME NEW a \in Editors,
             \/ Settings!Fetch(a) \/ Settings!GetAnswered(a) \/ Settings!GetFailed(a) \/ Settings!PutAnswered(a) \/
                  Settings!PutFailed(a)
             \/ Settings!EnsureDefaults(a) \/ Settings!Upsert(a) \/ Settings!LogUpdate(a)
      PROVE  SettingsIInv'
  BY <1>3, SettingsFetchStep, SettingsGetAnsweredStep, SettingsGetFailedStep, SettingsPutAnsweredStep,
     SettingsPutFailedStep, SettingsEnsureDefaultsStep, SettingsUpsertStep, SettingsLogUpdateStep
<1>4. CASE UNCHANGED Settings!vars
  <2>1. UNCHANGED <<stored, data, draft, get, save, dirty, behind>> /\ SettingsShape /\
          \A b \in Editors : SettingsGood(b)
    BY <1>4 DEF SettingsIInv, Settings!vars, Settings!page, Settings!past
  <2>2. SettingsShape' /\ \A t \in Settings!Sections : Settings!View(t)' = Settings!View(t)
    BY <2>1 DEF SettingsShape, Settings!View
  <2>3. ASSUME NEW b \in Editors PROVE SettingsGood(b)'
    BY <2>1, <2>2, SettingsBystander
  <2>4. QED
    BY <2>2, <2>3 DEF SettingsIInv
<1>5. QED
  BY <1>1, <1>2, <1>3, <1>4 DEF Settings!Next

LEMMA SettingsInvMeans ==
    ASSUME Settings!SettingsAssumption
    PROVE  SettingsIInv => Settings!TypeOK /\ Settings!OwnSaveShown
<1> SUFFICES ASSUME SettingsIInv PROVE Settings!TypeOK /\ Settings!OwnSaveShown
  OBVIOUS
<1>1. SettingsShape /\ \A a \in Editors : SettingsGood(a)
  BY DEF SettingsIInv
<1>2. ASSUME NEW a \in Editors
      PROVE  /\ get[a].pc \in {"idle", "find", "create", "go", "answer"}
             /\ get[a].pc = "answer" => get[a].read \in [Settings!Sections -> Settings!Section]
             /\ save[a].pc \in {"idle", "find", "create", "go", "log", "answer"}
             /\ save[a].pc \in {"go", "log", "answer"} => stored[save[a].section] # Nil
  <2>1. SettingsGetOK(a) /\ SettingsPutOK(a) /\ SettingsPassed(save[a])
    BY <1>1 DEF SettingsGood
  <2>2. get[a].read \in SettingsReads
    BY <2>1 DEF SettingsGetOK
  <2>3. get[a].pc = "answer" => get[a].read \in [Settings!Sections -> Settings!Section]
    BY <2>1, <2>2 DEF SettingsGetOK, SettingsReads
  <2>4. QED
    BY <2>1, <2>3 DEF SettingsGetOK, SettingsPutOK, SettingsPassed
<1>3. Settings!TypeOK
  BY <1>1, <1>2 DEF SettingsShape, Settings!TypeOK
<1>4. Settings!OwnSaveShown
  BY <1>1 DEF SettingsGood, SettingsPageFresh, SettingsWriting, Settings!OwnSaveShown
<1>5. QED
  BY <1>3, <1>4

(* A row changes by the write of a save alone.                             *)
LEMMA SettingsRowChanges ==
    ASSUME Settings!SettingsAssumption, SettingsIInv, [Settings!Next]_(Settings!vars), NEW s \in Settings!Sections,
           stored[s] # Nil, stored'[s] # stored[s]
    PROVE  \E a \in Editors : save[a].section = s /\ save[a].pc = "go" /\ save'[a].pc = "log"
<1>1. PICK a \in Editors : Settings!EnsureDefaults(a) \/ Settings!Upsert(a)
  BY DEF Settings!Next, Settings!vars, Settings!Type, Settings!Fetch, Settings!HandleSave, Settings!GetAnswered,
       Settings!GetFailed, Settings!PutAnswered, Settings!PutFailed, Settings!ReadSection, Settings!LogUpdate
<1>2. SettingsShape /\ SettingsGood(a)
  BY DEF SettingsIInv
<1>3. CASE Settings!EnsureDefaults(a)
  <2>1. PICK t : Settings!Create(t)
    BY <1>3 DEF Settings!EnsureDefaults
  <2>2. QED
    BY <1>2, <2>1 DEF Settings!Create, SettingsShape
<1>4. CASE Settings!Upsert(a)
  <2>1. /\ save[a].pc = "go" /\ save'[a] = [save[a] EXCEPT !.pc = "log"]
        /\ stored' = [stored EXCEPT ![save[a].section] =
                         Settings!Overlay(Settings!View(save[a].section), save[a].value)]
    BY <1>4 DEF Settings!Upsert
  <2>2. save[a] \in [pc : {"idle", "find", "create", "go", "log", "answer"}, at : 1..Len(Order),
                    section : Settings!Sections \cup {Nil}, value : Settings!Section \cup {Nil},
                    edits : SUBSET Fields, late : BOOLEAN]
    BY <1>2 DEF SettingsGood, SettingsPutOK
  <2>3. save'[a].pc = "log" /\ save[a].section = s
    BY <1>2, <2>1, <2>2 DEF SettingsShape
  <2>4. QED
    BY <2>1, <2>3
<1>5. QED
  BY <1>1, <1>3, <1>4

(* Only the upsert of a takes its save from "go" to "log".                 *)
LEMMA SettingsUpsertOnly ==
    ASSUME Settings!SettingsAssumption, SettingsIInv, [Settings!Next]_(Settings!vars), NEW a \in Editors,
           save[a].pc = "go", save'[a].pc = "log"
    PROVE  Settings!Upsert(a)
<1>1. SettingsShape /\ \A b \in Editors : SettingsGood(b)
  BY DEF SettingsIInv
<1>2. save # save'
  OBVIOUS
<1>3. PICK b \in Editors : (\E s \in Settings!Sections : Settings!HandleSave(b, s)) \/ Settings!PutAnswered(b) \/
        Settings!PutFailed(b)
                          \/ Settings!EnsureDefaults(b) \/ Settings!Upsert(b) \/ Settings!LogUpdate(b)
  BY <1>2 DEF Settings!Next, Settings!vars, Settings!Type, Settings!Fetch, Settings!GetAnswered, Settings!GetFailed,
       Settings!ReadSection
<1>4. \A c \in Editors : save[c] \in [pc : {"idle", "find", "create", "go", "log", "answer"}, at : 1..Len(Order),
                    section : Settings!Sections \cup {Nil}, value : Settings!Section \cup {Nil},
                    edits : SUBSET Fields, late : BOOLEAN]
  BY <1>1 DEF SettingsGood, SettingsPutOK
<1>5. CASE Settings!Upsert(b)
  <2>1. b # a => save'[a] = [save[a] EXCEPT !.late = @ \/ save[a].section = save[b].section]
    BY <1>5 DEF Settings!Upsert
  <2>2. b # a => save'[a].pc = save[a].pc
    BY <1>4, <2>1
  <2>3. QED
    BY <1>5, <2>2
<1>6. CASE (\E s \in Settings!Sections : Settings!HandleSave(b, s)) \/ Settings!PutAnswered(b) \/ Settings!PutFailed(b)
           \/ Settings!EnsureDefaults(b) \/ Settings!LogUpdate(b)
  <2>1. PICK d : save' = [save EXCEPT ![b] = d] \/ save' = save
    BY <1>1, <1>6 DEF Settings!HandleSave, Settings!PutAnswered, Settings!PutFailed, Settings!EnsureDefaults,
         Settings!LogUpdate, SettingsShape
  <2>2. b = a
    BY <1>1, <2>1 DEF SettingsShape
  <2>3. /\ ~Settings!HandleSave(b, Nil) /\ (\A s \in Settings!Sections : ~Settings!HandleSave(b, s)) /\
             ~Settings!PutAnswered(b) /\ ~Settings!LogUpdate(b)
        /\ ~Settings!EnsureDefaults(b)
    BY <1>2, <2>2 DEF Settings!HandleSave, Settings!PutAnswered, Settings!LogUpdate, Settings!EnsureDefaults
  <2>4. ~Settings!PutFailed(b)
    BY <1>1, <2>2 DEF Settings!PutFailed, Settings!IdlePut, SettingsShape
  <2>5. QED
    BY <1>6, <2>3, <2>4
<1>7. QED
  BY <1>3, <1>5, <1>6

LEMMA SettingsStepKeeps ==
    ASSUME Settings!SettingsAssumption, SettingsIInv, [Settings!Next]_(Settings!vars)
    PROVE  /\ \A s \in Settings!Sections : stored[s] # Nil /\ stored'[s] # stored[s] =>
                 \E a \in Editors : save[a].section = s /\ save[a].pc = "go" /\ save'[a].pc = "log"
           /\ \A a \in Editors :
                 LET s == save[a].section IN
                 save[a].pc = "go" /\ save'[a].pc = "log" /\ ~save[a].late =>
                    \A f \in Fields : stored'[s][f] # stored[s][f] =>
                        f \in save[a].edits \/ <<s, f>> \in EnvFields
<1>1. SettingsShape /\ \A b \in Editors : SettingsGood(b)
  BY DEF SettingsIInv
<1>2. ASSUME NEW a \in Editors, save[a].pc = "go", save'[a].pc = "log", ~save[a].late,
             NEW f \in Fields, f \notin save[a].edits, <<save[a].section, f>> \notin EnvFields
      PROVE  stored'[save[a].section][f] = stored[save[a].section][f]
  <2>1. stored' = [stored EXCEPT ![save[a].section] = Settings!Overlay(Settings!View(save[a].section), save[a].value)]
    BY <1>2, SettingsUpsertOnly DEF Settings!Upsert
  <2>2. save[a].section \in Settings!Sections /\ save[a].value \in Settings!Section /\ stored[save[a].section] # Nil
    BY <1>1, <1>2 DEF SettingsGood, SettingsPutOK, SettingsPassed
  <2>3. stored'[save[a].section] = Settings!Overlay(Settings!View(save[a].section), save[a].value)
    BY <1>1, <2>1, <2>2 DEF SettingsShape
  <2>4. stored'[save[a].section][f] = save[a].value[f]
    BY <2>2, <2>3 DEF Settings!Overlay, Settings!Section
  <2>5. save[a].value[f] = Settings!View(save[a].section)[f]
    BY <1>1, <1>2 DEF SettingsGood, SettingsSaveFresh
  <2>6. Settings!View(save[a].section)[f] = stored[save[a].section][f]
    BY <1>2, <2>2 DEF Settings!View
  <2>7. QED
    BY <2>4, <2>5, <2>6
<1>3. QED
  BY <1>2, SettingsRowChanges

LEMMA SettingsHold ==
    ASSUME Settings!SettingsAssumption
    PROVE  Settings!Spec =>
           [](Settings!TypeOK /\ Settings!OwnSaveShown) /\ Settings!DefaultsNeverOverwrite /\ Settings!UntouchedKept
BY SettingsInvInit, SettingsInvStep, SettingsInvMeans, SettingsStepKeeps, PTL DEF Settings!Spec,
     Settings!DefaultsNeverOverwrite, Settings!UntouchedKept
-----------------------------------------------------------------------------
(*************************************************************************)
(* The users of the panel: UsersPanel.                                   *)
(*************************************************************************)
UsersRows == [status : UsersPanel!Statuses, level : UsersPanel!Levels, kyc : UsersPanel!KycStatuses]
UsersActive == {s \in Slots : put[s].pc # "idle"}

(* A request is for a customer and fits the column it is about.            *)
UsersPutOK(s) ==
    /\ put[s].pc \in {"idle", "write", "answer"} /\ DOMAIN put[s] = {"pc", "u", "field", "value"}
    /\ IF put[s].pc = "idle" THEN put[s].u = Nil
       ELSE /\ put[s].u \in Users
            /\ \/ put[s].field = "status" /\ put[s].value \in UsersPanel!Statuses
               \/ put[s].field = "level" /\ put[s].value \in UsersPanel!Levels
               \/ put[s].field = "kyc" /\ put[s].value \in UsersPanel!KycStatuses

UsersShape ==
    /\ user \in [Users -> UsersRows] /\ seen \in [UsersPanel!Queries -> [Users -> UsersRows]]
    /\ statusDlg = Nil \/ statusDlg \in [u : Users, status : UsersPanel!Statuses]
    /\ memberDlg \in Users \cup {Nil} /\ level \in UsersPanel!Levels
    /\ ~(statusDlg # Nil /\ memberDlg # Nil)
    /\ DOMAIN put = Slots /\ puts \in 0..MaxPuts /\ DOMAIN told = Users
    /\ \A s \in Slots : UsersPutOK(s)

UsersCounted == Cardinality(UsersActive) <= puts

UsersFor(s, u, field) == put[s].u = u /\ put[s].field = field

(* Nobody has two requests about the same column under way unnoticed.      *)
UsersSingle(u, field) ==
    \A s, t \in Slots : UsersFor(s, u, field) /\ UsersFor(t, u, field) => s = t

UsersStatusOK(u) ==
    u \notin twice =>
        /\ UsersSingle(u, "status")
        /\ \A s \in Slots : UsersFor(s, u, "status") /\ put[s].pc = "answer" => user[u].status = put[s].value
        /\ told[u] # Nil /\ ~UsersPanel!InFlight(u, "status") => user[u].status = told[u]

UsersKycOK(u) ==
    u \notin late =>
        /\ UsersSingle(u, "kyc")
        /\ \A s \in Slots : UsersFor(s, u, "kyc") /\ put[s].pc = "write" => user[u].kyc = "PENDING"

UsersIInv == UsersShape /\ UsersCounted /\ \A u \in Users : UsersStatusOK(u) /\ UsersKycOK(u)

(* The cardinality the instance names is that of the library.              *)
LEMMA UsersCounts ==
    ASSUME NEW S
    PROVE  /\ UsersPanel!Cardinality(S) = Cardinality(S)
           /\ UsersPanel!IsFiniteSet(S) <=> IsFiniteSet(S)
BY DEF UsersPanel!Cardinality, Cardinality, UsersPanel!IsFiniteSet, IsFiniteSet

LEMMA UsersInvInit == ASSUME UsersPanel!UsersPanelAssumption PROVE UsersPanel!Init => UsersIInv
<1> SUFFICES ASSUME UsersPanel!Init PROVE UsersIInv
  OBVIOUS
<1>1. \A s \in Slots : put[s] = UsersPanel!NoPut
  BY DEF UsersPanel!Init
<1>2. user \in [Users -> UsersRows] /\ seen \in [UsersPanel!Queries -> [Users -> UsersRows]]
  BY DEF UsersPanel!Init, UsersRows, UsersPanel!Statuses, UsersPanel!Levels, UsersPanel!KycStatuses
<1>3. UsersShape
  BY <1>1, <1>2 DEF UsersPanel!UsersPanelAssumption, UsersPanel!Init, UsersShape, UsersPutOK, UsersPanel!NoPut,
       UsersPanel!Levels
<1>4. UsersActive = {}
  BY <1>1 DEF UsersActive, UsersPanel!NoPut
<1>5. UsersCounted
  BY <1>4, FS_EmptySet DEF UsersCounted, UsersPanel!Init
<1>6. ASSUME NEW u \in Users PROVE UsersStatusOK(u) /\ UsersKycOK(u)
  <2>1. \A s \in Slots : put[s].u # u
    BY <1>1 DEF UsersPanel!UsersPanelAssumption, UsersPanel!NoPut
  <2>2. told[u] = Nil
    BY DEF UsersPanel!Init
  <2>3. QED
    BY <2>1, <2>2 DEF UsersStatusOK, UsersKycOK, UsersSingle, UsersFor
<1>7. QED
  BY <1>3, <1>5, <1>6 DEF UsersIInv

(* The steps that neither write nor send anything.                         *)
LEMMA UsersQuietStep ==
    ASSUME UsersIInv, UsersShape', UNCHANGED <<user, put, puts, twice, told, late>>
    PROVE  UsersIInv'
BY DEF UsersIInv, UsersCounted, UsersActive, UsersStatusOK, UsersKycOK, UsersSingle, UsersFor, UsersPanel!InFlight

LEMMA UsersSendStep ==
    ASSUME UsersPanel!UsersPanelAssumption, UsersIInv, NEW s \in Slots, NEW u \in Users, NEW field, NEW value,
           UsersPanel!Sends(s, u, field, value), UNCHANGED <<user, seen, told, statusDlg, memberDlg, level>>,
           \/ field = "status" /\ value \in UsersPanel!Statuses
           \/ field = "level" /\ value \in UsersPanel!Levels
           \/ field = "kyc" /\ value \in UsersPanel!KycStatuses,
           twice \subseteq twice', late \subseteq late',
           field = "status" /\ UsersPanel!InFlight(u, "status") => u \in twice',
           field = "kyc" /\ (user[u].kyc # "PENDING" \/ UsersPanel!InFlight(u, "kyc")) => u \in late'
    PROVE  UsersIInv'
<1>1. UsersShape /\ UsersCounted /\ \A v \in Users : UsersStatusOK(v) /\ UsersKycOK(v)
  BY DEF UsersIInv
<1>2. /\ puts < MaxPuts /\ puts' = puts + 1 /\ put[s].pc = "idle"
      /\ DOMAIN put' = Slots /\ put'[s] = [pc |-> "write", u |-> u, field |-> field, value |-> value]
      /\ \A t \in Slots \ {s} : put'[t] = put[t]
  BY <1>1 DEF UsersPanel!Sends, UsersShape
<1>3. puts \in Nat /\ MaxPuts \in Nat /\ put[s].u = Nil
  BY <1>1, <1>2 DEF UsersShape, UsersPutOK, UsersPanel!UsersPanelAssumption
<1>4. /\ put'[s].pc = "write" /\ put'[s].u = u /\ put'[s].field = field /\ put'[s].value = value
      /\ DOMAIN put'[s] = {"pc", "u", "field", "value"}
  BY <1>2
<1>5. \A t \in Slots : UsersPutOK(t)'
  BY <1>1, <1>2, <1>4 DEF UsersShape, UsersPutOK
<1>6. UsersShape'
  BY <1>1, <1>2, <1>3, <1>5 DEF UsersShape
<1>7. UsersCounted'
  <2>1. UsersActive' = UsersActive \cup {s} /\ s \notin UsersActive
    BY <1>2, <1>4 DEF UsersActive
  <2>2. IsFiniteSet(UsersActive)
    BY FS_Subset, UsersCounts DEF UsersActive, UsersPanel!UsersPanelAssumption
  <2>3. Cardinality(UsersActive') = Cardinality(UsersActive) + 1 /\ Cardinality(UsersActive) \in Nat
    BY <2>1, <2>2, FS_AddElement, FS_CardinalityType
  <2>4. QED
    BY <1>1, <1>2, <1>3, <2>3 DEF UsersCounted
<1>8. \A f : \A t \in Slots, v \in Users : UsersFor(t, v, f)' => UsersFor(t, v, f) \/ (t = s /\ v = u /\ f = field)
  BY <1>2, <1>4 DEF UsersFor
<1>9. \A f : \A t \in Slots, v \in Users : UsersFor(t, v, f) => UsersFor(t, v, f)' /\ put'[t] = put[t]
  BY <1>2, <1>3 DEF UsersFor, UsersPanel!UsersPanelAssumption
<1>10. ASSUME NEW v \in Users PROVE UsersStatusOK(v)'
  <2> SUFFICES ASSUME v \notin twice'
               PROVE  /\ UsersSingle(v, "status")'
                      /\ \A t \in Slots : UsersFor(t, v, "status")' /\ put'[t].pc = "answer" =>
                           user[v].status = put'[t].value
                      /\ told[v] # Nil /\ ~UsersPanel!InFlight(v, "status")' => user[v].status = told[v]
    BY DEF UsersStatusOK
  <2>1. UsersStatusOK(v) /\ v \notin twice
    BY <1>1
  <2>2. UsersSingle(v, "status")'
    <3> SUFFICES ASSUME NEW t \in Slots, NEW r \in Slots, UsersFor(t, v, "status")', UsersFor(r, v, "status")'
                 PROVE  t = r
      BY DEF UsersSingle
    <3>1. CASE v = u /\ field = "status"
      <4>1. \A x \in Slots : ~UsersFor(x, v, "status")
        BY <3>1 DEF UsersPanel!InFlight, UsersFor
      <4>2. QED
        BY <1>8, <4>1
    <3>2. CASE ~(v = u /\ field = "status")
      BY <1>8, <2>1, <3>2 DEF UsersStatusOK, UsersSingle
    <3>3. QED
      BY <3>1, <3>2
  <2>3. \A t \in Slots : UsersFor(t, v, "status")' /\ put'[t].pc = "answer" => user[v].status = put'[t].value
    BY <1>2, <1>4, <1>8, <2>1 DEF UsersStatusOK
  <2>4. ~UsersPanel!InFlight(v, "status")' => ~UsersPanel!InFlight(v, "status")
    BY <1>9 DEF UsersPanel!InFlight, UsersFor
  <2>5. QED
    BY <2>1, <2>2, <2>3, <2>4 DEF UsersStatusOK
<1>11. ASSUME NEW v \in Users PROVE UsersKycOK(v)'
  <2> SUFFICES ASSUME v \notin late'
               PROVE  /\ UsersSingle(v, "kyc")'
                      /\ \A t \in Slots : UsersFor(t, v, "kyc")' /\ put'[t].pc = "write" => user[v].kyc = "PENDING"
    BY DEF UsersKycOK
  <2>1. UsersKycOK(v) /\ v \notin late
    BY <1>1
  <2>2. UsersSingle(v, "kyc")'
    <3> SUFFICES ASSUME NEW t \in Slots, NEW r \in Slots, UsersFor(t, v, "kyc")', UsersFor(r, v, "kyc")'
                 PROVE  t = r
      BY DEF UsersSingle
    <3>1. CASE v = u /\ field = "kyc"
      <4>1. \A x \in Slots : ~UsersFor(x, v, "kyc")
        BY <3>1 DEF UsersPanel!InFlight, UsersFor
      <4>2. QED
        BY <1>8, <4>1
    <3>2. CASE ~(v = u /\ field = "kyc")
      BY <1>8, <2>1, <3>2 DEF UsersKycOK, UsersSingle
    <3>3. QED
      BY <3>1, <3>2
  <2>3. ASSUME NEW t \in Slots, UsersFor(t, v, "kyc")', put'[t].pc = "write" PROVE user[v].kyc = "PENDING"
    <3>1. CASE t = s
      BY <1>4, <2>3, <3>1 DEF UsersFor
    <3>2. CASE t # s
      BY <1>2, <1>8, <2>1, <2>3, <3>2 DEF UsersKycOK
    <3>3. QED
      BY <3>1, <3>2
  <2>4. QED
    BY <2>2, <2>3
<1>12. QED
  BY <1>6, <1>7, <1>10, <1>11 DEF UsersIInv

(* A request is written.                                                   *)
LEMMA UsersWriteStep ==
    ASSUME UsersPanel!UsersPanelAssumption, UsersIInv, NEW s \in Slots, UsersPanel!Write(s)
    PROVE  UsersIInv'
<1>1. UsersShape /\ UsersCounted /\ \A v \in Users : UsersStatusOK(v) /\ UsersKycOK(v)
  BY DEF UsersIInv
<1>2. /\ put[s].pc = "write" /\ put' = [put EXCEPT ![s].pc = "answer"]
      /\ user' = [user EXCEPT ![put[s].u] = UsersPanel!Written(@, put[s])]
      /\ UNCHANGED <<seen, puts, statusDlg, memberDlg, level, twice, told, late>>
  BY DEF UsersPanel!Write, UsersPanel!dialogs, UsersPanel!history
<1>3. UsersPutOK(s) /\ put[s].u \in Users
  BY <1>1, <1>2 DEF UsersShape, UsersPutOK
<1>4. /\ put'[s] = [put[s] EXCEPT !.pc = "answer"] /\ DOMAIN put' = Slots
      /\ \A t \in Slots \ {s} : put'[t] = put[t]
  BY <1>1, <1>2 DEF UsersShape
<1>5. /\ put'[s].pc = "answer" /\ put'[s].u = put[s].u /\ put'[s].field = put[s].field
      /\ put'[s].value = put[s].value /\ DOMAIN put'[s] = {"pc", "u", "field", "value"}
  BY <1>3, <1>4 DEF UsersPutOK
<1> DEFINE x == put[s].u
           written == UsersPanel!Written(user[x], put[s])
<1>6. /\ written \in UsersRows
      /\ put[s].field = "status" => written.status = put[s].value /\ written.kyc = user[x].kyc
      /\ put[s].field = "kyc" => written.status = user[x].status
      /\ put[s].field = "level" => written.status = user[x].status /\ written.kyc = user[x].kyc
  <2>1. user[x] \in UsersRows
    BY <1>1, <1>3 DEF UsersShape
  <2>2. CASE put[s].field = "status"
    <3>1. written = [user[x] EXCEPT !.status = put[s].value] /\ put[s].value \in UsersPanel!Statuses
      BY <1>2, <1>3, <2>2 DEF UsersPanel!Written, UsersPutOK
    <3>2. QED
      BY <2>1, <2>2, <3>1 DEF UsersRows
  <2>3. CASE put[s].field = "kyc"
    <3>1. written = [user[x] EXCEPT !.kyc = put[s].value] /\ put[s].value \in UsersPanel!KycStatuses
      BY <1>2, <1>3, <2>3 DEF UsersPanel!Written, UsersPutOK
    <3>2. QED
      BY <2>1, <2>3, <3>1 DEF UsersRows
  <2>4. CASE put[s].field = "level"
    <3>1. written = [user[x] EXCEPT !.level = put[s].value] /\ put[s].value \in UsersPanel!Levels
      BY <1>2, <1>3, <2>4 DEF UsersPanel!Written, UsersPutOK
    <3>2. QED
      BY <2>1, <2>4, <3>1 DEF UsersRows
  <2>5. QED
    BY <1>2, <1>3, <2>2, <2>3, <2>4 DEF UsersPutOK
<1>7. user'[x] = written /\ user' \in [Users -> UsersRows] /\ \A v \in Users \ {x} : user'[v] = user[v]
  BY <1>1, <1>2, <1>3, <1>6 DEF UsersShape
<1> HIDE DEF written
<1>8. UsersShape'
  <2>1. \A t \in Slots : UsersPutOK(t)'
    BY <1>1, <1>2, <1>3, <1>4, <1>5 DEF UsersShape, UsersPutOK
  <2>2. QED
    BY <1>1, <1>2, <1>4, <1>7, <2>1 DEF UsersShape
<1>9. UsersCounted'
  <2>1. UsersActive' = UsersActive
    BY <1>2, <1>4, <1>5 DEF UsersActive
  <2>2. QED
    BY <1>1, <1>2, <2>1 DEF UsersCounted
<1>10. \A v, f : \A t \in Slots : UsersFor(t, v, f)' <=> UsersFor(t, v, f)
  BY <1>4, <1>5 DEF UsersFor
<1>11. ASSUME NEW v \in Users PROVE UsersStatusOK(v)'
  <2> SUFFICES ASSUME v \notin twice
               PROVE  /\ UsersSingle(v, "status")'
                      /\ \A t \in Slots : UsersFor(t, v, "status") /\ put'[t].pc = "answer" =>
                           user'[v].status = put'[t].value
                      /\ told[v] # Nil /\ ~UsersPanel!InFlight(v, "status") => user'[v].status = told[v]
    BY <1>2, <1>10 DEF UsersStatusOK, UsersPanel!InFlight, UsersFor
  <2>1. UsersStatusOK(v)
    BY <1>1
  <2>2. UsersSingle(v, "status") /\ UsersSingle(v, "status")'
    BY <1>10, <2>1 DEF UsersStatusOK, UsersSingle
  <2>3. v # x \/ put[s].field # "status" => user'[v].status = user[v].status
    BY <1>2, <1>3, <1>6, <1>7 DEF UsersPutOK
  <2>4. ASSUME NEW t \in Slots, UsersFor(t, v, "status"), put'[t].pc = "answer"
        PROVE  user'[v].status = put'[t].value
    <3>1. CASE t = s
      BY <1>5, <1>6, <1>7, <2>4, <3>1 DEF UsersFor
    <3>2. CASE t # s
      <4>1. ~UsersFor(s, v, "status")
        BY <2>2, <2>4, <3>2 DEF UsersSingle
      <4>2. QED
        BY <1>4, <2>1, <2>3, <2>4, <3>2, <4>1 DEF UsersStatusOK, UsersFor
    <3>3. QED
      BY <3>1, <3>2
  <2>5. ASSUME told[v] # Nil, ~UsersPanel!InFlight(v, "status") PROVE user'[v].status = told[v]
    BY <2>1, <2>3, <2>5 DEF UsersStatusOK, UsersPanel!InFlight
  <2>6. QED
    BY <2>2, <2>4, <2>5
<1>12. ASSUME NEW v \in Users PROVE UsersKycOK(v)'
  <2> SUFFICES ASSUME v \notin late
               PROVE  /\ UsersSingle(v, "kyc")'
                      /\ \A t \in Slots : UsersFor(t, v, "kyc") /\ put'[t].pc = "write" => user'[v].kyc = "PENDING"
    BY <1>2, <1>10 DEF UsersKycOK
  <2>1. UsersKycOK(v)
    BY <1>1
  <2>2. UsersSingle(v, "kyc") /\ UsersSingle(v, "kyc")'
    BY <1>10, <2>1 DEF UsersKycOK, UsersSingle
  <2>3. v # x \/ put[s].field # "kyc" => user'[v].kyc = user[v].kyc
    BY <1>2, <1>3, <1>6, <1>7 DEF UsersPutOK
  <2>4. ASSUME NEW t \in Slots, UsersFor(t, v, "kyc"), put'[t].pc = "write"
        PROVE  user'[v].kyc = "PENDING"
    <3>1. t # s /\ ~UsersFor(s, v, "kyc")
      BY <1>5, <2>2, <2>4 DEF UsersSingle
    <3>2. QED
      BY <1>4, <2>1, <2>3, <2>4, <3>1 DEF UsersKycOK, UsersFor
  <2>5. QED
    BY <2>2, <2>4
<1>13. QED
  BY <1>8, <1>9, <1>11, <1>12 DEF UsersIInv

(* A request ends, saved or failed.                                        *)
LEMMA UsersEndStep ==
    ASSUME UsersPanel!UsersPanelAssumption, UsersIInv, NEW s \in Slots, UsersPanel!Saved(s) \/ UsersPanel!Failed(s)
    PROVE  UsersIInv'
<1>1. UsersShape /\ UsersCounted /\ \A v \in Users : UsersStatusOK(v) /\ UsersKycOK(v)
  BY DEF UsersIInv
<1>2. /\ put[s].pc # "idle" /\ put' = [put EXCEPT ![s] = UsersPanel!NoPut]
      /\ UNCHANGED <<user, seen, level, puts, twice, late>>
      /\ statusDlg' \in {statusDlg, Nil} /\ memberDlg' \in {memberDlg, Nil}
      /\ \/ put[s].field # "status" /\ told' = told
         \/ put[s].field = "status" /\ put[s].pc = "answer" /\ told' = [told EXCEPT ![put[s].u] = put[s].value]
         \/ put[s].field = "status" /\ told' = [told EXCEPT ![put[s].u] = Nil]
  BY DEF UsersPanel!Saved, UsersPanel!Failed, UsersPanel!dialogs
<1>3. UsersPutOK(s) /\ put[s].u \in Users
  BY <1>1, <1>2 DEF UsersShape, UsersPutOK
<1>4. put'[s] = UsersPanel!NoPut /\ DOMAIN put' = Slots /\ \A t \in Slots \ {s} : put'[t] = put[t]
  BY <1>1, <1>2 DEF UsersShape
<1>5. UsersShape'
  <2>1. \A t \in Slots : UsersPutOK(t)'
    BY <1>1, <1>4 DEF UsersShape, UsersPutOK, UsersPanel!NoPut
  <2>2. DOMAIN told' = Users
    BY <1>1, <1>2 DEF UsersShape
  <2>3. QED
    BY <1>1, <1>2, <1>4, <2>1, <2>2 DEF UsersShape
<1>6. UsersCounted'
  <2>1. UsersActive' \subseteq UsersActive
    BY <1>2, <1>4 DEF UsersActive, UsersPanel!NoPut
  <2>2. IsFiniteSet(UsersActive)
    BY FS_Subset, UsersCounts DEF UsersActive, UsersPanel!UsersPanelAssumption
  <2>3. /\ Cardinality(UsersActive') <= Cardinality(UsersActive)
        /\ Cardinality(UsersActive') \in Nat /\ Cardinality(UsersActive) \in Nat
    BY <2>1, <2>2, FS_Subset, FS_CardinalityType
  <2>4. QED
    BY <1>1, <1>2, <2>3 DEF UsersCounted, UsersShape
<1>7. \A f : \A t \in Slots, v \in Users : UsersFor(t, v, f)' <=> UsersFor(t, v, f) /\ t # s
  BY <1>4 DEF UsersFor, UsersPanel!NoPut, UsersPanel!UsersPanelAssumption
<1>8. ASSUME NEW v \in Users PROVE UsersStatusOK(v)'
  <2> SUFFICES ASSUME v \notin twice
               PROVE  /\ UsersSingle(v, "status")'
                      /\ \A t \in Slots : UsersFor(t, v, "status")' /\ put'[t].pc = "answer" =>
                           user[v].status = put'[t].value
                      /\ told'[v] # Nil /\ ~UsersPanel!InFlight(v, "status")' => user[v].status = told'[v]
    BY <1>2 DEF UsersStatusOK
  <2>1. UsersStatusOK(v)
    BY <1>1
  <2>2. UsersSingle(v, "status") /\ UsersSingle(v, "status")'
    BY <1>7, <2>1 DEF UsersStatusOK, UsersSingle
  <2>3. \A t \in Slots : UsersFor(t, v, "status")' /\ put'[t].pc = "answer" => user[v].status = put'[t].value
    BY <1>4, <1>7, <2>1 DEF UsersStatusOK
  <2>4. ASSUME told'[v] # Nil, ~UsersPanel!InFlight(v, "status")' PROVE user[v].status = told'[v]
    <3>1. \A t \in Slots : UsersFor(t, v, "status") => t = s
      BY <1>7, <2>4 DEF UsersPanel!InFlight, UsersFor
    <3>2. CASE UsersFor(s, v, "status")
      <4>1. put[s].pc = "answer" /\ told'[v] = put[s].value
        BY <1>1, <1>2, <2>4, <3>2 DEF UsersFor, UsersShape
      <4>2. QED
        BY <2>1, <3>2, <4>1 DEF UsersStatusOK
    <3>3. CASE ~UsersFor(s, v, "status")
      <4>1. told'[v] = told[v]
        BY <1>1, <1>2, <1>3, <3>3 DEF UsersFor, UsersShape
      <4>2. ~UsersPanel!InFlight(v, "status")
        BY <3>1, <3>3 DEF UsersPanel!InFlight, UsersFor
      <4>3. QED
        BY <2>1, <2>4, <4>1, <4>2 DEF UsersStatusOK
    <3>4. QED
      BY <3>2, <3>3
  <2>5. QED
    BY <2>2, <2>3, <2>4
<1>9. ASSUME NEW v \in Users PROVE UsersKycOK(v)'
  BY <1>1, <1>2, <1>4, <1>7 DEF UsersKycOK, UsersSingle
<1>10. QED
  BY <1>5, <1>6, <1>8, <1>9 DEF UsersIInv

LEMMA UsersInvStep ==
    ASSUME UsersPanel!UsersPanelAssumption
    PROVE  UsersIInv /\ [UsersPanel!Next]_(UsersPanel!vars) => UsersIInv'
<1> SUFFICES ASSUME UsersIInv, [UsersPanel!Next]_(UsersPanel!vars) PROVE UsersIInv'
  OBVIOUS
<1>1. UsersShape /\ UsersCounted /\ \A v \in Users : UsersStatusOK(v) /\ UsersKycOK(v)
  BY DEF UsersIInv
<1>2. CASE UsersPanel!Cancel \/ (\E l \in UsersPanel!Levels : UsersPanel!Select(l)) \/
             (\E u \in Users : UsersPanel!OpenMember(u))
  <2>1. UsersShape' /\ UNCHANGED <<user, put, puts, twice, told, late>>
    BY <1>1, <1>2 DEF UsersPanel!Cancel, UsersPanel!Select, UsersPanel!OpenMember, UsersShape, UsersPutOK,
         UsersPanel!history
  <2>2. QED
    BY <2>1, UsersQuietStep
<1>3. ASSUME NEW q \in UsersPanel!Queries, NEW u \in Users, UsersPanel!Got(q, u) PROVE UsersIInv'
  <2>1. /\ seen' = [seen EXCEPT ![q][u] = user[u]]
        /\ UNCHANGED <<user, statusDlg, memberDlg, level, put, puts, twice, told, late>>
    BY <1>3 DEF UsersPanel!Got, UsersPanel!dialogs, UsersPanel!history
  <2>2. seen[q] \in [Users -> UsersRows] /\ user[u] \in UsersRows
    BY <1>1, <1>3 DEF UsersShape
  <2>3. seen' \in [UsersPanel!Queries -> [Users -> UsersRows]]
    BY <1>1, <2>1, <2>2 DEF UsersShape
  <2>4. UsersShape'
    BY <1>1, <2>1, <2>3 DEF UsersShape, UsersPutOK
  <2>5. QED
    BY <2>1, <2>4, UsersQuietStep
<1>4. ASSUME NEW q \in UsersPanel!Queries, NEW u \in Users, UsersPanel!OpenStatus(q, u) PROVE UsersIInv'
  <2>1. /\ memberDlg = Nil /\ statusDlg' = [u |-> u, status |-> seen[q][u].status]
        /\ UNCHANGED <<user, seen, memberDlg, level, put, puts, twice, told, late>>
    BY <1>4 DEF UsersPanel!OpenStatus, UsersPanel!history
  <2>2. seen[q] \in [Users -> UsersRows] /\ seen[q][u] \in UsersRows /\ seen[q][u].status \in UsersPanel!Statuses
    BY <1>1, <1>4 DEF UsersShape, UsersRows
  <2>3. statusDlg' \in [u : Users, status : UsersPanel!Statuses]
    BY <2>1, <2>2
  <2>4. UsersShape'
    BY <1>1, <2>1, <2>3 DEF UsersShape, UsersPutOK
  <2>5. QED
    BY <2>1, <2>4, UsersQuietStep
<1>5. ASSUME NEW u \in Users, UsersPanel!CustomerSubmits(u) PROVE UsersIInv'
  <2>1. /\ user' = [user EXCEPT ![u].kyc = "PENDING"]
        /\ UNCHANGED <<seen, statusDlg, memberDlg, level, put, puts, twice, told, late>>
    BY <1>5 DEF UsersPanel!CustomerSubmits, UsersPanel!dialogs, UsersPanel!history
  <2>2. user[u] \in UsersRows
    BY <1>1 DEF UsersShape
  <2>3. /\ user'[u] = [user[u] EXCEPT !.kyc = "PENDING"] /\ user'[u] \in UsersRows /\ user'[u].kyc = "PENDING"
        /\ user'[u].status = user[u].status /\ \A v \in Users \ {u} : user'[v] = user[v]
    BY <1>1, <2>1, <2>2 DEF UsersShape, UsersRows, UsersPanel!KycStatuses
  <2>4. UsersShape'
    <3>1. user' \in [Users -> UsersRows]
      BY <1>1, <2>1, <2>3 DEF UsersShape
    <3>2. QED
      BY <1>1, <2>1, <3>1 DEF UsersShape, UsersPutOK
  <2>5. UsersCounted'
    BY <1>1, <2>1 DEF UsersCounted, UsersActive
  <2>6. ASSUME NEW v \in Users PROVE UsersStatusOK(v)' /\ UsersKycOK(v)'
    <3>1. user'[v].status = user[v].status /\ (user[v].kyc = "PENDING" => user'[v].kyc = "PENDING")
      BY <2>3
    <3>2. QED
      BY <1>1, <2>1, <3>1 DEF UsersStatusOK, UsersKycOK, UsersSingle, UsersFor, UsersPanel!InFlight
  <2>7. QED
    BY <2>4, <2>5, <2>6 DEF UsersIInv
<1>6. ASSUME NEW s \in Slots, UsersPanel!ConfirmStatus(s) PROVE UsersIInv'
  <2>1. statusDlg.u \in Users /\ UsersPanel!Opposite(statusDlg.status) \in UsersPanel!Statuses
    BY <1>1, <1>6 DEF UsersPanel!ConfirmStatus, UsersShape, UsersPanel!Opposite, UsersPanel!Statuses
  <2>2. QED
    BY <1>6, <2>1, UsersSendStep DEF UsersPanel!ConfirmStatus, UsersPanel!dialogs
<1>7. ASSUME NEW s \in Slots, NEW u \in Users, UsersPanel!ToggleStatus(s, u) PROVE UsersIInv'
  <2>1. UsersPanel!Opposite(seen["user"][u].status) \in UsersPanel!Statuses
    BY DEF UsersPanel!Opposite, UsersPanel!Statuses
  <2>2. QED
    BY <1>7, <2>1, UsersSendStep DEF UsersPanel!ToggleStatus, UsersPanel!dialogs
<1>8. ASSUME NEW s \in Slots, UsersPanel!ConfirmMember(s) PROVE UsersIInv'
  <2>1. memberDlg \in Users /\ level \in UsersPanel!Levels
    BY <1>1, <1>8 DEF UsersPanel!ConfirmMember, UsersShape
  <2>2. QED
    BY <1>8, <2>1, UsersSendStep DEF UsersPanel!ConfirmMember, UsersPanel!dialogs, UsersPanel!history
<1>9. ASSUME NEW s \in Slots, NEW u \in Users, NEW l \in UsersPanel!Levels, UsersPanel!SelectAtOnce(s, u, l)
      PROVE  UsersIInv'
  BY <1>9, UsersSendStep DEF UsersPanel!SelectAtOnce, UsersPanel!dialogs, UsersPanel!history
<1>10. ASSUME NEW s \in Slots, NEW u \in Users, NEW v \in {"VERIFIED", "REJECTED"}, UsersPanel!Decide(s, u, v)
       PROVE  UsersIInv'
  <2>1. v \in UsersPanel!KycStatuses
    BY DEF UsersPanel!KycStatuses
  <2>2. QED
    BY <1>10, <2>1, UsersSendStep DEF UsersPanel!Decide, UsersPanel!DecideEnabled, UsersPanel!dialogs
<1>11. ASSUME NEW s \in Slots, UsersPanel!Write(s) \/ UsersPanel!Saved(s) \/ UsersPanel!Failed(s) PROVE UsersIInv'
  BY <1>11, UsersWriteStep, UsersEndStep
<1>12. CASE UNCHANGED UsersPanel!vars
  <2>1. UsersShape'
    BY <1>1, <1>12 DEF UsersPanel!vars, UsersShape, UsersPutOK
  <2>2. QED
    BY <1>12, <2>1, UsersQuietStep DEF UsersPanel!vars
<1>13. QED
  BY <1>2, <1>3, <1>4, <1>5, <1>6, <1>7, <1>8, <1>9, <1>10, <1>11, <1>12 DEF UsersPanel!Next

LEMMA UsersInvMeans == UsersIInv => UsersPanel!TypeOK /\ UsersPanel!SavedStatusHolds
<1>1. UsersIInv => UsersPanel!TypeOK
  BY UsersCounts DEF UsersIInv, UsersShape, UsersCounted, UsersActive, UsersRows, UsersPanel!TypeOK
<1>2. UsersIInv => UsersPanel!SavedStatusHolds
  BY DEF UsersIInv, UsersStatusOK, UsersPanel!SavedStatusHolds
<1>3. QED
  BY <1>1, <1>2

LEMMA UsersStepDecides ==
    ASSUME UsersIInv, [UsersPanel!Next]_(UsersPanel!vars)
    PROVE  \A u \in Users \ late : user'[u].kyc \in {"VERIFIED", "REJECTED"} /\ user'[u].kyc # user[u].kyc
                                   => user[u].kyc = "PENDING"
<1> SUFFICES ASSUME NEW u \in Users \ late, user'[u].kyc \in {"VERIFIED", "REJECTED"},
                    user'[u].kyc # user[u].kyc
             PROVE  user[u].kyc = "PENDING"
  OBVIOUS
<1>1. UsersShape /\ UsersKycOK(u)
  BY DEF UsersIInv
<1>2. ASSUME NEW v \in Users, UsersPanel!CustomerSubmits(v) PROVE FALSE
  <2>1. user' = [user EXCEPT ![v].kyc = "PENDING"] /\ user[u] \in UsersRows /\ user[v] \in UsersRows
    BY <1>1, <1>2 DEF UsersPanel!CustomerSubmits, UsersShape
  <2>2. user'[u] = user[u] \/ user'[u] = [user[u] EXCEPT !.kyc = "PENDING"]
    BY <1>1, <2>1 DEF UsersShape
  <2>3. user'[u].kyc = user[u].kyc \/ user'[u].kyc = "PENDING"
    BY <2>1, <2>2 DEF UsersRows
  <2>4. QED
    BY <2>3
<1>3. ASSUME NEW s \in Slots, UsersPanel!Write(s) PROVE user[u].kyc = "PENDING"
  <2>1. put[s].pc = "write" /\ user' = [user EXCEPT ![put[s].u] = UsersPanel!Written(@, put[s])] /\ UsersPutOK(s)
    BY <1>1, <1>3 DEF UsersPanel!Write, UsersShape
  <2>2. put[s].u = u /\ user'[u] = [user[u] EXCEPT ![put[s].field] = put[s].value]
    BY <1>1, <2>1 DEF UsersShape, UsersPanel!Written
  <2>3. user[u] \in UsersRows
    BY <1>1 DEF UsersShape
  <2>4. put[s].field = "kyc"
    BY <2>1, <2>2, <2>3 DEF UsersPutOK, UsersRows
  <2>5. QED
    BY <1>1, <2>1, <2>2, <2>4 DEF UsersKycOK, UsersFor
<1>4. \/ user' = user
      \/ \E v \in Users : UsersPanel!CustomerSubmits(v)
      \/ \E s \in Slots : UsersPanel!Write(s)
  BY DEF UsersPanel!Next, UsersPanel!vars, UsersPanel!Cancel, UsersPanel!OpenMember, UsersPanel!Got,
       UsersPanel!OpenStatus, UsersPanel!Select, UsersPanel!ConfirmStatus, UsersPanel!ConfirmMember, UsersPanel!Saved,
       UsersPanel!Failed, UsersPanel!ToggleStatus, UsersPanel!SelectAtOnce, UsersPanel!Decide
<1>5. QED
  BY <1>2, <1>3, <1>4

LEMMA UsersHold ==
    ASSUME UsersPanel!UsersPanelAssumption
    PROVE  UsersPanel!Spec => [](UsersPanel!TypeOK /\ UsersPanel!SavedStatusHolds) /\ UsersPanel!DecidedOnce
BY UsersInvInit, UsersInvStep, UsersInvMeans, UsersStepDecides, PTL DEF UsersPanel!Spec, UsersPanel!DecidedOnce
-----------------------------------------------------------------------------
(*************************************************************************)
(* The parts together: a step of one of them leaves the others where they*)
(* are, so a behaviour of the whole is one of every part.                *)
(*************************************************************************)

LEMMA LoginIs == Spec => Login!Spec
<1>1. Init => Login!Init
  BY DEF Init
<1>2. [Next]_vars => [Login!Next]_(Login!vars)
  BY DEF Next, vars, login, Login!vars
<1>3. QED
  BY <1>1, <1>2, PTL DEF Spec, Login!Spec

LEMMA TokensIs == Spec => Tokens!Spec
<1>1. Init => Tokens!Init
  BY DEF Init
<1>2. [Next]_vars => [Tokens!Next]_(Tokens!vars)
  BY DEF Next, vars, tokens, Tokens!vars
<1>3. QED
  BY <1>1, <1>2, PTL DEF Spec, Tokens!Spec

LEMMA AdminsIs == Spec => Administrators!Spec
<1>1. Init => Administrators!Init
  BY DEF Init
<1>2. [Next]_vars => [Administrators!Next]_(Administrators!vars)
  BY DEF Next, vars, admins, Administrators!vars, Administrators!desk, Administrators!past
<1>3. QED
  BY <1>1, <1>2, PTL DEF Spec, Administrators!Spec

LEMMA SettingsIs == Spec => Settings!Spec
<1>1. Init => Settings!Init
  BY DEF Init
<1>2. [Next]_vars => [Settings!Next]_(Settings!vars)
  BY DEF Next, vars, settings, Settings!vars, Settings!page, Settings!past
<1>3. QED
  BY <1>1, <1>2, PTL DEF Spec, Settings!Spec

LEMMA UsersIs == Spec => UsersPanel!Spec
<1>1. Init => UsersPanel!Init
  BY DEF Init
<1>2. [Next]_vars => [UsersPanel!Next]_(UsersPanel!vars)
  BY DEF Next, vars, users, UsersPanel!vars
<1>3. QED
  BY <1>1, <1>2, PTL DEF Spec, UsersPanel!Spec

(* The part chosen at the start is one of the five.                        *)
PartOK == part \in {"login", "tokens", "admins", "settings", "users"}

LEMMA PartStays == Spec => []PartOK
<1>1. Init => PartOK
  BY DEF Init, PartOK
<1>2. PartOK /\ [Next]_vars => PartOK'
  BY DEF Next, vars, PartOK
<1>3. QED
  BY <1>1, <1>2, PTL DEF Spec

(* Records, requests and counters of all five parts keep their types, for  *)
(* any constants that satisfy AccessAssumption.                            *)
THEOREM TypeCorrect == Spec => []TypeOK
<1>1. Spec => [](Login!TypeOK /\ Tokens!TypeOK)
  BY LoginIs, TokensIs, LoginTypeCorrect, TokensTypes, AccessAssumption, PTL
<1>2. Spec => [](Administrators!TypeOK /\ Settings!TypeOK /\ UsersPanel!TypeOK)
  BY AdminsIs, SettingsIs, UsersIs, AdminsHold, SettingsHold, UsersHold, AccessAssumption, PTL
<1>3. /\ PartOK
      /\ Login!TypeOK /\ Tokens!TypeOK
      /\ Administrators!TypeOK /\ Settings!TypeOK /\ UsersPanel!TypeOK
      => TypeOK
  BY DEF TypeOK, PartOK
<1>4. QED
  BY <1>1, <1>2, <1>3, PartStays, PTL

(* attempts in auth.service.ts: the lockout lets through no more guesses   *)
(* of a phone than its limit and one for every other request in flight,    *)
(* for any finite number of requests and any number of restarts.           *)
THEOREM LockoutHolds == Spec => []GuessesBounded
<1>1. IsFiniteSet(Tries) /\ Login!LoginAssumption
  BY AccessAssumption, LoginCounts DEF Login!LoginAssumption
<1>2. Spec => []Login!GuessesBounded
  BY <1>1, LoginIs, LoginLockoutHolds, PTL
<1>3. Login!GuessesBounded => GuessesBounded
  BY DEF GuessesBounded
<1>4. QED
  BY <1>2, <1>3, PTL

(* refresh and logout of auth.service.ts, JwtStrategy and RolesGuard: what *)
(* was suspended, logged out or deactivated ends after one token's life at *)
(* the latest, nothing else ends a session, and somebody is left to manage *)
(* the administrators, for any customers, administrators and times.        *)
THEOREM AccessDoesEnd == Spec => []AccessEnds
<1>1. Spec => [](Tokens!SuspendedIsOut /\ Tokens!RevokedYieldsNothing /\ Tokens!OnlyLogoutRevokes)
  BY TokensIs, TokensSuspensionsEnd, TokensLogoutsRevoke, TokensSessionsLast, AccessAssumption, PTL
<1>2. Spec => [](Administrators!SomebodyManages /\ Administrators!DeactivatedIsOut)
  BY AdminsIs, AdminsHold, AccessAssumption, PTL
<1>3. /\ Tokens!SuspendedIsOut /\ Tokens!RevokedYieldsNothing /\ Tokens!OnlyLogoutRevokes
      /\ Administrators!SomebodyManages /\ Administrators!DeactivatedIsOut
      => AccessEnds
  BY DEF AccessEnds
<1>4. QED
  BY <1>1, <1>2, <1>3, PTL

(* settings/page.tsx shows what settings.service.ts serves, and users/page *)
(* .tsx announces the status the row has, unless somebody else wrote it    *)
(* meanwhile or a dialog was confirmed twice, for any number of pages.     *)
THEOREM SavesAreShown == Spec => []SavedIsShown
<1>1. Spec => [](Settings!OwnSaveShown /\ UsersPanel!SavedStatusHolds)
  BY SettingsIs, UsersIs, SettingsHold, UsersHold, AccessAssumption, PTL
<1>2. Settings!OwnSaveShown /\ UsersPanel!SavedStatusHolds => SavedIsShown
  BY DEF SavedIsShown
<1>3. QED
  BY <1>1, <1>2, PTL

(* No step takes back what another one decided: blocks last their time,    *)
(* ensureDefaults writes over no row, updateSection over no field nobody   *)
(* typed in, and no verification is decided twice.                         *)
THEOREM DecisionsStand == Spec => DecisionsHold
<1>1. Spec => Login!BlockLasts
  BY LoginIs, LoginBlocksLast, AccessAssumption, PTL
<1>2. Spec => Settings!DefaultsNeverOverwrite /\ Settings!UntouchedKept
  BY SettingsIs, SettingsHold, AccessAssumption, PTL
<1>3. Spec => UsersPanel!DecidedOnce
  BY UsersIs, UsersHold, AccessAssumption, PTL
<1>4. QED
  BY <1>1, <1>2, <1>3, PTL DEF DecisionsHold
=============================================================================
