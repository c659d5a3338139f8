--------------------------- MODULE ProgressProofs ---------------------------
(***************************************************************************)
(* Proofs about MCProgress, for any constants that satisfy                 *)
(* ProgressAssumption: any slots, accounts, customers, codes, documents,   *)
(* mock data and bounds.  Each part is proved for itself, from an          *)
(* inductive invariant of its own; the last section puts them together.    *)
(***************************************************************************)
EXTENDS MCProgress, Integers, Sequences, SequenceTheorems, FiniteSetTheorems, TLAPS

-----------------------------------------------------------------------------
(***************************************************************************)
(* The registration of the app: Registration.                              *)
(***************************************************************************)
(* A code that waits to be verified or was not sent yet has not been used, *)
(* and tokens are only kept for an account with its wallet.                *)
RegRest ==
    /\ account \in SUBSET {"user", "wallet"}
    /\ handler \in {"idle", "find", "create", "wallet"} /\ (handler = "wallet" => "user" \in account)
    /\ codes \in 0..MaxCodes /\ otp \in {0, codes}
    /\ left \in 0..Ttl /\ seconds \in 0..Ttl
    /\ spent \in [1..MaxCodes -> Nat]
    /\ \A c \in 1..MaxCodes : spent[c] <= 1 /\ (c = otp \/ c > codes => spent[c] = 0)
    /\ screen \in {"Login", "Register", "Otp", "In"}
    /\ waiting \in {"none", "register", "send", "resend"}
    /\ submit \in [Slots -> [pc : {"idle", "verify", "establish"}, code : 0..MaxCodes]]
    /\ losses \in 0..MaxLosses
RegTokens == pending \in BOOLEAN /\ (pending => account = {"user", "wallet"})
RegInv == RegRest /\ RegTokens

LEMMA RegInvInit == ASSUME Registration!RegistrationAssumption, Registration!Init PROVE RegInv
<1>1. RegRest
  BY SMT DEF Registration!RegistrationAssumption, Registration!Init, RegRest, Registration!IdleSubmit
<1>2. QED
  BY <1>1, Zenon DEF Registration!Init, RegInv, RegTokens

LEMMA RegRestStep ==
    ASSUME Registration!RegistrationAssumption, RegRest, [Registration!Next]_(Registration!vars)
    PROVE  RegRest'
<1> USE DEF Registration!RegistrationAssumption, RegRest
<1>1. CASE Registration!OpenRegister
  BY <1>1, SMT DEF Registration!OpenRegister, Registration!server
<1>1a. CASE Registration!OpenLogin
  BY <1>1a, SMT DEF Registration!OpenLogin, Registration!server
<1>1b. CASE Registration!HandleRegister
  BY <1>1b, SMT DEF Registration!HandleRegister
<1>1c. CASE Registration!Resend
  BY <1>1c, SMT DEF Registration!Resend, Registration!server
<1>2. CASE Registration!FindExisting
  BY <1>2, SMT DEF Registration!FindExisting
<1>3. CASE Registration!CreateUser
  BY <1>3, SMT DEF Registration!CreateUser, Registration!app
<1>4. CASE Registration!CreateWalletRow
  BY <1>4, SMT DEF Registration!CreateWalletRow
<1>5. CASE Registration!SendOtp
  BY <1>5, SMT DEF Registration!SendOtp
<1>6. ASSUME NEW s \in Slots, Registration!Submit(s) PROVE RegRest'
  BY <1>6, SMT DEF Registration!Submit, Registration!server
<1>7. ASSUME NEW s \in Slots, Registration!VerifyOtp(s) PROVE RegRest'
  BY <1>7, SMT DEF Registration!VerifyOtp, Registration!IdleSubmit
<1>8. ASSUME NEW s \in Slots, Registration!Establish(s) PROVE RegRest'
  BY <1>8, SMT DEF Registration!Establish, Registration!IdleSubmit, Registration!server
<1>9. ASSUME NEW s \in Slots, Registration!LoseSubmit(s) PROVE RegRest'
  BY <1>9, SMT DEF Registration!LoseSubmit, Registration!IdleSubmit, Registration!server
<1>10. CASE Registration!LogIn
  BY <1>10, SMT DEF Registration!LogIn, Registration!server
<1>11. CASE Registration!Tick
  BY <1>11, SMT DEF Registration!Tick
<1>12. CASE Registration!LoseRequest
  BY <1>12, SMT DEF Registration!LoseRequest, Registration!server
<1>13. CASE Registration!KillApp
  BY <1>13, SMT DEF Registration!KillApp, Registration!Lose, Registration!IdleSubmit, Registration!server
<1>14. CASE Registration!RestartBackend
  BY <1>14, SMT DEF Registration!RestartBackend, Registration!Lose, Registration!IdleSubmit
<1>15. CASE UNCHANGED Registration!vars
  BY <1>15 DEF Registration!vars, Registration!server, Registration!app
<1>16. QED
  BY <1>1, <1>1a, <1>1b, <1>1c, <1>2, <1>3, <1>4, <1>5, <1>6, <1>7, <1>8, <1>9, <1>10, <1>11, <1>12, <1>13, <1>14, <1>15
     DEF Registration!Next, Registration!Register

LEMMA RegTokensStep == ASSUME RegRest, RegTokens, [Registration!Next]_(Registration!vars) PROVE RegTokens'
<1> USE DEF RegTokens
<1>1. CASE Registration!CreateWalletRow
  <2>1. "user" \in account /\ account \subseteq {"user", "wallet"}
    BY <1>1 DEF Registration!CreateWalletRow, RegRest
  <2>2. account' = {"user", "wallet"}
    BY <1>1, <2>1 DEF Registration!CreateWalletRow
  <2>3. QED
    BY <1>1, <2>2, Zenon DEF Registration!CreateWalletRow
<1>2. CASE Registration!CreateUser
  <2>1. pending => account' = account
    BY <1>2, SMT DEF Registration!CreateUser
  <2>2. QED
    BY <1>2, <2>1, Zenon DEF Registration!CreateUser, Registration!app
<1>3. ASSUME NEW s \in Slots, Registration!Establish(s) PROVE RegTokens'
  BY <1>3, Zenon DEF Registration!Establish, Registration!server
<1>4. CASE Registration!LogIn \/ Registration!KillApp
  BY <1>4, Zenon DEF Registration!LogIn, Registration!KillApp, Registration!server
<1>5. ASSUME NEW s \in Slots, Registration!Submit(s) \/ Registration!VerifyOtp(s) \/ Registration!LoseSubmit(s)
      PROVE  UNCHANGED <<account, pending>>
  BY <1>5, SMT DEF Registration!Submit, Registration!VerifyOtp, Registration!LoseSubmit, Registration!server
<1>6. CASE Registration!OpenRegister \/ Registration!OpenLogin \/ Registration!HandleRegister \/
             Registration!FindExisting \/ Registration!SendOtp \/ Registration!Resend \/ Registration!Tick \/
             Registration!LoseRequest
           \/ Registration!RestartBackend \/ UNCHANGED Registration!vars
  <2>1. UNCHANGED <<account, pending>>
    BY <1>6, SMT DEF Registration!vars, Registration!server, Registration!app, Registration!OpenRegister,
         Registration!OpenLogin, Registration!HandleRegister, Registration!FindExisting, Registration!SendOtp,
         Registration!Resend, Registration!Tick, Registration!LoseRequest, Registration!RestartBackend
  <2>2. QED
    BY <2>1, Zenon
<1>7. (\E s \in Slots : Registration!Submit(s) \/ Registration!VerifyOtp(s) \/ Registration!LoseSubmit(s)) => RegTokens'
  BY <1>5, Zenon
<1>8. QED
  BY <1>1, <1>2, <1>3, <1>4, <1>6, <1>7, Zenon DEF Registration!Next, Registration!Register

LEMMA RegEntersWithTokens ==
    ASSUME RegInv, [Registration!Next]_(Registration!vars), screen = "Otp", screen' = "In"
    PROVE  pending /\ account = {"user", "wallet"}
<1>1. ASSUME NEW s \in Slots, Registration!Establish(s) PROVE pending
  BY <1>1 DEF Registration!Establish
<1>2. pending
  BY <1>1 DEF Registration!Next, Registration!vars, Registration!server, Registration!app, Registration!OpenRegister,
       Registration!OpenLogin, Registration!Register, Registration!HandleRegister, Registration!FindExisting,
       Registration!CreateUser, Registration!CreateWalletRow, Registration!SendOtp, Registration!Resend,
       Registration!Submit, Registration!VerifyOtp, Registration!LoseSubmit, Registration!LogIn, Registration!Tick,
       Registration!LoseRequest, Registration!KillApp, Registration!RestartBackend
<1>3. QED
  BY <1>2 DEF RegInv, RegTokens

LEMMA RegHolds ==
    Registration!RegistrationAssumption =>
      (Registration!Init /\ [][Registration!Next]_(Registration!vars) =>
          []Registration!TypeOK /\ []Registration!CodeUsedOnce /\ Registration!InAfterRegistration)
<1> SUFFICES ASSUME Registration!RegistrationAssumption
             PROVE  Registration!Init /\ [][Registration!Next]_(Registration!vars) =>
                    []Registration!TypeOK /\ []Registration!CodeUsedOnce /\ Registration!InAfterRegistration
  OBVIOUS
<1> DEFINE Enters == screen = "Otp" /\ screen' = "In" => pending /\ account = {"user", "wallet"}
<1>1. Registration!Init => RegInv
  BY RegInvInit
<1>2. RegInv /\ [Registration!Next]_(Registration!vars) => RegInv'
  BY RegRestStep, RegTokensStep DEF RegInv
<1>3. RegInv => Registration!TypeOK /\ Registration!CodeUsedOnce
  BY DEF RegInv, RegRest, RegTokens, Registration!TypeOK, Registration!CodeUsedOnce
<1>4. RegInv /\ [Registration!Next]_(Registration!vars) => [Enters]_(Registration!vars)
  BY RegEntersWithTokens
<1>5. Registration!InAfterRegistration <=> [][Enters]_(Registration!vars)
  BY PTL DEF Registration!InAfterRegistration
<1> HIDE DEF Enters
<1>6. QED
  BY <1>1, <1>2, <1>3, <1>4, <1>5, PTL
-----------------------------------------------------------------------------
(***************************************************************************)
(* The session the app stores: AppSession.                                 *)
(***************************************************************************)
AppRest ==
    /\ store \in AppSession!Session /\ mem \in AppSession!Session
    /\ job \in [Slots -> [pc : AppSession!Setting \cup AppSession!Ending \cup {"idle", "api"},
                         token : Accounts \cup {Nil}, user : Accounts \cup {Nil}]]
    /\ starts \in 0..MaxStarts

(* What the functions in flight have found, unless they are crossed: one   *)
(* that sets the session has the stores to itself.                         *)
AppInOrder(j) ==
    /\ job[j].pc \in {"setToken", "profile"} => mem.token = Nil /\ store.user = Nil /\ job[j].token # Nil
    /\ job[j].pc = "profile" => store.token = job[j].token
    /\ job[j].pc \in {"kyc", "setSession", "persist"} =>
          job[j].token # Nil /\ job[j].user = job[j].token /\ store.token = job[j].token
    /\ job[j].pc = "kyc" => mem.token = job[j].token /\ store = mem
    /\ job[j].pc = "setSession" =>
          (mem.token = Nil /\ store.user = Nil) \/ (mem.token = job[j].token /\ store = mem)
    /\ job[j].pc = "persist" => mem.token = job[j].token
    /\ job[j].pc = "clear" => store.user = Nil

AppResting == \A j \in Slots : job[j].pc \in {"idle", "api"}

(* The stores and the memory while the functions have not been crossed.    *)
AppStoresAgree ==
    /\ mem.user = mem.token
    /\ mem.token = Nil => store.user = Nil
    /\ mem.token # Nil /\ store.token # Nil => store.token = mem.token
    /\ store.user # Nil /\ store.token # Nil => store.user = store.token
    /\ AppResting /\ mem.token # Nil => store = mem

AppUntangled == ~AppSession!Crossed(job) /\ AppStoresAgree /\ \A j \in Slots : AppInOrder(j)
(* A session in memory has its user, tangled or not.                       *)
AppNoHalf ==
    /\ mem.token # Nil => mem.user # Nil
    /\ \A j \in Slots : job[j].pc \in {"kyc", "setSession"} => job[j].user # Nil
AppInv == AppRest /\ AppNoHalf /\ tangled \in BOOLEAN /\ (~tangled => AppUntangled)

LEMMA AppRestInit ==
    ASSUME AppSession!SessionAssumption, AppSession!Init
    PROVE  AppRest /\ AppNoHalf /\ tangled \in BOOLEAN /\ AppUntangled
<1>1. AppRest /\ AppNoHalf /\ AppUntangled
  BY SMT DEF AppSession!SessionAssumption, AppSession!Init, AppRest, AppNoHalf, AppUntangled, AppSession!Session,
       AppSession!NoSession, AppSession!IdleJob, AppSession!Crossed, AppStoresAgree, AppInOrder, AppResting,
       AppSession!Setting, AppSession!Ending
<1>2. QED
  BY <1>1, Zenon DEF AppSession!Init

LEMMA AppRestStep == ASSUME AppSession!SessionAssumption, AppRest, [AppSession!Next]_(AppSession!vars) PROVE AppRest'
<1> USE DEF AppSession!SessionAssumption, AppRest, AppSession!Session, AppSession!Setting, AppSession!Ending,
    AppSession!IdleJob, AppSession!NoSession
<1>1. ASSUME NEW j \in Slots, NEW a \in Accounts, AppSession!EstablishSession(j, a) PROVE AppRest'
  BY <1>1, SMT DEF AppSession!EstablishSession, AppSession!Start, AppSession!Become
<1>2. ASSUME NEW j \in Slots, AppSession!SubmitKyc(j) PROVE AppRest'
  BY <1>2, SMT DEF AppSession!SubmitKyc, AppSession!Start, AppSession!Become
<1>3. ASSUME NEW j \in Slots, AppSession!CallApi(j) PROVE AppRest'
  BY <1>3, SMT DEF AppSession!CallApi, AppSession!Start, AppSession!Become
<1>4. ASSUME NEW j \in Slots, AppSession!Logout(j) PROVE AppRest'
  BY <1>4, SMT DEF AppSession!Logout, AppSession!Start, AppSession!Become
<1>5. ASSUME NEW j \in Slots, AppSession!SetToken(j) PROVE AppRest'
  BY <1>5, SMT DEF AppSession!SetToken, AppSession!GoOn, AppSession!Become
<1>6. ASSUME NEW j \in Slots, AppSession!GetProfile(j) PROVE AppRest'
  BY <1>6, SMT DEF AppSession!GetProfile, AppSession!Become
<1>7. ASSUME NEW j \in Slots, AppSession!SetSession(j) PROVE AppRest'
  BY <1>7, SMT DEF AppSession!SetSession, AppSession!GoOn, AppSession!Become
<1>8. ASSUME NEW j \in Slots, AppSession!PersistUser(j) PROVE AppRest'
  BY <1>8, SMT DEF AppSession!PersistUser, AppSession!End, AppSession!Become
<1>9. ASSUME NEW j \in Slots, AppSession!KycAnswered(j) PROVE AppRest'
  BY <1>9, SMT DEF AppSession!KycAnswered, AppSession!GoOn, AppSession!Become
<1>10. ASSUME NEW j \in Slots, AppSession!Answered(j) PROVE AppRest'
  BY <1>10, SMT DEF AppSession!Answered, AppSession!End, AppSession!Become
<1>11. ASSUME NEW j \in Slots, AppSession!RequestFails(j) PROVE AppRest'
  BY <1>11, SMT DEF AppSession!RequestFails, AppSession!End, AppSession!Become
<1>12. ASSUME NEW j \in Slots, AppSession!Unauthorized(j) PROVE AppRest'
  BY <1>12, SMT DEF AppSession!Unauthorized, AppSession!GoOn, AppSession!Become
<1>13. ASSUME NEW j \in Slots, AppSession!DropTokens(j) PROVE AppRest'
  BY <1>13, SMT DEF AppSession!DropTokens, AppSession!GoOn, AppSession!Become
<1>14. ASSUME NEW j \in Slots, AppSession!DeleteToken(j) PROVE AppRest'
  BY <1>14, SMT DEF AppSession!DeleteToken, AppSession!GoOn, AppSession!Become
<1>15. ASSUME NEW j \in Slots, AppSession!DeleteUser(j) PROVE AppRest'
  BY <1>15, SMT DEF AppSession!DeleteUser, AppSession!GoOn, AppSession!Become
<1>16. ASSUME NEW j \in Slots, AppSession!Clear(j) PROVE AppRest'
  BY <1>16, SMT DEF AppSession!Clear, AppSession!End, AppSession!Become
<1>17. CASE AppSession!Relaunch
  BY <1>17, SMT DEF AppSession!Relaunch
<1>18. CASE UNCHANGED AppSession!vars
  BY <1>18 DEF AppSession!vars
<1>19. QED
  BY <1>1, <1>2, <1>3, <1>4, <1>5, <1>6, <1>7, <1>8, <1>9, <1>10, <1>11, <1>12, <1>13, <1>14, <1>15, <1>16, <1>17,
     <1>18, Zenon
     DEF AppSession!Next, AppSession!Step

LEMMA AppNoHalfStep ==
    ASSUME AppSession!SessionAssumption, AppRest, AppNoHalf, [AppSession!Next]_(AppSession!vars)
    PROVE  AppNoHalf'
<1> USE DEF AppSession!SessionAssumption, AppRest, AppNoHalf, AppSession!Session, AppSession!Setting, AppSession!Ending,
    AppSession!IdleJob, AppSession!NoSession
<1>1. ASSUME NEW j \in Slots, NEW a \in Accounts, AppSession!EstablishSession(j, a) PROVE AppNoHalf'
  BY <1>1, SMT DEF AppSession!EstablishSession, AppSession!Start, AppSession!Become
<1>2. ASSUME NEW j \in Slots, AppSession!SubmitKyc(j) PROVE AppNoHalf'
  BY <1>2, SMT DEF AppSession!SubmitKyc, AppSession!Start, AppSession!Become
<1>3. ASSUME NEW j \in Slots, AppSession!CallApi(j) PROVE AppNoHalf'
  BY <1>3, SMT DEF AppSession!CallApi, AppSession!Start, AppSession!Become
<1>4. ASSUME NEW j \in Slots, AppSession!Logout(j) PROVE AppNoHalf'
  BY <1>4, SMT DEF AppSession!Logout, AppSession!Start, AppSession!Become
<1>5. ASSUME NEW j \in Slots, AppSession!SetToken(j) PROVE AppNoHalf'
  BY <1>5, SMT DEF AppSession!SetToken, AppSession!GoOn, AppSession!Become
<1>6. ASSUME NEW j \in Slots, AppSession!GetProfile(j) PROVE AppNoHalf'
  BY <1>6, SMT DEF AppSession!GetProfile, AppSession!Become
<1>7. ASSUME NEW j \in Slots, AppSession!SetSession(j) PROVE AppNoHalf'
  BY <1>7, SMT DEF AppSession!SetSession, AppSession!GoOn, AppSession!Become
<1>8. ASSUME NEW j \in Slots, AppSession!PersistUser(j) PROVE AppNoHalf'
  BY <1>8, SMT DEF AppSession!PersistUser, AppSession!End, AppSession!Become
<1>9. ASSUME NEW j \in Slots, AppSession!KycAnswered(j) PROVE AppNoHalf'
  BY <1>9, SMT DEF AppSession!KycAnswered, AppSession!GoOn, AppSession!Become
<1>10. ASSUME NEW j \in Slots, AppSession!Answered(j) PROVE AppNoHalf'
  BY <1>10, SMT DEF AppSession!Answered, AppSession!End, AppSession!Become
<1>11. ASSUME NEW j \in Slots, AppSession!RequestFails(j) PROVE AppNoHalf'
  BY <1>11, SMT DEF AppSession!RequestFails, AppSession!End, AppSession!Become
<1>12. ASSUME NEW j \in Slots, AppSession!Unauthorized(j) PROVE AppNoHalf'
  BY <1>12, SMT DEF AppSession!Unauthorized, AppSession!GoOn, AppSession!Become
<1>13. ASSUME NEW j \in Slots, AppSession!DropTokens(j) PROVE AppNoHalf'
  BY <1>13, SMT DEF AppSession!DropTokens, AppSession!GoOn, AppSession!Become
<1>14. ASSUME NEW j \in Slots, AppSession!DeleteToken(j) PROVE AppNoHalf'
  BY <1>14, SMT DEF AppSession!DeleteToken, AppSession!GoOn, AppSession!Become
<1>15. ASSUME NEW j \in Slots, AppSession!DeleteUser(j) PROVE AppNoHalf'
  BY <1>15, SMT DEF AppSession!DeleteUser, AppSession!GoOn, AppSession!Become
<1>16. ASSUME NEW j \in Slots, AppSession!Clear(j) PROVE AppNoHalf'
  BY <1>16, SMT DEF AppSession!Clear, AppSession!End, AppSession!Become
<1>17. CASE AppSession!Relaunch
  BY <1>17, SMT DEF AppSession!Relaunch
<1>18. CASE UNCHANGED AppSession!vars
  BY <1>18 DEF AppSession!vars
<1>19. QED
  BY <1>1, <1>2, <1>3, <1>4, <1>5, <1>6, <1>7, <1>8, <1>9, <1>10, <1>11, <1>12, <1>13, <1>14, <1>15, <1>16, <1>17,
     <1>18, Zenon
     DEF AppSession!Next, AppSession!Step

LEMMA AppUntangledStart ==
    ASSUME AppSession!SessionAssumption, AppRest, AppNoHalf, AppUntangled, NEW j \in Slots, ~AppSession!Crossed(job'),
           \/ \E a \in Accounts : AppSession!EstablishSession(j, a)
           \/ AppSession!SubmitKyc(j) \/ AppSession!CallApi(j) \/ AppSession!Logout(j)
    PROVE  AppUntangled'
<1> USE DEF AppSession!SessionAssumption, AppRest, AppNoHalf, AppSession!Session, AppSession!Setting, AppSession!Ending,
    AppSession!IdleJob, AppSession!NoSession, AppUntangled, AppStoresAgree, AppInOrder, AppResting
<1>1. ASSUME NEW a \in Accounts, AppSession!EstablishSession(j, a) PROVE AppUntangled'
  BY <1>1, SMT DEF AppSession!EstablishSession, AppSession!Start, AppSession!Become
<1>2. CASE AppSession!SubmitKyc(j)
  BY <1>2, SMT DEF AppSession!SubmitKyc, AppSession!Start, AppSession!Become, AppSession!Crossed
<1>3. CASE AppSession!CallApi(j)
  BY <1>3, SMT DEF AppSession!CallApi, AppSession!Start, AppSession!Become
<1>4. CASE AppSession!Logout(j)
  BY <1>4, SMT DEF AppSession!Logout, AppSession!Start, AppSession!Become
<1>5. QED
  BY <1>1, <1>2, <1>3, <1>4, Zenon

LEMMA AppUntangledStep ==
    ASSUME AppSession!SessionAssumption, AppRest, AppNoHalf, AppUntangled, NEW j \in Slots, AppSession!Step(j),
           ~AppSession!Crossed(job')
    PROVE  AppUntangled'
<1> USE DEF AppSession!SessionAssumption, AppRest, AppNoHalf, AppSession!Session, AppSession!Setting, AppSession!Ending,
    AppSession!IdleJob, AppSession!NoSession, AppUntangled, AppStoresAgree, AppInOrder, AppResting
<1>1. CASE AppSession!SetToken(j)
  BY <1>1, SMT DEF AppSession!SetToken, AppSession!GoOn, AppSession!Become, AppSession!Crossed
<1>2. CASE AppSession!GetProfile(j)
  BY <1>2, SMT DEF AppSession!GetProfile, AppSession!Become, AppSession!Crossed
<1>3. CASE AppSession!SetSession(j)
  BY <1>3, SMT DEF AppSession!SetSession, AppSession!GoOn, AppSession!Become, AppSession!Crossed
<1>4. CASE AppSession!PersistUser(j)
  BY <1>4, SMT DEF AppSession!PersistUser, AppSession!End, AppSession!Become, AppSession!Crossed
<1>5. CASE AppSession!KycAnswered(j)
  BY <1>5, SMT DEF AppSession!KycAnswered, AppSession!GoOn, AppSession!Become, AppSession!Crossed
<1>6. CASE AppSession!Answered(j)
  BY <1>6, SMT DEF AppSession!Answered, AppSession!End, AppSession!Become, AppSession!Crossed
<1>7. CASE AppSession!RequestFails(j)
  BY <1>7, SMT DEF AppSession!RequestFails, AppSession!End, AppSession!Become, AppSession!Crossed
<1>8. CASE AppSession!Unauthorized(j)
  BY <1>8, SMT DEF AppSession!Unauthorized, AppSession!GoOn, AppSession!Become, AppSession!Crossed
<1>9. CASE AppSession!DropTokens(j)
  BY <1>9, SMT DEF AppSession!DropTokens, AppSession!GoOn, AppSession!Become, AppSession!Crossed
<1>10. CASE AppSession!DeleteToken(j)
  BY <1>10, SMT DEF AppSession!DeleteToken, AppSession!GoOn, AppSession!Become, AppSession!Crossed
<1>11. CASE AppSession!DeleteUser(j)
  BY <1>11, SMT DEF AppSession!DeleteUser, AppSession!GoOn, AppSession!Become, AppSession!Crossed
<1>12. CASE AppSession!Clear(j)
  BY <1>12, SMT DEF AppSession!Clear, AppSession!End, AppSession!Become, AppSession!Crossed
<1>13. QED
  BY <1>1, <1>2, <1>3, <1>4, <1>5, <1>6, <1>7, <1>8, <1>9, <1>10, <1>11, <1>12, Zenon DEF AppSession!Step

LEMMA AppBooleanStep == ASSUME tangled \in BOOLEAN, [AppSession!Next]_(AppSession!vars) PROVE tangled' \in BOOLEAN
<1>1. \A j, frame : AppSession!Become(j, frame) => tangled' \in BOOLEAN
  BY Zenon DEF AppSession!Become
<1>2. QED
  BY <1>1, Zenon DEF AppSession!Next, AppSession!Step, AppSession!EstablishSession, AppSession!SetToken,
       AppSession!GetProfile, AppSession!SetSession, AppSession!PersistUser, AppSession!SubmitKyc,
       AppSession!KycAnswered, AppSession!CallApi, AppSession!Answered, AppSession!RequestFails,
       AppSession!Unauthorized, AppSession!DropTokens, AppSession!Logout, AppSession!DeleteToken, AppSession!DeleteUser,
       AppSession!Clear, AppSession!Relaunch, AppSession!Start, AppSession!GoOn, AppSession!End, AppSession!vars

(* A step that leaves the session untangled met and left it untangled.     *)
LEMMA AppUntangling ==
    ASSUME [AppSession!Next]_(AppSession!vars), ~tangled'
    PROVE  /\ ~tangled
           /\ \/ \E j \in Slots : /\ ~AppSession!Crossed(job')
                                  /\ \/ \E a \in Accounts : AppSession!EstablishSession(j, a)
                                     \/ AppSession!SubmitKyc(j) \/ AppSession!CallApi(j) \/ AppSession!Logout(j) \/
                                          AppSession!Step(j)
              \/ AppSession!Relaunch /\ ~(store.token = Nil /\ store.user # Nil)
              \/ UNCHANGED AppSession!vars
<1>1. ASSUME NEW j, NEW frame, AppSession!Become(j, frame) PROVE ~tangled /\ ~AppSession!Crossed(job')
  BY <1>1, Zenon DEF AppSession!Become
<1>2. ASSUME NEW j \in Slots, NEW a \in Accounts, AppSession!EstablishSession(j, a)
      PROVE  ~tangled /\ ~AppSession!Crossed(job')
  BY <1>1, <1>2, Zenon DEF AppSession!EstablishSession, AppSession!Start
<1>3. ASSUME NEW j \in Slots, AppSession!SubmitKyc(j) \/ AppSession!CallApi(j) \/ AppSession!Logout(j)
      PROVE  ~tangled /\ ~AppSession!Crossed(job')
  BY <1>1, <1>3, Zenon DEF AppSession!SubmitKyc, AppSession!CallApi, AppSession!Logout, AppSession!Start
<1>4. ASSUME NEW j \in Slots, AppSession!Step(j) PROVE ~tangled /\ ~AppSession!Crossed(job')
  BY <1>1, <1>4, Zenon DEF AppSession!Step, AppSession!SetToken, AppSession!GetProfile, AppSession!SetSession,
       AppSession!PersistUser, AppSession!KycAnswered, AppSession!Answered, AppSession!RequestFails,
       AppSession!Unauthorized, AppSession!DropTokens, AppSession!DeleteToken, AppSession!DeleteUser, AppSession!Clear,
       AppSession!GoOn, AppSession!End
<1>5. CASE AppSession!Relaunch
  BY <1>5, Zenon DEF AppSession!Relaunch
<1>6. CASE UNCHANGED AppSession!vars
  BY <1>6, Zenon DEF AppSession!vars
<1>7. QED
  BY <1>2, <1>3, <1>4, <1>5, <1>6, Zenon DEF AppSession!Next

LEMMA AppInvStep == ASSUME AppSession!SessionAssumption, AppInv, [AppSession!Next]_(AppSession!vars) PROVE AppInv'
<1>1. AppRest' /\ AppNoHalf' /\ tangled' \in BOOLEAN
  BY AppRestStep, AppNoHalfStep, AppBooleanStep DEF AppInv
<1>2. ASSUME ~tangled' PROVE AppUntangled'
  <2>1. AppUntangled
    BY <1>2, AppUntangling DEF AppInv
  <2>2. CASE AppSession!Relaunch /\ ~(store.token = Nil /\ store.user # Nil)
    BY <2>1, <2>2, SMT DEF AppSession!Relaunch, AppInv, AppRest, AppUntangled, AppStoresAgree, AppInOrder, AppResting,
         AppSession!Crossed, AppSession!Session, AppSession!NoSession, AppSession!IdleJob, AppSession!Setting,
         AppSession!Ending, AppSession!SessionAssumption
  <2>3. CASE UNCHANGED AppSession!vars
    BY <2>1, <2>3 DEF AppSession!vars, AppUntangled, AppStoresAgree, AppInOrder, AppResting, AppSession!Crossed
  <2>4. QED
    BY <1>2, <2>1, <2>2, <2>3, AppUntangling, AppUntangledStart, AppUntangledStep, Zenon DEF AppInv
<1>3. QED
  BY <1>1, <1>2, Zenon DEF AppInv

(* Who is signed in by a step was signing in: a restart finds a session    *)
(* only where there was one.                                               *)
LEMMA AppSignsIn ==
    ASSUME AppSession!SessionAssumption, AppInv, [AppSession!Next]_(AppSession!vars), mem.token = Nil, mem'.token # Nil,
           ~tangled
    PROVE  \E j \in Slots : job[j].pc = "setSession"
<1>1. AppUntangled
  BY DEF AppInv
<1>2. CASE AppSession!Relaunch
  BY <1>1, <1>2, SMT DEF AppSession!Relaunch, AppUntangled, AppStoresAgree, AppSession!NoSession
<1>3. ASSUME NEW j \in Slots, AppSession!SetSession(j) PROVE job[j].pc = "setSession"
  BY <1>3 DEF AppSession!SetSession
<1>4. ASSUME NEW j \in Slots, AppSession!Clear(j) PROVE FALSE
  BY <1>4, SMT DEF AppSession!Clear, AppSession!NoSession
<1>5. \/ mem' = mem \/ AppSession!Relaunch \/ \E j \in Slots : AppSession!SetSession(j) \/ AppSession!Clear(j)
  BY Zenon DEF AppSession!Next, AppSession!Step, AppSession!EstablishSession, AppSession!SetToken,
       AppSession!GetProfile, AppSession!PersistUser, AppSession!SubmitKyc, AppSession!KycAnswered, AppSession!CallApi,
       AppSession!Answered, AppSession!RequestFails, AppSession!Unauthorized, AppSession!DropTokens, AppSession!Logout,
       AppSession!DeleteToken, AppSession!DeleteUser, AppSession!Start, AppSession!vars
<1>6. QED
  BY <1>2, <1>3, <1>4, <1>5, Zenon

LEMMA AppHolds ==
    AppSession!SessionAssumption => (AppSession!Init /\ [][AppSession!Next]_(AppSession!vars) =>
        []AppSession!TypeOK /\ []AppSession!ShowsItsOwner /\ []AppSession!RestartKeepsSession /\
          AppSession!RestartSignsNobodyIn)
<1> SUFFICES ASSUME AppSession!SessionAssumption
             PROVE  AppSession!Init /\ [][AppSession!Next]_(AppSession!vars) =>
                    []AppSession!TypeOK /\ []AppSession!ShowsItsOwner /\ []AppSession!RestartKeepsSession /\
                        AppSession!RestartSignsNobodyIn
  OBVIOUS
<1> DEFINE Signs == mem.token = Nil /\ mem'.token # Nil /\ ~tangled => \E j \in Slots : job[j].pc = "setSession"
<1>1. AppSession!Init => AppInv
  BY AppRestInit, Zenon DEF AppInv
<1>2. AppInv /\ [AppSession!Next]_(AppSession!vars) => AppInv'
  BY AppInvStep
<1>3. AppInv => AppSession!TypeOK
  BY Zenon DEF AppInv, AppRest, AppNoHalf, AppSession!TypeOK
<1>4. AppInv => AppSession!ShowsItsOwner
  BY Zenon DEF AppInv, AppUntangled, AppStoresAgree, AppSession!ShowsItsOwner
<1>5. AppInv => AppSession!RestartKeepsSession
  BY SMT DEF AppInv, AppUntangled, AppStoresAgree, AppResting, AppSession!RestartKeepsSession
<1>6. AppInv /\ [AppSession!Next]_(AppSession!vars) => [Signs]_(AppSession!vars)
  BY AppSignsIn, Zenon
<1>7. AppSession!RestartSignsNobodyIn <=> [][Signs]_(AppSession!vars)
  BY PTL DEF AppSession!RestartSignsNobodyIn
<1> HIDE DEF Signs
<1>8. QED
  BY <1>1, <1>2, <1>3, <1>4, <1>5, <1>6, <1>7, PTL
-----------------------------------------------------------------------------
(***************************************************************************)
(* The sessions of the panel: PanelSession.                                *)
(***************************************************************************)
PanShape ==
    /\ owner \in Seq(Accounts) /\ Len(owner) <= MaxLogins
    /\ expired \subseteq DOMAIN owner
    /\ stored \in 0..Len(owner) /\ snapshot \in Accounts \cup {Nil}
    /\ persisted \in [token : 0..Len(owner), admin : Accounts \cup {Nil}]
    /\ tab \in [Slots -> [page : {"login", "panel"}, store : [token : 0..Len(owner), admin : Accounts \cup {Nil}]]]
    /\ \A t \in Slots : tab[t].page = "panel" <=> tab[t].store.token # 0
    /\ form \in [Slots -> Accounts \cup {Nil}] /\ call \in [Slots -> (0..Len(owner)) \cup {Nil}]
PanCrossings == crossed \in [Slots -> BOOLEAN]

(* Token and snapshot are those of one administrator.                      *)
PanTogether == stored # 0 => snapshot = owner[stored]
PanInv == PanShape /\ PanCrossings /\ PanTogether /\ PanelSession!ShowsWhoActs

LEMMA PanInvInit == ASSUME PanelSession!PanelSessionAssumption, PanelSession!Init PROVE PanInv
<1>1. PanShape /\ PanTogether /\ PanelSession!ShowsWhoActs
  BY SMT DEF PanelSession!PanelSessionAssumption, PanelSession!Init, PanShape, PanTogether, PanelSession!ShowsWhoActs,
       PanelSession!Empty
<1>2. QED
  BY <1>1, Zenon DEF PanInv, PanCrossings, PanelSession!Init

LEMMA PanShapeStep ==
    ASSUME PanelSession!PanelSessionAssumption, PanShape, [PanelSession!Next]_(PanelSession!vars)
    PROVE  PanShape'
<1> USE DEF PanelSession!PanelSessionAssumption, PanShape
<1>1. ASSUME NEW t \in Slots, NEW a \in Accounts, PanelSession!SubmitLogin(t, a) PROVE PanShape'
  BY <1>1, SMT DEF PanelSession!SubmitLogin, PanelSession!shared
<1>2. ASSUME NEW t \in Slots, PanelSession!Open(t) PROVE PanShape'
  BY <1>2, SMT DEF PanelSession!Open, PanelSession!Load, PanelSession!SetStore
<1>3. ASSUME NEW t \in Slots, PanelSession!LoggedIn(t) PROVE PanShape'
  BY <1>3, SMT DEF PanelSession!LoggedIn, PanelSession!SetStore
<1>4. ASSUME NEW t \in Slots, PanelSession!Unauthorized(t) PROVE PanShape'
  BY <1>4, SMT DEF PanelSession!Unauthorized, PanelSession!Load, PanelSession!SetStore
<1>5. ASSUME NEW t \in Slots, PanelSession!Request(t) PROVE PanShape'
  BY <1>5, SMT DEF PanelSession!Request, PanelSession!shared
<1>6. ASSUME NEW t \in Slots, PanelSession!Answered(t), ~PanelSession!Unauthorized(t) PROVE PanShape'
  BY <1>6, SMT DEF PanelSession!Answered, PanelSession!shared
<1>7. ASSUME NEW t \in Slots, PanelSession!Failed(t) PROVE PanShape'
  BY <1>7, SMT DEF PanelSession!Failed, PanelSession!shared
<1>8. ASSUME NEW t \in Slots, PanelSession!Logout(t) PROVE PanShape'
  BY <1>8, SMT DEF PanelSession!Logout, PanelSession!SetStore, PanelSession!Empty
<1>9. ASSUME NEW i \in PanelSession!Tokens, PanelSession!Expire(i) PROVE PanShape'
  BY <1>9, SMT DEF PanelSession!Expire
<1>10. CASE UNCHANGED PanelSession!vars
  BY <1>10 DEF PanelSession!vars, PanelSession!shared
<1>11. QED
  BY <1>1, <1>2, <1>3, <1>4, <1>5, <1>6, <1>7, <1>8, <1>9, <1>10 DEF PanelSession!Next, PanelSession!LoginRefused

LEMMA PanCrossingsStep == ASSUME PanCrossings, [PanelSession!Next]_(PanelSession!vars) PROVE PanCrossings'
BY Zenon DEF PanCrossings, PanelSession!Next, PanelSession!LoginRefused, PanelSession!SubmitLogin, PanelSession!Open,
     PanelSession!LoggedIn, PanelSession!Unauthorized, PanelSession!Request, PanelSession!Answered, PanelSession!Failed,
     PanelSession!Logout, PanelSession!Expire, PanelSession!Load, PanelSession!vars, PanelSession!shared

LEMMA PanTogetherStep ==
    ASSUME PanelSession!PanelSessionAssumption, PanShape, PanTogether, [PanelSession!Next]_(PanelSession!vars)
    PROVE  PanTogether'
<1> USE DEF PanelSession!PanelSessionAssumption, PanShape, PanTogether
<1>1. ASSUME NEW t \in Slots, PanelSession!LoggedIn(t) PROVE PanTogether'
  BY <1>1, SMT DEF PanelSession!LoggedIn, PanelSession!SetStore
<1>2. ASSUME NEW t \in Slots, PanelSession!Unauthorized(t) PROVE PanTogether'
  BY <1>2, SMT DEF PanelSession!Unauthorized, PanelSession!Load, PanelSession!SetStore
<1>3. ASSUME NEW t \in Slots, PanelSession!Logout(t) PROVE PanTogether'
  BY <1>3, SMT DEF PanelSession!Logout
<1>4. ASSUME UNCHANGED <<owner, stored, snapshot>> PROVE PanTogether'
  BY <1>4
<1>5. QED
  BY <1>1, <1>2, <1>3, <1>4, Zenon DEF PanelSession!Next, PanelSession!LoginRefused, PanelSession!SubmitLogin,
       PanelSession!Open, PanelSession!Request, PanelSession!Answered, PanelSession!Failed, PanelSession!Expire,
       PanelSession!vars, PanelSession!shared

(* A tab that loads shows the snapshot; a login elsewhere makes it a       *)
(* crossed one.                                                            *)
LEMMA PanShowsStep ==
    ASSUME PanelSession!PanelSessionAssumption, PanShape, PanCrossings, PanTogether, PanelSession!ShowsWhoActs,
           [PanelSession!Next]_(PanelSession!vars)
    PROVE  PanelSession!ShowsWhoActs'
<1> USE DEF PanelSession!PanelSessionAssumption, PanShape, PanTogether, PanelSession!ShowsWhoActs
<1>1. ASSUME NEW t \in Slots, NEW tok, tok = stored, PanelSession!Load(t, tok), UNCHANGED <<owner, stored, snapshot>>
      PROVE  PanelSession!ShowsWhoActs'
  <2>1. \A u \in Slots : u # t => tab'[u] = tab[u]
    BY <1>1, SMT DEF PanelSession!Load, PanelSession!SetStore
  <2>2. \A u \in Slots : u # t /\ ~crossed'[u] => ~crossed[u]
    BY <1>1, Zenon DEF PanelSession!Load, PanCrossings
  <2>3. tab'[t].store.admin = snapshot
    BY <1>1, SMT DEF PanelSession!Load, PanelSession!SetStore
  <2>4. QED
    BY <1>1, <2>1, <2>2, <2>3, Zenon
<1>2. ASSUME NEW t \in Slots, PanelSession!LoggedIn(t) PROVE PanelSession!ShowsWhoActs'
  <2>1. \A u \in Slots : u # t => crossed'[u]
    BY <1>2, Zenon DEF PanelSession!LoggedIn
  <2>2. tab'[t].store.admin = owner'[stored']
    BY <1>2, SMT DEF PanelSession!LoggedIn, PanelSession!SetStore
  <2>3. QED
    BY <2>1, <2>2, Zenon
<1>3. ASSUME NEW t \in Slots, PanelSession!Unauthorized(t) PROVE PanelSession!ShowsWhoActs'
  BY <1>3, Zenon DEF PanelSession!Unauthorized
<1>4. ASSUME NEW t \in Slots, PanelSession!Logout(t) PROVE PanelSession!ShowsWhoActs'
  BY <1>4, Zenon DEF PanelSession!Logout
<1>5. ASSUME UNCHANGED <<owner, stored, tab, crossed>> PROVE PanelSession!ShowsWhoActs'
  BY <1>5, Zenon
<1>6. ASSUME NEW t \in Slots, PanelSession!Open(t) PROVE PanelSession!ShowsWhoActs'
  BY <1>1, <1>6, Zenon DEF PanelSession!Open
<1>7. QED
  BY <1>2, <1>3, <1>4, <1>5, <1>6, Zenon DEF PanelSession!Next, PanelSession!LoginRefused, PanelSession!SubmitLogin,
       PanelSession!Request, PanelSession!Answered, PanelSession!Failed, PanelSession!Expire, PanelSession!vars,
       PanelSession!shared

LEMMA PanEntersStep ==
    ASSUME PanelSession!PanelSessionAssumption, PanShape, [PanelSession!Next]_(PanelSession!vars), NEW t \in Slots,
           tab[t].page = "login", tab'[t].page = "panel"
    PROVE  stored' # 0
<1> USE DEF PanelSession!PanelSessionAssumption, PanShape
<1>1. ASSUME NEW u \in Slots, PanelSession!LoggedIn(u) PROVE stored' # 0
  BY <1>1, SMT DEF PanelSession!LoggedIn
<1>2. ASSUME NEW u \in Slots, NEW tok, PanelSession!Load(u, tok) PROVE tok # 0
  BY <1>2, SMT DEF PanelSession!Load, PanelSession!SetStore
<1>3. ASSUME NEW u \in Slots, PanelSession!Open(u) PROVE stored' # 0
  BY <1>2, <1>3, Zenon DEF PanelSession!Open
<1>4. ASSUME NEW u \in Slots, PanelSession!Unauthorized(u) PROVE FALSE
  BY <1>2, <1>4, Zenon DEF PanelSession!Unauthorized
<1>5. ASSUME NEW u \in Slots, PanelSession!Logout(u) PROVE FALSE
  BY <1>5, SMT DEF PanelSession!Logout, PanelSession!SetStore
<1>6. tab' # tab
  BY SMT
<1>7. QED
  BY <1>1, <1>3, <1>4, <1>5, <1>6, Zenon DEF PanelSession!Next, PanelSession!LoginRefused, PanelSession!SubmitLogin,
       PanelSession!Request, PanelSession!Answered, PanelSession!Failed, PanelSession!Expire, PanelSession!vars,
       PanelSession!shared

LEMMA PanHolds ==
    PanelSession!PanelSessionAssumption =>
      (PanelSession!Init /\ [][PanelSession!Next]_(PanelSession!vars) =>
          []PanelSession!TypeOK /\ []PanelSession!ShowsWhoActs /\ PanelSession!SignedOutStaysOut)
<1> SUFFICES ASSUME PanelSession!PanelSessionAssumption
             PROVE  PanelSession!Init /\ [][PanelSession!Next]_(PanelSession!vars) =>
                    []PanelSession!TypeOK /\ []PanelSession!ShowsWhoActs /\ PanelSession!SignedOutStaysOut
  OBVIOUS
<1> DEFINE Enters == \A t \in Slots : tab[t].page = "login" /\ tab'[t].page = "panel" => stored' # 0
<1>1. PanelSession!Init => PanInv
  BY PanInvInit
<1>2. PanInv /\ [PanelSession!Next]_(PanelSession!vars) => PanInv'
  BY PanShapeStep, PanCrossingsStep, PanTogetherStep, PanShowsStep, Zenon DEF PanInv
<1>3. PanShape => /\ owner \in Seq(Accounts) /\ Len(owner) <= MaxLogins
                  /\ expired \subseteq DOMAIN owner
                  /\ stored \in 0..Len(owner) /\ snapshot \in Accounts \cup {Nil}
                  /\ persisted \in [token : 0..Len(owner), admin : Accounts \cup {Nil}]
                  /\ \A t \in Slots :
                        /\ tab[t].page \in {"login", "panel"}
                        /\ tab[t].page = "panel" <=> tab[t].store.token # 0
                        /\ form[t] \in Accounts \cup {Nil} /\ (call[t] = Nil \/ call[t] \in 0..Len(owner))
  BY SMT DEF PanShape
<1>4. PanInv => PanelSession!TypeOK /\ PanelSession!ShowsWhoActs
  BY <1>3, Zenon DEF PanInv, PanCrossings, PanelSession!TypeOK
<1>5. PanInv /\ [PanelSession!Next]_(PanelSession!vars) => [Enters]_(PanelSession!vars)
  BY PanEntersStep, Zenon DEF PanInv
<1>6. PanelSession!SignedOutStaysOut <=> [][Enters]_(PanelSession!vars)
  BY PTL DEF PanelSession!SignedOutStaysOut
<1> HIDE DEF Enters
<1>7. QED
  BY <1>1, <1>2, <1>4, <1>5, <1>6, PTL
-----------------------------------------------------------------------------
(***************************************************************************)
(* The verification of a customer: Kyc.                                    *)
(***************************************************************************)
KycShape ==
    /\ status \in Kyc!KycStatus
    /\ local \in Kyc!KycStatus \cup {Nil}
    /\ row \in 0..docs /\ file \in 0..docs /\ docs \in 0..MaxDocs
    /\ filing \in [Slots -> [pc : {"idle", "write", "update"}, doc : 0..docs, late : BOOLEAN]]
    /\ panel \in [Accounts -> {Nil} \cup [status : Kyc!KycStatus, doc : 0..docs]]
    /\ reviews \in 0..MaxReviews

KycUpdates(t) == filing[t].pc = "update"

(* The file is the row's, or of the one handler that has written the file  *)
(* and not yet the row; with two of them one will leave the row torn.      *)
KycFileIsKnown ==
    /\ (\A t \in Slots : ~KycUpdates(t)) => file = row
    /\ \A t \in Slots : KycUpdates(t) /\ (\A s \in Slots : KycUpdates(s) => s = t) => file = filing[t].doc

KycNotLate == \A t \in Slots : filing[t].late = FALSE
KycInv == KycShape /\ KycNotLate /\ (~torn => KycFileIsKnown)

LEMMA KycInit == ASSUME Kyc!KycAssumption, Kyc!Init PROVE KycShape /\ KycNotLate /\ KycFileIsKnown
BY SMT DEF Kyc!KycAssumption, Kyc!Init, KycShape, KycNotLate, KycFileIsKnown, KycUpdates, Kyc!IdleJob, Kyc!KycStatus

LEMMA KycShapeStep == ASSUME Kyc!KycAssumption, KycShape, [Kyc!Next]_(Kyc!vars) PROVE KycShape'
<1> USE DEF Kyc!KycAssumption, KycShape, Kyc!KycStatus, Kyc!IdleJob
<1>1. CASE Kyc!LogIn \/ Kyc!Expire
  BY <1>1, SMT DEF Kyc!LogIn, Kyc!Expire, Kyc!server, Kyc!desk
<1>2. ASSUME NEW t \in Slots, Kyc!SubmitKyc(t) PROVE KycShape'
  <2>1. docs' = docs + 1 /\ docs' \in 0..MaxDocs /\ UNCHANGED <<status, row, file, local, panel, reviews>>
    BY <1>2, SMT DEF Kyc!SubmitKyc, Kyc!desk
  <2>2. 0..docs \subseteq 0..docs'
    BY <2>1, SMT
  <2>3. filing' = filing \/ filing' = [filing EXCEPT ![t] = [pc |-> "write", doc |-> docs', late |-> FALSE]]
    BY <1>2, Zenon DEF Kyc!SubmitKyc
  <2>4. filing \in [Slots -> [pc : {"idle", "write", "update"}, doc : 0..docs', late : BOOLEAN]]
    BY <2>1, <2>2, SMT
  <2>5. filing' \in [Slots -> [pc : {"idle", "write", "update"}, doc : 0..docs', late : BOOLEAN]]
    <3>1. docs' \in 0..docs'
      BY <2>1, SMT
    <3>2. [pc |-> "write", doc |-> docs', late |-> FALSE] \in [pc : {"idle", "write", "update"}, doc : 0..docs',
                                                               late : BOOLEAN]
      BY <3>1, Zenon
    <3>3. QED
      BY <2>3, <2>4, <3>2, Zenon
  <2>6. panel' \in [Accounts -> {Nil} \cup [status : Kyc!KycStatus, doc : 0..docs']]
    BY <2>1, <2>2, SMT
  <2>7. QED
    BY <2>1, <2>5, <2>6, SMT
<1>3. ASSUME NEW t \in Slots, Kyc!WriteSignature(t) PROVE KycShape'
  BY <1>3, SMT DEF Kyc!WriteSignature, Kyc!desk
<1>4. ASSUME NEW t \in Slots, Kyc!UpdateRow(t) PROVE KycShape'
  BY <1>4, SMT DEF Kyc!UpdateRow, Kyc!desk
<1>5. ASSUME NEW t \in Slots, Kyc!FailSubmit(t) PROVE KycShape'
  BY <1>5, SMT DEF Kyc!FailSubmit, Kyc!desk
<1>6. ASSUME NEW a \in Accounts, Kyc!OpenDrawer(a) PROVE KycShape'
  BY <1>6, SMT DEF Kyc!OpenDrawer, Kyc!server
<1>7. ASSUME NEW a \in Accounts, NEW s \in {"VERIFIED", "REJECTED"}, Kyc!Review(a, s) PROVE KycShape'
  BY <1>7, SMT DEF Kyc!Review
<1>8. CASE UNCHANGED Kyc!vars
  BY <1>8, SMT DEF Kyc!vars, Kyc!server, Kyc!desk
<1>9. QED
  BY <1>1, <1>2, <1>3, <1>4, <1>5, <1>6, <1>7, <1>8, Zenon DEF Kyc!Next

(* A verified user is refused before the handler starts.                   *)
LEMMA KycNotLateStep == ASSUME KycShape, KycNotLate, [Kyc!Next]_(Kyc!vars) PROVE KycNotLate'
<1> USE DEF KycShape, KycNotLate, Kyc!IdleJob
<1>1. ASSUME NEW t \in Slots, Kyc!SubmitKyc(t) PROVE KycNotLate'
  BY <1>1, SMT DEF Kyc!SubmitKyc
<1>2. ASSUME NEW t \in Slots, Kyc!WriteSignature(t) PROVE KycNotLate'
  BY <1>2, SMT DEF Kyc!WriteSignature
<1>3. ASSUME NEW t \in Slots, Kyc!UpdateRow(t) \/ Kyc!FailSubmit(t) PROVE KycNotLate'
  BY <1>3, SMT DEF Kyc!UpdateRow, Kyc!FailSubmit
<1>4. ASSUME UNCHANGED filing PROVE KycNotLate'
  BY <1>4, Zenon
<1>5. QED
  BY <1>1, <1>2, <1>3, <1>4, Zenon DEF Kyc!Next, Kyc!LogIn, Kyc!Expire, Kyc!OpenDrawer, Kyc!Review, Kyc!vars,
       Kyc!server, Kyc!desk

LEMMA KycFileStep ==
    ASSUME Kyc!KycAssumption, KycShape, ~torn => KycFileIsKnown, [Kyc!Next]_(Kyc!vars), ~torn'
    PROVE  KycFileIsKnown'
<1> USE DEF KycShape, KycFileIsKnown, KycUpdates, Kyc!IdleJob
<1>1. ASSUME UNCHANGED <<file, row, filing, torn>> PROVE KycFileIsKnown'
  BY <1>1, Zenon
<1>2. ASSUME NEW t \in Slots, Kyc!SubmitKyc(t) PROVE KycFileIsKnown'
  <2>1. UNCHANGED <<file, row>> /\ KycFileIsKnown
    BY <1>2, Zenon DEF Kyc!SubmitKyc
  <2>2. \A s \in Slots : (filing'[s].pc = "update" <=> filing[s].pc = "update") /\
          (filing'[s].pc = "update" => filing'[s] = filing[s])
    BY <1>2, SMT DEF Kyc!SubmitKyc
  <2>3. QED
    BY <2>1, <2>2, Zenon
<1>3. ASSUME NEW t \in Slots, Kyc!WriteSignature(t) PROVE KycFileIsKnown'
  <2>1. UNCHANGED row /\ KycFileIsKnown
    BY <1>3, Zenon DEF Kyc!WriteSignature
  <2>2. filing'[t].pc = "update" /\ filing'[t].doc = file' /\ \A s \in Slots : s # t => filing'[s] = filing[s]
    BY <1>3, SMT DEF Kyc!WriteSignature
  <2>3. QED
    BY <2>1, <2>2, Zenon
<1>4. ASSUME NEW t \in Slots, Kyc!UpdateRow(t) PROVE KycFileIsKnown'
  <2>1. UNCHANGED file /\ KycFileIsKnown /\ ~Kyc!Overlap /\ row' = filing[t].doc /\ filing[t].pc = "update"
    BY <1>4, Zenon DEF Kyc!UpdateRow
  <2>2. \A s \in Slots : s # t => filing[s].pc = "idle"
    BY <2>1, SMT DEF Kyc!Overlap
  <2>3. file = row'
    BY <2>1, <2>2, SMT
  <2>4. \A s \in Slots : filing'[s].pc # "update"
    BY <1>4, <2>2, SMT DEF Kyc!UpdateRow
  <2>5. QED
    BY <2>1, <2>3, <2>4, Zenon
<1>5. ASSUME NEW t \in Slots, Kyc!FailSubmit(t) PROVE KycFileIsKnown'
  <2>1. UNCHANGED <<file, row>> /\ KycFileIsKnown /\ filing[t].pc # "update"
    BY <1>5, Zenon DEF Kyc!FailSubmit
  <2>2. \A s \in Slots : (filing'[s].pc = "update" <=> filing[s].pc = "update") /\
          (filing'[s].pc = "update" => filing'[s] = filing[s])
    BY <1>5, <2>1, SMT DEF Kyc!FailSubmit
  <2>3. QED
    BY <2>1, <2>2, Zenon
<1>6. QED
  BY <1>1, <1>2, <1>3, <1>4, <1>5, Zenon DEF Kyc!Next, Kyc!LogIn, Kyc!Expire, Kyc!OpenDrawer, Kyc!Review, Kyc!vars,
       Kyc!server, Kyc!desk

(* Who takes a verification back.                                          *)
LEMMA KycTakesBack ==
    ASSUME Kyc!KycAssumption, KycShape, KycNotLate, [Kyc!Next]_(Kyc!vars), status = "VERIFIED", status' # "VERIFIED"
    PROVE  \/ reviews' > reviews
           \/ \E t \in Slots : filing[t].pc = "update" /\ filing'[t].pc = "idle" /\ ~filing[t].late
<1> USE DEF KycShape, Kyc!IdleJob
<1>1. ASSUME NEW t \in Slots, Kyc!UpdateRow(t)
      PROVE  filing[t].pc = "update" /\ filing'[t].pc = "idle" /\ ~filing[t].late
  <2>1. filing[t].pc = "update" /\ filing'[t].pc = "idle"
    BY <1>1, SMT DEF Kyc!UpdateRow
  <2>2. QED
    BY <2>1, Zenon DEF KycNotLate
<1>2. ASSUME NEW a \in Accounts, NEW s, Kyc!Review(a, s) PROVE reviews' > reviews
  BY <1>2, SMT DEF Kyc!Review
<1>3. status' # status
  BY Zenon
<1>4. QED
  BY <1>1, <1>2, <1>3, Zenon DEF Kyc!Next, Kyc!LogIn, Kyc!Expire, Kyc!OpenDrawer, Kyc!SubmitKyc, Kyc!WriteSignature,
       Kyc!FailSubmit, Kyc!vars, Kyc!server, Kyc!desk

LEMMA KycHolds ==
    Kyc!KycAssumption =>
      (Kyc!Init /\ [][Kyc!Next]_(Kyc!vars) => []Kyc!TypeOK /\ []Kyc!SignatureOfRow /\ Kyc!VerifiedIsKept)
<1> SUFFICES ASSUME Kyc!KycAssumption
             PROVE  Kyc!Init /\ [][Kyc!Next]_(Kyc!vars) => []Kyc!TypeOK /\ []Kyc!SignatureOfRow /\ Kyc!VerifiedIsKept
  OBVIOUS
<1> DEFINE Kept == status = "VERIFIED" /\ status' # "VERIFIED" =>
                      \/ reviews' > reviews
                      \/ \E t \in Slots : /\ filing[t].pc = "update" /\ filing'[t].pc = "idle"
                                          /\ ~filing[t].late
<1>1. Kyc!Init => KycInv
  BY KycInit DEF KycInv
<1>2. KycInv /\ [Kyc!Next]_(Kyc!vars) => KycInv'
  BY KycShapeStep, KycNotLateStep, KycFileStep, Zenon DEF KycInv
<1>3. KycInv => Kyc!TypeOK
  BY SMT DEF KycInv, KycShape, Kyc!TypeOK, Kyc!KycAssumption
<1>4. KycInv => Kyc!SignatureOfRow
  BY Zenon DEF KycInv, KycFileIsKnown, KycUpdates, Kyc!SignatureOfRow
<1>5. KycInv /\ [Kyc!Next]_(Kyc!vars) => [Kept]_(Kyc!vars)
  BY KycTakesBack, Zenon DEF KycInv
<1>6. Kyc!VerifiedIsKept <=> [][Kept]_(Kyc!vars)
  BY PTL DEF Kyc!VerifiedIsKept
<1> HIDE DEF Kept
<1>7. QED
  BY <1>1, <1>2, <1>3, <1>4, <1>5, <1>6, PTL
-----------------------------------------------------------------------------
(***************************************************************************)
(* The chat page of the panel: ChatPanel.                                  *)
(***************************************************************************)
ChatRow == [status : {"NONE", "OPEN", "CLOSED"}, unread : Nat]
ChatRows == {Nil} \cup [Users -> ChatRow \cup {Nil}]
ChatKinds == {"read", "send", "close", "open"}

(* The rows at the backend and the numbers the page has of them.           *)
ChatServerShape ==
    /\ thread \in [Users -> ChatRow] /\ messages \in [Users -> [n : Nat, tail : Nat]]
    /\ read \in [Users -> Nat] /\ missed \in SUBSET Users
    /\ \A u \in Users :
         thread[u].unread <= messages[u].n /\ messages[u].tail <= messages[u].n /\ read[u] <= messages[u].n

ChatPageShape ==
    /\ filter \in Filters /\ selected \in Users \cup {Nil} /\ draft \in Users \cup {Nil}
    /\ list \in [Filters -> ChatRows]
    /\ listQ \in [pc : {"idle", "threads", "legacy", "answer"}, key : Filters \cup {Nil}, data : ChatRows]
    /\ listQ.pc # "idle" => listQ.key = filter

ChatPutShape ==
    /\ put \in [Slots -> [pc : {"idle", "write", "done"}, kind : ChatKinds, u : Users \cup {Nil},
                          typed : Users \cup {Nil}]]
    /\ \A s \in Slots : put[s].pc # "idle" => put[s].u \in Users

ChatMessagesShape ==
    /\ messagesQ \in [pc : {"idle", "ask", "answer"}, key : Users \cup {Nil}, data : Nat \cup {Nil}]
    /\ messagesQ.pc # "idle" => messagesQ.key \in Users
    /\ messagesQ.pc = "answer" => messagesQ.data \in 0..messages[messagesQ.key].n
    /\ shown \in [Users -> Nat \cup {Nil}]
    /\ \A u \in Users : shown[u] \in (0..messages[u].n) \cup {Nil}

ChatShape == ChatServerShape /\ ChatPageShape /\ ChatPutShape /\ ChatMessagesShape

(* The composer is empty or has what was typed for the window.             *)
ChatDraftOfWindow == draft \in {Nil, ChatPanel!Window}

(* What was marked as read of the customer in the window is on its way     *)
(* there: a request about them is answered and not yet heard of, their     *)
(* messages are asked for or got, or they are shown.                       *)
ChatReaches(u) ==
    \/ \E s \in Slots : put[s].pc = "done" /\ put[s].u = u
    \/ messagesQ.pc = "ask"
    \/ messagesQ.pc = "answer" /\ read[u] <= messagesQ.data
    \/ messagesQ.pc = "idle" /\ (shown[u] = Nil \/ read[u] <= shown[u])
ChatReadReaches ==
    /\ ChatPanel!Window # Nil /\ messagesQ.pc # "idle" => messagesQ.key = ChatPanel!Window
    /\ ChatPanel!Window # Nil /\ ChatPanel!Window \notin missed => ChatReaches(ChatPanel!Window)

ChatInv == ChatShape /\ ChatDraftOfWindow /\ ChatPanel!DraftGoesToItsThread /\ ChatReadReaches

LEMMA ChatWindowIs ==
    ASSUME NEW sel \in Users \cup {Nil}, NEW them
    PROVE  ChatPanel!WindowOf(sel, them) \in {Nil, sel} /\ ChatPanel!WindowOf(sel, them) \in Users \cup {Nil}
BY DEF ChatPanel!WindowOf

LEMMA ChatWindowStays == ASSUME UNCHANGED <<filter, selected, list>> PROVE ChatPanel!Window' = ChatPanel!Window
BY DEF ChatPanel!Window, ChatPanel!WindowOf

LEMMA ChatInit == ASSUME ChatPanel!ChatPanelAssumption, ChatPanel!Init PROVE ChatInv
<1> USE DEF ChatPanel!ChatPanelAssumption, ChatPanel!Init
<1>1. ChatServerShape
  BY SMT DEF ChatServerShape, ChatRow
<1>2. ChatPageShape
  BY SMT DEF ChatPageShape, ChatRows
<1>3. ChatPutShape /\ ChatMessagesShape
  BY SMT DEF ChatPutShape, ChatMessagesShape, ChatKinds, ChatPanel!NoQuery, ChatPanel!NoPut
<1>4. ChatDraftOfWindow /\ ChatPanel!DraftGoesToItsThread /\ ChatReadReaches
  BY SMT DEF ChatDraftOfWindow, ChatPanel!DraftGoesToItsThread, ChatReadReaches, ChatPanel!Window, ChatPanel!WindowOf,
       ChatPanel!NoPut
<1>5. QED
  BY <1>1, <1>2, <1>3, <1>4 DEF ChatInv, ChatShape

(* The rows the page is given are rows.                                    *)
LEMMA ChatGotRows ==
    ASSUME ChatServerShape, NEW t
    PROVE  ChatPanel!Filtered(thread, t) \in ChatRows /\ ChatPanel!Filtered(ChatPanel!Legacy, t) \in ChatRows
<1>1. ChatPanel!Legacy \in [Users -> ChatRow]
  BY SMT DEF ChatPanel!Legacy, ChatRow, ChatServerShape
<1>2. QED
  BY <1>1, SMT DEF ChatPanel!Filtered, ChatRows, ChatServerShape

-----------------------------------------------------------------------------
(* The shapes.                                                             *)
LEMMA ChatServerShapeStep ==
    ASSUME ChatServerShape, ChatPutShape, ChatMessagesShape, [ChatPanel!Next]_(ChatPanel!vars)
    PROVE  ChatServerShape'
<1> USE DEF ChatServerShape, ChatRow
<1>1. ASSUME NEW u \in Users, ChatPanel!CustomerWrites(u) PROVE ChatServerShape'
  BY <1>1, SMT DEF ChatPanel!CustomerWrites, ChatPanel!Turn
<1>2. ASSUME NEW u \in Users, ChatPanel!OtherReads(u) PROVE ChatServerShape'
  BY <1>2, SMT DEF ChatPanel!OtherReads, ChatPanel!Turn
<1>2a. ASSUME NEW u \in Users, ChatPanel!OtherCloses(u) PROVE ChatServerShape'
  BY <1>2a, SMT DEF ChatPanel!OtherCloses, ChatPanel!Turn
<1>3. ASSUME NEW s \in Slots, ChatPanel!Write(s) PROVE ChatServerShape'
  <2> DEFINE u == put[s].u
  <2>1. u \in Users /\ put[s].kind \in ChatKinds
    BY <1>3, SMT DEF ChatPanel!Write, ChatPutShape
  <2>2. CASE put[s].kind = "read"
    BY <1>3, <2>1, <2>2, SMT DEF ChatPanel!Write
  <2>3. CASE put[s].kind = "send"
    BY <1>3, <2>1, <2>3, SMT DEF ChatPanel!Write
  <2>4. CASE put[s].kind \in {"close", "open"}
    BY <1>3, <2>1, <2>4, SMT DEF ChatPanel!Write
  <2>5. QED
    BY <2>1, <2>2, <2>3, <2>4, SMT DEF ChatKinds
<1>4. ASSUME NEW s \in Slots, ChatPanel!PutFails(s) PROVE ChatServerShape'
  BY <1>4, SMT DEF ChatPanel!PutFails, ChatPanel!Lost, ChatPanel!server, ChatPutShape
<1>5. CASE ChatPanel!MessagesFail
  BY <1>5, SMT DEF ChatPanel!MessagesFail, ChatPanel!Lost, ChatPanel!server, ChatMessagesShape
<1>6. ASSUME UNCHANGED <<thread, messages, read, missed>> PROVE ChatServerShape'
  BY <1>6, SMT
<1>7. QED
  BY <1>1, <1>2, <1>2a, <1>3, <1>4, <1>5, <1>6, Zenon DEF ChatPanel!Next, ChatPanel!Select, ChatPanel!SetTab,
       ChatPanel!Done, ChatPanel!Click, ChatPanel!Type, ChatPanel!AskList, ChatPanel!AskMessages, ChatPanel!ThreadsFail,
       ChatPanel!ReadThreads, ChatPanel!ReadLegacy, ChatPanel!AnswerList, ChatPanel!ReadMessages,
       ChatPanel!AnswerMessages, ChatPanel!Move, ChatPanel!Lost, ChatPanel!server, ChatPanel!vars

LEMMA ChatPageShapeStep ==
    ASSUME ChatPanel!ChatPanelAssumption, ChatServerShape, ChatPageShape, ChatPutShape,
           [ChatPanel!Next]_(ChatPanel!vars)
    PROVE  ChatPageShape'
<1> USE DEF ChatPageShape
<1>1. ASSUME NEW u \in Users, ChatPanel!Select(u) PROVE ChatPageShape'
  BY <1>1, SMT DEF ChatPanel!Select, ChatPanel!Brings, ChatPanel!Draft
<1>2. ASSUME NEW t \in Filters, ChatPanel!SetTab(t) PROVE ChatPageShape'
  BY <1>2, SMT DEF ChatPanel!SetTab, ChatPanel!Brings, ChatPanel!Draft, ChatPanel!NoQuery, ChatRows
<1>3. CASE ChatPanel!Type
  <2>1. draft' = ChatPanel!Window /\ UNCHANGED <<filter, selected, list, listQ>>
    BY <1>3, Zenon DEF ChatPanel!Type, ChatPanel!queries
  <2>2. ChatPanel!Window \in Users \cup {Nil}
    BY ChatWindowIs DEF ChatPanel!Window
  <2>3. QED
    BY <2>1, <2>2, SMT
<1>4. ASSUME NEW s \in Slots, ChatPanel!Done(s) PROVE ChatPageShape'
  BY <1>4, SMT DEF ChatPanel!Done, ChatPanel!NoQuery, ChatRows
<1>5. CASE ChatPanel!AskList
  BY <1>5, SMT DEF ChatPanel!AskList, ChatPanel!NoQuery, ChatRows, ChatPanel!page
<1>6. CASE ChatPanel!ReadThreads
  <2>1. listQ' = [pc |-> "answer", key |-> listQ.key, data |-> ChatPanel!Filtered(thread, listQ.key)] \/
          listQ' = [listQ EXCEPT !.pc = "legacy"]
    BY <1>6, Zenon DEF ChatPanel!ReadThreads
  <2>2. QED
    BY <1>6, <2>1, ChatGotRows, SMT DEF ChatPanel!ReadThreads, ChatPanel!page
<1>7. CASE ChatPanel!ThreadsFail
  BY <1>7, SMT DEF ChatPanel!ThreadsFail, ChatPanel!page
<1>8. CASE ChatPanel!ReadLegacy
  BY <1>8, ChatGotRows, SMT DEF ChatPanel!ReadLegacy, ChatPanel!page
<1>9. CASE ChatPanel!AnswerList
  BY <1>9, SMT DEF ChatPanel!AnswerList, ChatPanel!NoQuery, ChatRows, ChatPanel!Brings, ChatPanel!Draft
<1>10. ASSUME UNCHANGED <<filter, selected, draft, list, listQ>> PROVE ChatPageShape'
  BY <1>10, SMT
<1>11. QED
  BY <1>1, <1>2, <1>3, <1>4, <1>5, <1>6, <1>7, <1>8, <1>9, <1>10, Zenon DEF ChatPanel!Next, ChatPanel!CustomerWrites,
       ChatPanel!OtherReads, ChatPanel!OtherCloses, ChatPanel!Turn, ChatPanel!Write, ChatPanel!PutFails,
       ChatPanel!Click, ChatPanel!AskMessages, ChatPanel!MessagesFail, ChatPanel!ReadMessages, ChatPanel!AnswerMessages,
       ChatPanel!page, ChatPanel!queries, ChatPanel!vars

LEMMA ChatBringsShape ==
    ASSUME ChatPutShape, NEW w \in Users \cup {Nil}, ChatPanel!Brings(w)
    PROVE  ChatPutShape'
<1> USE DEF ChatPutShape, ChatKinds
<1>1. CASE UNCHANGED put
  BY <1>1, SMT
<1>2. ASSUME w # Nil, NEW s \in Slots,
             put' = [put EXCEPT ![s] = [pc |-> "write", kind |-> "read", u |-> w, typed |-> Nil]]
      PROVE  ChatPutShape'
  BY <1>2, SMT DEF ChatPanel!NoPut
<1>3. QED
  BY <1>1, <1>2, Zenon DEF ChatPanel!Brings

LEMMA ChatPutShapeStep == ASSUME ChatPageShape, ChatPutShape, [ChatPanel!Next]_(ChatPanel!vars) PROVE ChatPutShape'
<1> USE DEF ChatPutShape, ChatKinds
<1>1. ASSUME NEW u \in Users, ChatPanel!Select(u) PROVE ChatPutShape'
  BY <1>1, ChatBringsShape, Zenon DEF ChatPanel!Select
<1>2. ASSUME NEW t \in Filters, ChatPanel!SetTab(t) PROVE ChatPutShape'
  BY <1>2, ChatBringsShape, ChatWindowIs, Zenon DEF ChatPanel!SetTab, ChatPageShape
<1>3. CASE ChatPanel!AnswerList
  BY <1>3, ChatBringsShape, ChatWindowIs, Zenon DEF ChatPanel!AnswerList, ChatPageShape
<1>4. ASSUME NEW s \in Slots, NEW kind \in {"send", "close", "open"}, ChatPanel!Click(s, kind) PROVE ChatPutShape'
  BY <1>4, ChatWindowIs, SMT DEF ChatPanel!Click, ChatPageShape, ChatPanel!Window
<1>5. ASSUME NEW s \in Slots, ChatPanel!Write(s) PROVE ChatPutShape'
  BY <1>5, SMT DEF ChatPanel!Write
<1>6. ASSUME NEW s \in Slots, ChatPanel!Done(s) \/ ChatPanel!PutFails(s) PROVE ChatPutShape'
  BY <1>6, SMT DEF ChatPanel!Done, ChatPanel!PutFails, ChatPanel!NoPut
<1>7. ASSUME UNCHANGED put PROVE ChatPutShape'
  BY <1>7, SMT
<1>8. QED
  BY <1>1, <1>2, <1>3, <1>4, <1>5, <1>6, <1>7, Zenon DEF ChatPanel!Next, ChatPanel!CustomerWrites, ChatPanel!OtherReads,
       ChatPanel!OtherCloses, ChatPanel!Turn, ChatPanel!Type, ChatPanel!AskList, ChatPanel!AskMessages,
       ChatPanel!ThreadsFail, ChatPanel!MessagesFail, ChatPanel!ReadThreads, ChatPanel!ReadLegacy,
       ChatPanel!ReadMessages, ChatPanel!AnswerMessages, ChatPanel!vars

LEMMA ChatMessagesShapeStep ==
    ASSUME ChatServerShape, ChatPageShape, ChatPutShape, ChatMessagesShape, [ChatPanel!Next]_(ChatPanel!vars)
    PROVE  ChatMessagesShape'
<1> USE DEF ChatMessagesShape
<1>1. ASSUME NEW w \in Users, messagesQ' = [pc |-> "ask", key |-> w, data |-> Nil], UNCHANGED <<shown, messages>>
      PROVE  ChatMessagesShape'
  BY <1>1, SMT
<1>2. ASSUME NEW w \in Users \cup {Nil}, ChatPanel!Brings(w), UNCHANGED <<shown, messages>> PROVE ChatMessagesShape'
  BY <1>1, <1>2, SMT DEF ChatPanel!Brings
<1>3. ASSUME NEW u \in Users, ChatPanel!Select(u) PROVE ChatMessagesShape'
  BY <1>2, <1>3, Zenon DEF ChatPanel!Select, ChatPanel!Move, ChatPanel!server
<1>4. ASSUME NEW t \in Filters, ChatPanel!SetTab(t) PROVE ChatMessagesShape'
  BY <1>2, <1>4, ChatWindowIs, Zenon DEF ChatPanel!SetTab, ChatPanel!Move, ChatPanel!server, ChatPageShape
<1>5. CASE ChatPanel!AnswerList
  BY <1>2, <1>5, ChatWindowIs, Zenon DEF ChatPanel!AnswerList, ChatPanel!server, ChatPageShape
<1>6. ASSUME NEW s \in Slots, ChatPanel!Done(s) PROVE ChatMessagesShape'
  <2>1. UNCHANGED <<shown, messages>> /\ messagesQ' = ChatPanel!Invalidated
    BY <1>6, Zenon DEF ChatPanel!Done, ChatPanel!server
  <2>2. ChatPanel!Window \in Users \cup {Nil}
    BY ChatWindowIs, Zenon DEF ChatPanel!Window, ChatPageShape
  <2>3. QED
    BY <1>1, <2>1, <2>2, SMT DEF ChatPanel!Invalidated
<1>7. CASE ChatPanel!AskMessages
  <2>1. ChatPanel!Window \in Users \cup {Nil}
    BY ChatWindowIs, Zenon DEF ChatPanel!Window, ChatPageShape
  <2>2. QED
    BY <1>1, <1>7, <2>1, Zenon DEF ChatPanel!AskMessages, ChatPanel!server
<1>8. CASE ChatPanel!ReadMessages
  BY <1>8, SMT DEF ChatPanel!ReadMessages, ChatPanel!server, ChatServerShape
<1>9. CASE ChatPanel!AnswerMessages
  BY <1>9, SMT DEF ChatPanel!AnswerMessages, ChatPanel!server, ChatPanel!NoQuery
<1>10. CASE ChatPanel!MessagesFail
  BY <1>10, SMT DEF ChatPanel!MessagesFail, ChatPanel!Lost, ChatPanel!server, ChatPanel!NoQuery
<1>11. ASSUME UNCHANGED <<messagesQ, shown>>, \A u \in Users : messages'[u].n \in Nat /\ messages[u].n <= messages'[u].n
       PROVE  ChatMessagesShape'
  BY <1>11, SMT DEF ChatServerShape
<1>12. ASSUME NEW u \in Users, ChatPanel!CustomerWrites(u) PROVE ChatMessagesShape'
  <2>1. \A v \in Users : messages'[v].n \in Nat /\ messages[v].n <= messages'[v].n
    BY <1>12, SMT DEF ChatPanel!CustomerWrites, ChatServerShape
  <2>2. QED
    BY <1>11, <1>12, <2>1, Zenon DEF ChatPanel!CustomerWrites, ChatPanel!Turn, ChatPanel!queries
<1>13. ASSUME NEW s \in Slots, ChatPanel!Write(s) PROVE ChatMessagesShape'
  <2>1. \A v \in Users : messages'[v].n \in Nat /\ messages[v].n <= messages'[v].n
    BY <1>13, SMT DEF ChatPanel!Write, ChatServerShape
  <2>2. QED
    BY <1>11, <1>13, <2>1, Zenon DEF ChatPanel!Write, ChatPanel!queries
<1>14. ASSUME UNCHANGED <<messagesQ, shown, messages>> PROVE ChatMessagesShape'
  BY <1>14, SMT
<1>15. QED
  BY <1>3, <1>4, <1>5, <1>6, <1>7, <1>8, <1>9, <1>10, <1>12, <1>13, <1>14, Zenon DEF ChatPanel!Next,
       ChatPanel!OtherReads, ChatPanel!OtherCloses, ChatPanel!Turn, ChatPanel!Type, ChatPanel!Click, ChatPanel!PutFails,
       ChatPanel!AskList, ChatPanel!ThreadsFail, ChatPanel!ReadThreads, ChatPanel!ReadLegacy, ChatPanel!Move,
       ChatPanel!Lost, ChatPanel!server, ChatPanel!queries, ChatPanel!vars
-----------------------------------------------------------------------------
(* The composer and the window.                                            *)
LEMMA ChatBringsWindow ==
    ASSUME ChatDraftOfWindow, NEW w, ChatPanel!Brings(w), ChatPanel!Window' = w
    PROVE  ChatDraftOfWindow'
BY DEF ChatDraftOfWindow, ChatPanel!Brings, ChatPanel!Draft

(* A thread that is brought into the window is the window's.               *)
LEMMA ChatSelectBrings ==
    ASSUME ChatPageShape, NEW u \in Users, ChatPanel!Select(u)
    PROVE  ChatPanel!Window' = IF u = Nil THEN Nil ELSE u
BY SMT DEF ChatPanel!Select, ChatPanel!Window, ChatPanel!WindowOf

LEMMA ChatSetTabBrings ==
    ASSUME NEW t \in Filters, ChatPanel!SetTab(t)
    PROVE  ChatPanel!Window' = ChatPanel!WindowOf(selected, list[t])
BY SMT DEF ChatPanel!SetTab, ChatPanel!Window

LEMMA ChatAnswerListBrings ==
    ASSUME ChatPageShape, ChatPanel!AnswerList
    PROVE  ChatPanel!Window' = ChatPanel!WindowOf(selected, listQ.data)
<1>1. listQ.key = filter /\ list'[filter] = listQ.data /\ UNCHANGED <<filter, selected>>
  BY SMT DEF ChatPanel!AnswerList, ChatPageShape
<1>2. QED
  BY <1>1, Zenon DEF ChatPanel!Window, ChatPanel!WindowOf

LEMMA ChatDraftOfWindowStep ==
    ASSUME ChatPageShape, ChatDraftOfWindow, [ChatPanel!Next]_(ChatPanel!vars)
    PROVE  ChatDraftOfWindow'
<1>1. ASSUME NEW u \in Users, ChatPanel!Select(u) PROVE ChatDraftOfWindow'
  <2>1. ChatPanel!Window' = u
    BY <1>1, ChatSelectBrings
  <2>2. QED
    BY <1>1, <2>1, ChatBringsWindow, Zenon DEF ChatPanel!Select
<1>2. ASSUME NEW t \in Filters, ChatPanel!SetTab(t) PROVE ChatDraftOfWindow'
  BY <1>2, ChatSetTabBrings, ChatBringsWindow, Zenon DEF ChatPanel!SetTab
<1>3. CASE ChatPanel!AnswerList
  BY <1>3, ChatAnswerListBrings, ChatBringsWindow, Zenon DEF ChatPanel!AnswerList
<1>4. ASSUME UNCHANGED <<filter, selected, list>>, draft' \in {Nil, draft, ChatPanel!Window} PROVE ChatDraftOfWindow'
  BY <1>4, ChatWindowStays, Zenon DEF ChatDraftOfWindow
<1>5. CASE ChatPanel!Type
  BY <1>4, <1>5, Zenon DEF ChatPanel!Type, ChatPanel!queries
<1>6. ASSUME NEW s \in Slots, ChatPanel!Done(s) PROVE ChatDraftOfWindow'
  BY <1>4, <1>6, Zenon DEF ChatPanel!Done
<1>7. ASSUME UNCHANGED <<filter, selected, draft, list>> PROVE ChatDraftOfWindow'
  BY <1>4, <1>7, Zenon
<1>8. QED
  BY <1>1, <1>2, <1>3, <1>5, <1>6, <1>7, Zenon DEF ChatPanel!Next, ChatPanel!CustomerWrites, ChatPanel!OtherReads,
       ChatPanel!OtherCloses, ChatPanel!Turn, ChatPanel!Write, ChatPanel!PutFails, ChatPanel!Click, ChatPanel!AskList,
       ChatPanel!AskMessages, ChatPanel!MessagesFail, ChatPanel!ThreadsFail, ChatPanel!ReadThreads,
       ChatPanel!ReadLegacy, ChatPanel!ReadMessages, ChatPanel!AnswerMessages, ChatPanel!page, ChatPanel!queries,
       ChatPanel!vars

LEMMA ChatDraftGoesStep ==
    ASSUME ChatPageShape, ChatPutShape, ChatDraftOfWindow, ChatPanel!DraftGoesToItsThread,
           [ChatPanel!Next]_(ChatPanel!vars)
    PROVE  ChatPanel!DraftGoesToItsThread'
<1> USE DEF ChatPutShape, ChatPanel!DraftGoesToItsThread
<1>1. ASSUME NEW w, ChatPanel!Brings(w) PROVE ChatPanel!DraftGoesToItsThread'
  <2>1. CASE UNCHANGED put
    BY <2>1, Zenon
  <2>2. ASSUME NEW s \in Slots, put' = [put EXCEPT ![s] = [pc |-> "write", kind |-> "read", u |-> w, typed |-> Nil]]
        PROVE  ChatPanel!DraftGoesToItsThread'
    BY <2>2, SMT
  <2>3. QED
    BY <1>1, <2>1, <2>2, Zenon DEF ChatPanel!Brings
<1>2. ASSUME NEW s \in Slots, NEW kind \in {"send", "close", "open"}, ChatPanel!Click(s, kind)
      PROVE  ChatPanel!DraftGoesToItsThread'
  <2>1. put' = [put EXCEPT ![s] = [pc |-> "write", kind |-> kind, u |-> ChatPanel!Window, typed |-> draft]]
    BY <1>2, Zenon DEF ChatPanel!Click
  <2>2. kind = "send" => draft = ChatPanel!Window
    BY <1>2, SMT DEF ChatPanel!Click, ChatDraftOfWindow
  <2>3. QED
    BY <2>1, <2>2, SMT
<1>3. ASSUME NEW s \in Slots, ChatPanel!Write(s) PROVE ChatPanel!DraftGoesToItsThread'
  BY <1>3, SMT DEF ChatPanel!Write
<1>4. ASSUME NEW s \in Slots, ChatPanel!Done(s) \/ ChatPanel!PutFails(s) PROVE ChatPanel!DraftGoesToItsThread'
  BY <1>4, SMT DEF ChatPanel!Done, ChatPanel!PutFails, ChatPanel!NoPut
<1>5. ASSUME UNCHANGED put PROVE ChatPanel!DraftGoesToItsThread'
  BY <1>5, Zenon
<1>6. QED
  BY <1>1, <1>2, <1>3, <1>4, <1>5, Zenon DEF ChatPanel!Next, ChatPanel!Select, ChatPanel!SetTab, ChatPanel!AnswerList,
       ChatPanel!CustomerWrites, ChatPanel!OtherReads, ChatPanel!OtherCloses, ChatPanel!Turn, ChatPanel!Type,
       ChatPanel!AskList, ChatPanel!AskMessages, ChatPanel!ThreadsFail, ChatPanel!MessagesFail, ChatPanel!ReadThreads,
       ChatPanel!ReadLegacy, ChatPanel!ReadMessages, ChatPanel!AnswerMessages, ChatPanel!vars
-----------------------------------------------------------------------------
(* What was marked as read reaches the window.                             *)
LEMMA ChatBringsReads ==
    ASSUME ChatPageShape, ChatPutShape, ChatServerShape, ChatMessagesShape, ChatReadReaches, NEW w \in Users \cup {Nil},
           ChatPanel!Brings(w), ChatPanel!Window' = w,
           UNCHANGED <<shown, read, missed>>
    PROVE  ChatReadReaches'
<1> USE DEF ChatReadReaches
<1>1. CASE w = Nil
  BY <1>1, Zenon
<1>2. CASE w # Nil /\ w # ChatPanel!Window
  <2>1. messagesQ' = [pc |-> "ask", key |-> w, data |-> Nil]
    BY <1>2, Zenon DEF ChatPanel!Brings
  <2>2. messagesQ'.pc = "ask" /\ messagesQ'.key = w
    BY <2>1, SMT
  <2>3. QED
    BY <2>2, Zenon DEF ChatReaches
<1>3. CASE w # Nil /\ w = ChatPanel!Window
  <2>1. UNCHANGED <<put, messagesQ>>
    BY <1>3, Zenon DEF ChatPanel!Brings
  <2>2. QED
    BY <1>3, <2>1, Zenon DEF ChatReaches
<1>4. QED
  BY <1>1, <1>2, <1>3, Zenon

LEMMA ChatReadReachesStep ==
    ASSUME ChatServerShape, ChatPageShape, ChatPutShape, ChatMessagesShape, ChatReadReaches,
           [ChatPanel!Next]_(ChatPanel!vars)
    PROVE  ChatReadReaches'
<1>1. \A sel \in Users \cup {Nil} : \A them : ChatPanel!WindowOf(sel, them) \in Users \cup {Nil}
  BY ChatWindowIs, Zenon
<1>2. ChatPanel!Window \in Users \cup {Nil} /\ selected \in Users \cup {Nil}
  BY <1>1, Zenon DEF ChatPanel!Window, ChatPageShape
<1>3. ASSUME NEW u \in Users, ChatPanel!Select(u) PROVE ChatReadReaches'
  <2>1. ChatPanel!Window' = u
    BY <1>3, ChatSelectBrings
  <2>2. UNCHANGED <<shown, read, missed>> /\ ChatPanel!Brings(u) /\ u \in Users \cup {Nil}
    BY <1>3, Zenon DEF ChatPanel!Select, ChatPanel!Move
  <2>3. QED
    BY <2>1, <2>2, ChatBringsReads, Zenon
<1>4. ASSUME NEW t \in Filters, ChatPanel!SetTab(t) PROVE ChatReadReaches'
  BY <1>1, <1>2, <1>4, ChatSetTabBrings, ChatBringsReads, Zenon DEF ChatPanel!SetTab, ChatPanel!Move
<1>5. CASE ChatPanel!AnswerList
  BY <1>1, <1>2, <1>5, ChatAnswerListBrings, ChatBringsReads, Zenon DEF ChatPanel!AnswerList
<1>6. ASSUME ChatPanel!Window' = ChatPanel!Window, ChatPanel!Window # Nil PROVE ChatReadReaches' <=>
           /\ messagesQ'.pc # "idle" => messagesQ'.key = ChatPanel!Window
           /\ ChatPanel!Window \notin missed' => ChatReaches(ChatPanel!Window)'
  BY <1>6, Zenon DEF ChatReadReaches, ChatReaches
<1>7. ChatPanel!Window' = ChatPanel!Window /\ ChatPanel!Window = Nil => ChatReadReaches'
  BY Zenon DEF ChatReadReaches
<1>8. ChatPanel!Window # Nil => /\ ChatPanel!Window \in Users
                                /\ messagesQ.pc # "idle" => messagesQ.key = ChatPanel!Window
                                /\ ChatPanel!Window \notin missed => ChatReaches(ChatPanel!Window)
  BY <1>2, Zenon DEF ChatReadReaches
<1> HIDE DEF ChatPanel!Window
<1>9. ASSUME NEW s \in Slots, ChatPanel!Write(s) PROVE ChatReadReaches'
  <2>1. ChatPanel!Window' = ChatPanel!Window /\ UNCHANGED <<messagesQ, shown, missed>>
    BY <1>9, ChatWindowStays, Zenon DEF ChatPanel!Write, ChatPanel!page, ChatPanel!queries
  <2>2. put[s].u \in Users /\ put'[s].pc = "done" /\ put'[s].u = put[s].u
    BY <1>9, SMT DEF ChatPanel!Write, ChatPutShape
  <2>3. \A r \in Slots : r # s => put'[r] = put[r]
    BY <1>9, SMT DEF ChatPanel!Write, ChatPutShape
  <2>4. \A u \in Users : u # put[s].u => read'[u] = read[u]
    BY <1>9, SMT DEF ChatPanel!Write, ChatServerShape
  <2>5. put[s].pc = "write"
    BY <1>9 DEF ChatPanel!Write
  <2>6. ASSUME ChatPanel!Window # Nil, ChatPanel!Window \notin missed PROVE ChatReaches(ChatPanel!Window)'
    <3>1. CASE ChatPanel!Window = put[s].u
      BY <2>1, <2>2, <3>1, Zenon DEF ChatReaches
    <3>2. CASE ChatPanel!Window # put[s].u
      <4>1. ChatReaches(ChatPanel!Window) /\ read'[ChatPanel!Window] = read[ChatPanel!Window]
        BY <1>8, <2>4, <2>6, <3>2, Zenon
      <4>2. \A r \in Slots : put[r].pc = "done" => put'[r] = put[r]
        BY <2>3, <2>5
      <4>3. QED
        BY <2>1, <4>1, <4>2, Zenon DEF ChatReaches
    <3>3. QED
      BY <3>1, <3>2, Zenon
  <2>7. QED
    BY <1>6, <1>7, <1>8, <2>1, <2>6, Zenon
<1>10. ASSUME NEW s \in Slots, ChatPanel!Done(s) PROVE ChatReadReaches'
  <2>1. ChatPanel!Window' = ChatPanel!Window /\ messagesQ' = ChatPanel!Invalidated
    BY <1>10, ChatWindowStays, Zenon DEF ChatPanel!Done
  <2>2. ChatPanel!Window # Nil => messagesQ'.pc = "ask" /\ messagesQ'.key = ChatPanel!Window
    BY <2>1, SMT DEF ChatPanel!Invalidated
  <2>3. QED
    BY <1>6, <1>7, <2>1, <2>2, Zenon DEF ChatReaches
<1>11. ASSUME NEW s \in Slots, ChatPanel!PutFails(s) PROVE ChatReadReaches'
  <2>1. ChatPanel!Window' = ChatPanel!Window /\ UNCHANGED <<messagesQ, shown, read>> /\ missed' = missed \cup {put[s].u}
    BY <1>11, ChatWindowStays, Zenon DEF ChatPanel!PutFails, ChatPanel!Lost, ChatPanel!page, ChatPanel!queries
  <2>2. \A r \in Slots : r # s => put'[r] = put[r]
    BY <1>11, SMT DEF ChatPanel!PutFails, ChatPutShape
  <2>3. ASSUME ChatPanel!Window # Nil, ChatPanel!Window \notin missed' PROVE ChatReaches(ChatPanel!Window)'
    <3>1. ChatPanel!Window # put[s].u /\ ChatReaches(ChatPanel!Window)
      BY <1>8, <2>1, <2>3, Zenon
    <3>2. QED
      BY <2>1, <2>2, <3>1, Zenon DEF ChatReaches
  <2>4. QED
    BY <1>6, <1>7, <1>8, <2>1, <2>3, Zenon
<1>12. ASSUME NEW s \in Slots, NEW kind \in {"send", "close", "open"}, ChatPanel!Click(s, kind) PROVE ChatReadReaches'
  <2>1. ChatPanel!Window' = ChatPanel!Window /\ UNCHANGED <<messagesQ, shown, read, missed>>
    BY <1>12, ChatWindowStays, Zenon DEF ChatPanel!Click, ChatPanel!Move, ChatPanel!page, ChatPanel!queries
  <2>2. \A r \in Slots : put[r].pc # "idle" => put'[r] = put[r]
    BY <1>12, SMT DEF ChatPanel!Click, ChatPanel!Busy, ChatPutShape
  <2>3. ASSUME ChatPanel!Window # Nil, ChatPanel!Window \notin missed PROVE ChatReaches(ChatPanel!Window)'
    <3>1. ChatReaches(ChatPanel!Window)
      BY <1>8, <2>3, Zenon
    <3>2. \A r \in Slots : put[r].pc = "done" => put'[r] = put[r]
      BY <2>2
    <3>3. QED
      BY <2>1, <3>1, <3>2, Zenon DEF ChatReaches
  <2>4. QED
    BY <1>6, <1>7, <1>8, <2>1, <2>3, Zenon
<1>13. CASE ChatPanel!AskMessages
  <2>1. ChatPanel!Window' = ChatPanel!Window
    BY <1>13, ChatWindowStays, Zenon DEF ChatPanel!AskMessages, ChatPanel!page
  <2>2. messagesQ'.pc = "ask" /\ messagesQ'.key = ChatPanel!Window
    BY <1>13, SMT DEF ChatPanel!AskMessages
  <2>3. QED
    BY <1>6, <1>7, <2>1, <2>2, Zenon DEF ChatReaches
<1>14. CASE ChatPanel!ReadMessages
  <2>1. ChatPanel!Window' = ChatPanel!Window /\ UNCHANGED <<read, missed>>
    BY <1>14, ChatWindowStays, Zenon DEF ChatPanel!ReadMessages, ChatPanel!page
  <2>2. messagesQ.pc # "idle" /\ messagesQ'.pc = "answer" /\ messagesQ'.key = messagesQ.key /\
          messagesQ'.data = messages[messagesQ.key].n
    BY <1>14, SMT DEF ChatPanel!ReadMessages
  <2>3. ChatPanel!Window # Nil => read'[ChatPanel!Window] <= messagesQ'.data
    BY <1>8, <2>1, <2>2, SMT DEF ChatServerShape
  <2>4. ChatPanel!Window # Nil => messagesQ'.key = ChatPanel!Window
    BY <1>8, <2>2, Zenon
  <2>5. QED
    BY <1>6, <1>7, <2>1, <2>2, <2>3, <2>4, Zenon DEF ChatReaches
<1>15. CASE ChatPanel!AnswerMessages
  <2>1. ChatPanel!Window' = ChatPanel!Window /\ UNCHANGED <<put, read, missed>>
    BY <1>15, ChatWindowStays, Zenon DEF ChatPanel!AnswerMessages, ChatPanel!page
  <2>2. messagesQ.pc = "answer" /\ messagesQ'.pc = "idle"
    BY <1>15, SMT DEF ChatPanel!AnswerMessages, ChatPanel!NoQuery
  <2>3. messagesQ.key \in Users => shown'[messagesQ.key] = messagesQ.data
    BY <1>15, SMT DEF ChatPanel!AnswerMessages, ChatMessagesShape
  <2>4. ASSUME ChatPanel!Window # Nil, ChatPanel!Window \notin missed PROVE ChatReaches(ChatPanel!Window)'
    <3>1. messagesQ.key = ChatPanel!Window /\ ChatPanel!Window \in Users /\ ChatReaches(ChatPanel!Window)
      BY <1>8, <2>2, <2>4
    <3>2. (\E r \in Slots : put[r].pc = "done" /\ put[r].u = ChatPanel!Window) \/
            read[ChatPanel!Window] <= messagesQ.data
      BY <2>2, <3>1 DEF ChatReaches
    <3>3. QED
      BY <2>1, <2>2, <2>3, <3>1, <3>2, Zenon DEF ChatReaches
  <2>5. QED
    BY <1>6, <1>7, <2>1, <2>2, <2>4, Zenon
<1>16. CASE ChatPanel!MessagesFail
  <2>1. ChatPanel!Window' = ChatPanel!Window /\ messagesQ.pc = "ask" /\ missed' = missed \cup {messagesQ.key}
    BY <1>16, ChatWindowStays, Zenon DEF ChatPanel!MessagesFail, ChatPanel!page
  <2>2. messagesQ'.pc = "idle"
    BY <1>16, SMT DEF ChatPanel!MessagesFail, ChatPanel!NoQuery
  <2>3. ChatPanel!Window # Nil => messagesQ.key = ChatPanel!Window
    BY <1>8, <2>1
  <2>4. QED
    BY <1>6, <1>7, <2>1, <2>2, <2>3, Zenon
<1>17. ASSUME UNCHANGED <<filter, selected, list, messagesQ, shown, put, read, missed>> PROVE ChatReadReaches'
  <2>1. ChatPanel!Window' = ChatPanel!Window
    BY <1>17, ChatWindowStays, Zenon
  <2>2. ChatPanel!Window # Nil => (ChatReaches(ChatPanel!Window)' <=> ChatReaches(ChatPanel!Window))
    BY <1>17, <2>1, Zenon DEF ChatReaches
  <2>3. QED
    BY <1>6, <1>7, <1>8, <1>17, <2>1, <2>2, Zenon
<1>18. QED
  BY <1>3, <1>4, <1>5, <1>9, <1>10, <1>11, <1>12, <1>13, <1>14, <1>15, <1>16, <1>17, Zenon DEF ChatPanel!Next,
       ChatPanel!CustomerWrites, ChatPanel!OtherReads, ChatPanel!OtherCloses, ChatPanel!Turn, ChatPanel!Type,
       ChatPanel!AskList, ChatPanel!ThreadsFail, ChatPanel!ReadThreads, ChatPanel!ReadLegacy, ChatPanel!Move,
       ChatPanel!Lost, ChatPanel!server, ChatPanel!page, ChatPanel!queries, ChatPanel!vars

LEMMA ChatHolds ==
    ChatPanel!ChatPanelAssumption =>
      (ChatPanel!Init /\ [][ChatPanel!Next]_(ChatPanel!vars) =>
          []ChatPanel!TypeOK /\ []ChatPanel!DraftGoesToItsThread /\ []ChatPanel!ReadIsShown)
<1> SUFFICES ASSUME ChatPanel!ChatPanelAssumption
             PROVE  ChatPanel!Init /\ [][ChatPanel!Next]_(ChatPanel!vars) =>
                    []ChatPanel!TypeOK /\ []ChatPanel!DraftGoesToItsThread /\ []ChatPanel!ReadIsShown
  OBVIOUS
<1>1. ChatPanel!Init => ChatInv
  BY ChatInit
<1>2. ChatInv /\ [ChatPanel!Next]_(ChatPanel!vars) => ChatInv'
  BY ChatServerShapeStep, ChatPageShapeStep, ChatPutShapeStep, ChatMessagesShapeStep, ChatDraftOfWindowStep,
     ChatDraftGoesStep, ChatReadReachesStep
     DEF ChatInv, ChatShape
<1>3. ChatInv => ChatPanel!TypeOK
  BY SMT DEF ChatInv, ChatShape, ChatServerShape, ChatPageShape, ChatMessagesShape, ChatPanel!TypeOK, ChatRow
<1>4. ChatInv => ChatPanel!ReadIsShown
  <2> SUFFICES ASSUME ChatInv, ChatPanel!Window \notin missed \cup {Nil}, ~ChatPanel!Busy, messagesQ.pc = "idle",
                      shown[ChatPanel!Window] # Nil
               PROVE  read[ChatPanel!Window] <= shown[ChatPanel!Window]
    BY Zenon DEF ChatPanel!ReadIsShown
  <2>1. ChatReaches(ChatPanel!Window)
    BY Zenon DEF ChatInv, ChatReadReaches
  <2>2. \A s \in Slots : put[s].pc # "done"
    BY DEF ChatPanel!Busy
  <2>3. QED
    BY <2>1, <2>2 DEF ChatReaches
<1>5. ChatInv => ChatPanel!DraftGoesToItsThread
  BY DEF ChatInv
<1>6. QED
  BY <1>1, <1>2, <1>3, <1>4, <1>5, PTL
-----------------------------------------------------------------------------
(***************************************************************************)
(* The script that fills an empty database: Seed.                          *)
(***************************************************************************)
SeedOf(kind, i) == [kind |-> kind, i |-> i]
SeedJobKinds == {"admin", "user", "purchase", "sell", "news", "chat", "gold", "levels"}
SeedJob == [kind : SeedJobKinds, i : Nat]

(* Where the script finds which data: each loop follows the one before.    *)
LEMMA SeedTasksAre ==
    ASSUME NEW kind \in SeedJobKinds, NEW n \in Nat
    PROVE  Seed!Tasks(kind, n) \in Seq(SeedJob) /\ Len(Seed!Tasks(kind, n)) = n /\
           \A k \in 1..n : Seed!Tasks(kind, n)[k] = SeedOf(kind, k)
BY SMT DEF Seed!Tasks, SeedJob, SeedOf, SeedJobKinds

LEMMA SeedThenTasks ==
    ASSUME NEW s \in Seq(SeedJob), NEW a \in Nat, Len(s) = a, NEW kind \in SeedJobKinds, NEW n \in Nat
    PROVE  /\ s \o Seed!Tasks(kind, n) \in Seq(SeedJob) /\ Len(s \o Seed!Tasks(kind, n)) = a + n
           /\ \A k \in 1..a : (s \o Seed!Tasks(kind, n))[k] = s[k]
           /\ \A k \in 1..n : (s \o Seed!Tasks(kind, n))[a + k] = SeedOf(kind, k)
<1> DEFINE t == Seed!Tasks(kind, n)
<1>1. t \in Seq(SeedJob) /\ Len(t) = n /\ \A k \in 1..n : t[k] = SeedOf(kind, k)
  BY SeedTasksAre, Zenon
<1> HIDE DEF t
<1>2. /\ s \o t \in Seq(SeedJob) /\ Len(s \o t) = Len(s) + Len(t)
      /\ \A k \in 1..(Len(s) + Len(t)) : (s \o t)[k] = IF k <= Len(s) THEN s[k] ELSE t[k - Len(s)]
  BY <1>1, ConcatProperties, Zenon
<1> DEFINE st == s \o t
<1>3. st \in Seq(SeedJob) /\ Len(st) = a + n /\ \A k \in 1..(a + n) : st[k] = IF k <= a THEN s[k] ELSE t[k - a]
  BY <1>1, <1>2, Zenon
<1> HIDE DEF st
<1>4. ASSUME NEW k \in 1..a PROVE st[k] = s[k]
  BY <1>3, SMT
<1>5. ASSUME NEW k \in 1..n PROVE st[a + k] = SeedOf(kind, k)
  <2>1. a + k \in 1..(a + n) /\ ~(a + k <= a) /\ (a + k) - a = k
    BY SMT
  <2>2. st[a + k] = t[(a + k) - a]
    BY <1>3, <2>1, Zenon
  <2>3. QED
    BY <1>1, <2>1, <2>2, Zenon
<1>6. QED
  BY <1>3, <1>4, <1>5, Zenon DEF st, t

LEMMA SeedPlanIs ==
    ASSUME Seed!SeedAssumption
    PROVE  /\ Seed!Plan \in Seq(SeedJob) /\ Len(Seed!Plan) = 3 + 4 * Phones + Items
           /\ Seed!Plan[1] = SeedOf("admin", 1)
           /\ \A i \in 1..Phones : Seed!Plan[1 + i] = SeedOf("user", i)
           /\ \A i \in 1..Phones : Seed!Plan[1 + Phones + i] = SeedOf("purchase", i)
           /\ \A i \in 1..Phones : Seed!Plan[1 + 2 * Phones + i] = SeedOf("sell", i)
           /\ \A n \in 1..Items : Seed!Plan[1 + 3 * Phones + n] = SeedOf("news", n)
           /\ \A i \in 1..Phones : Seed!Plan[1 + 3 * Phones + Items + i] = SeedOf("chat", i)
           /\ Seed!Plan[2 + 4 * Phones + Items] = SeedOf("gold", 1)
           /\ Seed!Plan[3 + 4 * Phones + Items] = SeedOf("levels", 1)
<1> DEFINE P1 == Seed!Tasks("admin", 1)
           P2 == P1 \o Seed!Tasks("user", Phones)
           P3 == P2 \o Seed!Tasks("purchase", Phones)
           P4 == P3 \o Seed!Tasks("sell", Phones)
           P5 == P4 \o Seed!Tasks("news", Items)
           P6 == P5 \o Seed!Tasks("chat", Phones)
           P7 == P6 \o Seed!Tasks("gold", 1)
           P8 == P7 \o Seed!Tasks("levels", 1)
<1>1. Phones \in Nat /\ Items \in Nat
  BY SMT DEF Seed!SeedAssumption
<1>2. P1 \in Seq(SeedJob) /\ Len(P1) = 1 /\ \A k \in 1..1 : P1[k] = SeedOf("admin", k)
  <2>1. "admin" \in SeedJobKinds /\ 1 \in Nat
    BY SMT DEF SeedJobKinds
  <2>2. QED
    BY <2>1, SeedTasksAre, Zenon
<1>3. /\ P2 \in Seq(SeedJob) /\ Len(P2) = 1 + Phones
      /\ \A k \in 1..(1) : P2[k] = P1[k]
      /\ \A k \in 1..Phones : P2[1 + k] = SeedOf("user", k)
  <2> HIDE DEF P1
  <2>1. "user" \in SeedJobKinds /\ Phones \in Nat /\ 1 \in Nat /\ (1) + Phones = 1 + Phones
    BY <1>1, SMT DEF SeedJobKinds
  <2>2. QED
    BY <1>2, <2>1, SeedThenTasks, Zenon DEF P2
<1>4. /\ P3 \in Seq(SeedJob) /\ Len(P3) = 1 + 2 * Phones
      /\ \A k \in 1..(1 + Phones) : P3[k] = P2[k]
      /\ \A k \in 1..Phones : P3[1 + Phones + k] = SeedOf("purchase", k)
  <2> HIDE DEF P2
  <2>1. "purchase" \in SeedJobKinds /\ Phones \in Nat /\ 1 + Phones \in Nat /\ (1 + Phones) + Phones = 1 + 2 * Phones
    BY <1>1, SMT DEF SeedJobKinds
  <2>2. QED
    BY <1>3, <2>1, SeedThenTasks, Zenon DEF P3
<1>5. /\ P4 \in Seq(SeedJob) /\ Len(P4) = 1 + 3 * Phones
      /\ \A k \in 1..(1 + 2 * Phones) : P4[k] = P3[k]
      /\ \A k \in 1..Phones : P4[1 + 2 * Phones + k] = SeedOf("sell", k)
  <2> HIDE DEF P3
  <2>1. "sell" \in SeedJobKinds /\ Phones \in Nat /\ 1 + 2 * Phones \in Nat /\
          (1 + 2 * Phones) + Phones = 1 + 3 * Phones
    BY <1>1, SMT DEF SeedJobKinds
  <2>2. QED
    BY <1>4, <2>1, SeedThenTasks, Zenon DEF P4
<1>6. /\ P5 \in Seq(SeedJob) /\ Len(P5) = 1 + 3 * Phones + Items
      /\ \A k \in 1..(1 + 3 * Phones) : P5[k] = P4[k]
      /\ \A k \in 1..Items : P5[1 + 3 * Phones + k] = SeedOf("news", k)
  <2> HIDE DEF P4
  <2>1. "news" \in SeedJobKinds /\ Items \in Nat /\ 1 + 3 * Phones \in Nat /\
          (1 + 3 * Phones) + Items = 1 + 3 * Phones + Items
    BY <1>1, SMT DEF SeedJobKinds
  <2>2. QED
    BY <1>5, <2>1, SeedThenTasks, Zenon DEF P5
<1>7. /\ P6 \in Seq(SeedJob) /\ Len(P6) = 1 + 4 * Phones + Items
      /\ \A k \in 1..(1 + 3 * Phones + Items) : P6[k] = P5[k]
      /\ \A k \in 1..Phones : P6[1 + 3 * Phones + Items + k] = SeedOf("chat", k)
  <2> HIDE DEF P5
  <2>1. "chat" \in SeedJobKinds /\ Phones \in Nat /\ 1 + 3 * Phones + Items \in Nat /\
          (1 + 3 * Phones + Items) + Phones = 1 + 4 * Phones + Items
    BY <1>1, SMT DEF SeedJobKinds
  <2>2. QED
    BY <1>6, <2>1, SeedThenTasks, Zenon DEF P6
<1>8. /\ P7 \in Seq(SeedJob) /\ Len(P7) = 2 + 4 * Phones + Items
      /\ \A k \in 1..(1 + 4 * Phones + Items) : P7[k] = P6[k]
      /\ \A k \in 1..1 : P7[1 + 4 * Phones + Items + k] = SeedOf("gold", k)
  <2> HIDE DEF P6
  <2>1. "gold" \in SeedJobKinds /\ 1 \in Nat /\ 1 + 4 * Phones + Items \in Nat /\
          (1 + 4 * Phones + Items) + 1 = 2 + 4 * Phones + Items
    BY <1>1, SMT DEF SeedJobKinds
  <2>2. QED
    BY <1>7, <2>1, SeedThenTasks, Zenon DEF P7
<1>9. /\ P8 \in Seq(SeedJob) /\ Len(P8) = 3 + 4 * Phones + Items
      /\ \A k \in 1..(2 + 4 * Phones + Items) : P8[k] = P7[k]
      /\ \A k \in 1..1 : P8[2 + 4 * Phones + Items + k] = SeedOf("levels", k)
  <2> HIDE DEF P7
  <2>1. "levels" \in SeedJobKinds /\ 1 \in Nat /\ 2 + 4 * Phones + Items \in Nat /\
          (2 + 4 * Phones + Items) + 1 = 3 + 4 * Phones + Items
    BY <1>1, SMT DEF SeedJobKinds
  <2>2. QED
    BY <1>8, <2>1, SeedThenTasks, Zenon DEF P8
<1>10. Seed!Plan = P8
  BY Zenon DEF Seed!Plan, Seed!TEST_USERS, Seed!MOCK_PURCHASES, Seed!MOCK_SELL_REQUESTS, Seed!mockNews, Seed!MOCK_CHATS
<1> HIDE DEF P1, P2, P3, P4, P5, P6, P7, P8
<1>11. QED
  BY <1>1, <1>2, <1>3, <1>4, <1>5, <1>6, <1>7, <1>8, <1>9, <1>10, SMTT(60)

(* Every place of the plan is one of these.                                *)
LEMMA SeedPlanCases ==
    ASSUME Seed!SeedAssumption, NEW k \in 1..Len(Seed!Plan)
    PROVE  \/ k = 1 /\ Seed!Plan[k] = SeedOf("admin", 1)
           \/ \E i \in 1..Phones : k = 1 + i /\ Seed!Plan[k] = SeedOf("user", i)
           \/ \E i \in 1..Phones : k = 1 + Phones + i /\ Seed!Plan[k] = SeedOf("purchase", i)
           \/ \E i \in 1..Phones : k = 1 + 2 * Phones + i /\ Seed!Plan[k] = SeedOf("sell", i)
           \/ \E n \in 1..Items : k = 1 + 3 * Phones + n /\ Seed!Plan[k] = SeedOf("news", n)
           \/ \E i \in 1..Phones : k = 1 + 3 * Phones + Items + i /\ Seed!Plan[k] = SeedOf("chat", i)
           \/ k = 2 + 4 * Phones + Items /\ Seed!Plan[k] = SeedOf("gold", 1)
           \/ k = 3 + 4 * Phones + Items /\ Seed!Plan[k] = SeedOf("levels", 1)
<1>1. Phones \in Nat /\ Items \in Nat /\ k \in Nat /\ k >= 1 /\ k <= 3 + 4 * Phones + Items
  BY SeedPlanIs, SMT DEF Seed!SeedAssumption
<1>2. CASE k = 1
  BY <1>2, SeedPlanIs, Zenon
<1>3. CASE k > 1 /\ k <= (1) + Phones
  <2>1. k - (1) \in 1..Phones /\ k = (1) + (k - (1))
    BY <1>1, <1>3, SMT
  <2>2. PICK i \in 1..Phones : k = 1 + i
    BY <2>1, Zenon
  <2>3. Seed!Plan[k] = SeedOf("user", i)
    BY <2>2, SeedPlanIs, Zenon
  <2>4. QED
    BY <2>2, <2>3, Zenon
<1>4. CASE k > 1 + Phones /\ k <= (1 + Phones) + Phones
  <2>1. k - (1 + Phones) \in 1..Phones /\ k = (1 + Phones) + (k - (1 + Phones))
    BY <1>1, <1>4, SMT
  <2>2. PICK i \in 1..Phones : k = 1 + Phones + i
    BY <2>1, Zenon
  <2>3. Seed!Plan[k] = SeedOf("purchase", i)
    BY <2>2, SeedPlanIs, Zenon
  <2>4. QED
    BY <2>2, <2>3, Zenon
<1>5. CASE k > 1 + 2 * Phones /\ k <= (1 + 2 * Phones) + Phones
  <2>1. k - (1 + 2 * Phones) \in 1..Phones /\ k = (1 + 2 * Phones) + (k - (1 + 2 * Phones))
    BY <1>1, <1>5, SMT
  <2>2. PICK i \in 1..Phones : k = 1 + 2 * Phones + i
    BY <2>1, Zenon
  <2>3. Seed!Plan[k] = SeedOf("sell", i)
    BY <2>2, SeedPlanIs, Zenon
  <2>4. QED
    BY <2>2, <2>3, Zenon
<1>6. CASE k > 1 + 3 * Phones /\ k <= (1 + 3 * Phones) + Items
  <2>1. k - (1 + 3 * Phones) \in 1..Items /\ k = (1 + 3 * Phones) + (k - (1 + 3 * Phones))
    BY <1>1, <1>6, SMT
  <2>2. PICK i \in 1..Items : k = 1 + 3 * Phones + i
    BY <2>1, Zenon
  <2>3. Seed!Plan[k] = SeedOf("news", i)
    BY <2>2, SeedPlanIs, Zenon
  <2>4. QED
    BY <2>2, <2>3, Zenon
<1>7. CASE k > 1 + 3 * Phones + Items /\ k <= (1 + 3 * Phones + Items) + Phones
  <2>1. k - (1 + 3 * Phones + Items) \in 1..Phones /\ k = (1 + 3 * Phones + Items) + (k - (1 + 3 * Phones + Items))
    BY <1>1, <1>7, SMT
  <2>2. PICK i \in 1..Phones : k = 1 + 3 * Phones + Items + i
    BY <2>1, Zenon
  <2>3. Seed!Plan[k] = SeedOf("chat", i)
    BY <2>2, SeedPlanIs, Zenon
  <2>4. QED
    BY <2>2, <2>3, Zenon
<1>8. CASE k = 2 + 4 * Phones + Items \/ k = 3 + 4 * Phones + Items
  BY <1>8, SeedPlanIs, Zenon
<1>9. QED
  BY <1>1, <1>2, <1>3, <1>4, <1>5, <1>6, <1>7, <1>8, SMT

SeedActive(s) == run[s].pc \notin {"off", "done"}
SeedGold == 2 + 4 * Phones + Items

(* Where the runs stand: a place of the plan, and a line of a chat that is *)
(* being written.                                                          *)
SeedRunShape ==
    /\ run \in [Slots -> [pc : {"off", "find", "owner", "row", "patch", "make", "clear", "say", "thread", "done"},
                         at : 0..Len(Seed!Plan), line : 0..Lines]]
    /\ begun \in 0..MaxRuns /\ acts \in 0..MaxActs
    /\ \A s \in Slots : SeedActive(s) =>
          /\ run[s].at \in 1..Len(Seed!Plan)
          /\ run[s].pc = "say" => run[s].line < Lines
          /\ run[s].pc = "thread" => run[s].line = Lines
          /\ run[s].pc \notin {"say", "thread"} => run[s].line = 0
          /\ run[s].pc \in {"clear", "say", "thread"} => Seed!Task(s).kind = "chat"

SeedRowsShape ==
    /\ customer \in [1..Phones -> {"none", "mock", "real"}]
    /\ purchase \in [1..Phones -> Seed!Row] /\ sell \in [1..Phones -> Seed!Row]
    /\ news \in [1..Items -> {"none", "first", "moved"}]
    /\ chats \in [1..Phones -> Seq(1..Seed!Live)] /\ threads \in [1..Phones -> 0..Seed!Live]
    /\ owed \in SUBSET (1..Phones) /\ mixed \in SUBSET (1..Phones) /\ histories \in Nat

SeedFlags == admin \in BOOLEAN /\ levels \in BOOLEAN /\ overlapped \in BOOLEAN

(* What a task that is behind a run has left.                              *)
SeedThere(k) ==
    LET i == Seed!Plan[k].i IN
    /\ Seed!Plan[k].kind = "admin" => admin
    /\ Seed!Plan[k].kind = "user" => customer[i] # "none"
    /\ Seed!Plan[k].kind = "purchase" => purchase[i].status # "none" /\ purchase[i].numbered
    /\ Seed!Plan[k].kind = "sell" => sell[i].status # "none" /\ sell[i].numbered
    /\ Seed!Plan[k].kind = "news" => news[i] # "none"
    /\ Seed!Plan[k].kind = "chat" => threads[i] # 0
    /\ Seed!Plan[k].kind = "gold" => histories > 0
    /\ Seed!Plan[k].kind = "levels" => levels
SeedBehind(s) ==
    /\ SeedActive(s) => \A k \in 1..Len(Seed!Plan) : k < run[s].at => SeedThere(k)
    /\ run[s].pc = "done" => \A k \in 1..Len(Seed!Plan) : SeedThere(k)
    /\ Seed!At(s, "patch", "purchase") => purchase[Seed!Task(s).i].status # "none"
    /\ Seed!At(s, "patch", "sell") => sell[Seed!Task(s).i].status # "none"
SeedAllBehind == \A s \in Slots : SeedBehind(s)

(* The prices: one run at most is about to write the first, and the runs   *)
(* that may still write some are no more than the starts that have not.    *)
SeedPricing == {s \in Slots : SeedActive(s) /\ run[s].at <= SeedGold}
SeedCounted(s) == Seed!At(s, "make", "gold")
SeedPricesKnown ==
    /\ histories + Cardinality(SeedPricing) <= begun
    /\ ~overlapped => /\ \A s, o \in Slots : SeedCounted(s) /\ SeedCounted(o) => s = o
                      /\ (\E s \in Slots : SeedCounted(s)) => histories = 0
                      /\ histories <= 1

(* A chat nobody disturbed: one run writes its lines, or all of them or    *)
(* none are there before what was said.                                    *)
SeedLined(p) ==
    /\ Len(chats[p]) > 0 /\ chats[p][1] # Seed!Live => Lines <= Len(chats[p])
    /\ LET mock == IF Len(chats[p]) > 0 /\ chats[p][1] # Seed!Live THEN Lines ELSE 0 IN
       \A i \in 1..Len(chats[p]) : chats[p][i] = IF i <= mock THEN i ELSE Seed!Live
SeedUndisturbed(p) ==
    /\ \A s, o \in Slots : Seed!InChat(s, p) /\ Seed!InChat(o, p) => s = o
    /\ \A s \in Slots : Seed!InChat(s, p) =>
          p \notin owed /\ Len(chats[p]) = run[s].line /\ \A i \in 1..Len(chats[p]) : chats[p][i] = i
    /\ (\A s \in Slots : ~Seed!InChat(s, p)) =>
          /\ SeedLined(p)
          /\ p \in owed => Len(chats[p]) > 0 /\ chats[p][Len(chats[p])] = Seed!Live
          /\ p \notin owed /\ chats[p] # <<>> => threads[p] = chats[p][Len(chats[p])]
SeedChatsKnown == \A p \in 1..Phones : p \notin mixed => SeedUndisturbed(p)

SeedInv == SeedRunShape /\ SeedRowsShape /\ SeedFlags /\ SeedAllBehind /\ SeedPricesKnown /\ SeedChatsKnown

(* What the places of the plan are.                                        *)
LEMMA SeedKindIs ==
    ASSUME Seed!SeedAssumption, NEW k \in 1..Len(Seed!Plan)
    PROVE  LET i == Seed!Plan[k].i IN
           /\ Seed!Plan[k].kind \in SeedJobKinds
           /\ Seed!Plan[k].kind = "admin" => k = 1
           /\ Seed!Plan[k].kind = "user" => i \in 1..Phones /\ k = 1 + i
           /\ Seed!Plan[k].kind = "purchase" => i \in 1..Phones /\ k = 1 + Phones + i
           /\ Seed!Plan[k].kind = "sell" => i \in 1..Phones /\ k = 1 + 2 * Phones + i
           /\ Seed!Plan[k].kind = "news" => i \in 1..Items /\ k = 1 + 3 * Phones + i
           /\ Seed!Plan[k].kind = "chat" => i \in 1..Phones /\ k = 1 + 3 * Phones + Items + i
           /\ Seed!Plan[k].kind = "gold" => k = SeedGold
           /\ Seed!Plan[k].kind = "levels" => k = SeedGold + 1
<1> DEFINE P == Seed!Plan
<1>0. Phones \in Nat /\ Items \in Nat
  BY SMT DEF Seed!SeedAssumption
<1>1. \/ k = 1 /\ P[k] = SeedOf("admin", 1)
      \/ \E i \in 1..Phones : k = 1 + i /\ P[k] = SeedOf("user", i)
      \/ \E i \in 1..Phones : k = 1 + Phones + i /\ P[k] = SeedOf("purchase", i)
      \/ \E i \in 1..Phones : k = 1 + 2 * Phones + i /\ P[k] = SeedOf("sell", i)
      \/ \E n \in 1..Items : k = 1 + 3 * Phones + n /\ P[k] = SeedOf("news", n)
      \/ \E i \in 1..Phones : k = 1 + 3 * Phones + Items + i /\ P[k] = SeedOf("chat", i)
      \/ k = 2 + 4 * Phones + Items /\ P[k] = SeedOf("gold", 1)
      \/ k = 3 + 4 * Phones + Items /\ P[k] = SeedOf("levels", 1)
  BY SeedPlanCases, Zenon
<1> HIDE DEF P
<1> DEFINE G == LET i == P[k].i IN
           /\ P[k].kind \in SeedJobKinds
           /\ P[k].kind = "admin" => k = 1
           /\ P[k].kind = "user" => i \in 1..Phones /\ k = 1 + i
           /\ P[k].kind = "purchase" => i \in 1..Phones /\ k = 1 + Phones + i
           /\ P[k].kind = "sell" => i \in 1..Phones /\ k = 1 + 2 * Phones + i
           /\ P[k].kind = "news" => i \in 1..Items /\ k = 1 + 3 * Phones + i
           /\ P[k].kind = "chat" => i \in 1..Phones /\ k = 1 + 3 * Phones + Items + i
           /\ P[k].kind = "gold" => k = SeedGold
           /\ P[k].kind = "levels" => k = SeedGold + 1
<1> SUFFICES G
  BY Zenon DEF P
<1>2. CASE \/ k = 1 /\ P[k] = SeedOf("admin", 1)
           \/ k = 2 + 4 * Phones + Items /\ P[k] = SeedOf("gold", 1)
           \/ k = 3 + 4 * Phones + Items /\ P[k] = SeedOf("levels", 1)
  BY <1>0, <1>2, SMT DEF SeedOf, SeedJobKinds, SeedGold
<1>3. ASSUME NEW i \in 1..Phones, \/ k = 1 + i /\ P[k] = SeedOf("user", i)
                                  \/ k = 1 + Phones + i /\ P[k] = SeedOf("purchase", i)
      PROVE  LET j == P[k].i IN
           /\ P[k].kind \in {"user", "purchase"}
           /\ P[k].kind = "user" => j \in 1..Phones /\ k = 1 + j
           /\ P[k].kind = "purchase" => j \in 1..Phones /\ k = 1 + Phones + j
  BY <1>0, <1>3, SMT DEF SeedOf
<1>4. ASSUME NEW i \in 1..Phones, \/ k = 1 + 2 * Phones + i /\ P[k] = SeedOf("sell", i)
                                  \/ k = 1 + 3 * Phones + Items + i /\ P[k] = SeedOf("chat", i)
      PROVE  LET j == P[k].i IN
           /\ P[k].kind \in {"sell", "chat"}
           /\ P[k].kind = "sell" => j \in 1..Phones /\ k = 1 + 2 * Phones + j
           /\ P[k].kind = "chat" => j \in 1..Phones /\ k = 1 + 3 * Phones + Items + j
  BY <1>0, <1>4, SMT DEF SeedOf
<1>5. ASSUME NEW i \in 1..Items, k = 1 + 3 * Phones + i /\ P[k] = SeedOf("news", i)
      PROVE  LET j == P[k].i IN P[k].kind = "news" /\ j \in 1..Items /\ k = 1 + 3 * Phones + j
  BY <1>0, <1>5, SMT DEF SeedOf
<1>6. CASE \E i \in 1..Phones : \/ k = 1 + i /\ P[k] = SeedOf("user", i)
                                \/ k = 1 + Phones + i /\ P[k] = SeedOf("purchase", i)
  BY <1>3, <1>6, SMT DEF SeedJobKinds
<1>7. CASE \E i \in 1..Phones : \/ k = 1 + 2 * Phones + i /\ P[k] = SeedOf("sell", i)
                                \/ k = 1 + 3 * Phones + Items + i /\ P[k] = SeedOf("chat", i)
  BY <1>4, <1>7, SMT DEF SeedJobKinds
<1>8. CASE \E i \in 1..Items : k = 1 + 3 * Phones + i /\ P[k] = SeedOf("news", i)
  BY <1>5, <1>8, SMT DEF SeedJobKinds
<1>9. \/ \E i \in 1..Phones : \/ k = 1 + i /\ P[k] = SeedOf("user", i)
                              \/ k = 1 + Phones + i /\ P[k] = SeedOf("purchase", i)
      \/ \E i \in 1..Phones : \/ k = 1 + 2 * Phones + i /\ P[k] = SeedOf("sell", i)
                              \/ k = 1 + 3 * Phones + Items + i /\ P[k] = SeedOf("chat", i)
      \/ \E i \in 1..Items : k = 1 + 3 * Phones + i /\ P[k] = SeedOf("news", i)
      \/ \/ k = 1 /\ P[k] = SeedOf("admin", 1)
         \/ k = 2 + 4 * Phones + Items /\ P[k] = SeedOf("gold", 1)
         \/ k = 3 + 4 * Phones + Items /\ P[k] = SeedOf("levels", 1)
  BY <1>1, Zenon
<1> HIDE DEF G
<1>10. QED
  BY <1>2, <1>6, <1>7, <1>8, <1>9, Zenon

-----------------------------------------------------------------------------
(* How a run can move.                                                     *)
SeedBegins(s) == /\ ~SeedActive(s) /\ begun < MaxRuns /\ begun' = begun + 1 /\ acts' = acts
                 /\ run' = [run EXCEPT ![s] = [pc |-> "find", at |-> 1, line |-> 0]]
SeedEnds(s) == SeedActive(s) /\ Seed!Stop(s) /\ UNCHANGED <<begun, acts>>
SeedPasses(s) == SeedActive(s) /\ Seed!Skip(s) /\ UNCHANGED <<begun, acts>>
SeedTurns(s) == /\ SeedActive(s) /\ UNCHANGED <<begun, acts>> /\ run[s].pc \notin {"say", "thread"}
                /\ \/ \E pc \in {"owner", "row", "patch", "make"} : Seed!Go(s, pc)
                   \/ Seed!Task(s).kind = "chat" /\ \E pc \in {"clear", "say"} : Seed!Go(s, pc)
SeedTalks(s) == /\ run[s].pc = "say" /\ Seed!Task(s).kind = "chat" /\ UNCHANGED <<begun, acts>>
                /\ run' = [run EXCEPT ![s] = [pc |-> IF run[s].line + 1 = Lines THEN "thread" ELSE "say",
                                              at |-> run[s].at, line |-> run[s].line + 1]]
SeedWaits == run' = run /\ begun' = begun /\ (acts' = acts \/ (acts < MaxActs /\ acts' = acts + 1))

SeedRunActs(s) == \/ Seed!Start(s) \/ Seed!Crash(s) \/ Seed!FindAdmin(s) \/ Seed!MakeAdmin(s)
                  \/ Seed!FindUser(s) \/ Seed!MakeUser(s)
                  \/ Seed!FindPurchase(s) \/ Seed!FindBuyer(s) \/ Seed!WritePurchase(s)
                  \/ Seed!FindSeller(s) \/ Seed!FindSell(s) \/ Seed!WriteSell(s)
                  \/ Seed!FindNews(s) \/ Seed!WriteNews(s)
                  \/ Seed!FindTalker(s) \/ Seed!ClearChat(s) \/ Seed!SayLine(s) \/ Seed!WriteThread(s)
                  \/ Seed!CountPrices(s) \/ Seed!MakePrices(s) \/ Seed!MakeLevels(s)

LEMMA SeedActiveAt ==
    ASSUME NEW s, NEW pc, NEW kind, Seed!At(s, pc, kind),
           pc \in {"find", "owner", "row", "patch", "make", "clear", "say", "thread"}
    PROVE  SeedActive(s)
BY SMT DEF Seed!At, SeedActive

LEMMA SeedRunMoves ==
    ASSUME NEW s \in Slots, SeedRunActs(s), SeedRunShape
    PROVE  SeedBegins(s) \/ SeedEnds(s) \/ SeedPasses(s) \/ SeedTurns(s) \/ SeedTalks(s)
<1>1. CASE Seed!Start(s)
  BY <1>1, Zenon DEF Seed!Start, SeedBegins, SeedActive
<1>2. CASE Seed!Crash(s)
  BY <1>2, Zenon DEF Seed!Crash, SeedEnds, SeedActive
<1>3. CASE Seed!FindAdmin(s)
  BY <1>3, SMT DEF Seed!FindAdmin, Seed!At, SeedActive, SeedPasses, SeedTurns, Seed!Calls
<1>4. CASE Seed!MakeAdmin(s)
  BY <1>4, SMT DEF Seed!MakeAdmin, Seed!At, SeedActive, SeedPasses, SeedEnds, Seed!Calls
<1>5. CASE Seed!FindUser(s)
  BY <1>5, SMT DEF Seed!FindUser, Seed!KnownUser, Seed!At, SeedActive, SeedPasses, SeedTurns, Seed!Calls
<1>6. CASE Seed!MakeUser(s)
  BY <1>6, SMT DEF Seed!MakeUser, Seed!At, SeedActive, SeedPasses, SeedEnds, Seed!Calls
<1>7. CASE Seed!FindPurchase(s)
  BY <1>7, SMT DEF Seed!FindPurchase, Seed!At, SeedActive, SeedPasses, SeedTurns, Seed!Calls
<1>8. CASE Seed!FindBuyer(s)
  BY <1>8, SMT DEF Seed!FindBuyer, Seed!At, SeedActive, SeedPasses, SeedTurns, Seed!Calls
<1>9. CASE Seed!WritePurchase(s)
  BY <1>9, SMT DEF Seed!WritePurchase, Seed!At, SeedActive, SeedPasses, SeedEnds, Seed!Calls
<1>10. CASE Seed!FindSeller(s)
  BY <1>10, SMT DEF Seed!FindSeller, Seed!At, SeedActive, SeedPasses, SeedTurns, Seed!Calls
<1>11. CASE Seed!FindSell(s)
  BY <1>11, SMT DEF Seed!FindSell, Seed!At, SeedActive, SeedPasses, SeedTurns, Seed!Calls
<1>12. CASE Seed!WriteSell(s)
  BY <1>12, SMT DEF Seed!WriteSell, Seed!At, SeedActive, SeedPasses, SeedEnds, Seed!Calls
<1>13. CASE Seed!FindNews(s)
  BY <1>13, SMT DEF Seed!FindNews, Seed!At, SeedActive, SeedPasses, SeedTurns, Seed!Calls
<1>14. CASE Seed!WriteNews(s)
  BY <1>14, SMT DEF Seed!WriteNews, Seed!At, SeedActive, SeedPasses, SeedEnds, Seed!Calls
<1>15. CASE Seed!FindTalker(s)
  BY <1>15, SMT DEF Seed!FindTalker, Seed!At, SeedActive, SeedPasses, SeedTurns, Seed!Calls
<1>16. CASE Seed!ClearChat(s)
  BY <1>16, SMT DEF Seed!ClearChat, Seed!At, SeedActive, SeedTurns, Seed!Calls
<1>17. CASE Seed!SayLine(s)
  <2>1. run' = [run EXCEPT ![s] = [pc |-> IF run[s].line + 1 = Lines THEN "thread" ELSE "say",
                                          at |-> run[s].at, line |-> run[s].line + 1]]
    BY <1>17, SMT DEF Seed!SayLine, SeedRunShape
  <2>2. QED
    BY <1>17, <2>1, Zenon DEF Seed!SayLine, Seed!At, SeedTalks, Seed!Calls
<1>18. CASE Seed!WriteThread(s)
  BY <1>18, SMT DEF Seed!WriteThread, Seed!At, SeedActive, SeedPasses, Seed!Calls
<1>19. CASE Seed!CountPrices(s)
  BY <1>19, SMT DEF Seed!CountPrices, Seed!Written, Seed!At, SeedActive, SeedPasses, SeedTurns, Seed!Calls
<1>20. CASE Seed!MakePrices(s)
  BY <1>20, SMT DEF Seed!MakePrices, Seed!At, SeedActive, SeedPasses, Seed!Calls
<1>21. CASE Seed!MakeLevels(s)
  BY <1>21, SMT DEF Seed!MakeLevels, Seed!At, SeedActive, SeedPasses, Seed!Calls
<1>22. QED
  BY <1>1, <1>2, <1>3, <1>4, <1>5, <1>6, <1>7, <1>8, <1>9, <1>10, <1>11, <1>12, <1>13, <1>14, <1>15, <1>16, <1>17,
     <1>18, <1>19, <1>20, <1>21, Zenon DEF SeedRunActs

LEMMA SeedNextCases ==
    ASSUME Seed!Next
    PROVE  \/ \E s \in Slots : SeedRunActs(s)
           \/ \E p \in 1..Phones : Seed!Registers(p)
           \/ \E p \in 1..Phones : Seed!Says(p)
           \/ \E p \in 1..Phones : Seed!Told(p)
           \/ Seed!Moving
BY Zenon DEF Seed!Next, SeedRunActs

LEMMA SeedOthersWait ==
    ASSUME (\E p \in 1..Phones : Seed!Registers(p) \/ Seed!Says(p) \/ Seed!Told(p)) \/ Seed!Moving
    PROVE  SeedWaits
<1>1. CASE Seed!Moving
  BY <1>1, Zenon DEF Seed!Moving, Seed!Turn, SeedWaits
<1>2. ASSUME NEW p \in 1..Phones, Seed!Registers(p) \/ Seed!Says(p) \/ Seed!Told(p) PROVE SeedWaits
  <2>1. CASE Seed!Registers(p)
    BY <2>1, Zenon DEF Seed!Registers, Seed!Turn, SeedWaits
  <2>2. CASE Seed!Says(p)
    BY <2>2, Zenon DEF Seed!Says, Seed!Turn, SeedWaits
  <2>3. CASE Seed!Told(p)
    BY <2>3, SMT DEF Seed!Told, SeedWaits
  <2>4. QED
    BY <1>2, <2>1, <2>2, <2>3, Zenon
<1>3. QED
  BY <1>1, <1>2, Zenon

(* Where the plan ends and where a run goes on.                            *)
LEMMA SeedPlanEnds ==
    ASSUME Seed!SeedAssumption
    PROVE  Len(Seed!Plan) \in Nat /\ Len(Seed!Plan) = SeedGold + 1 /\ SeedGold \in Nat /\ SeedGold >= 2 /\
           Lines \in Nat /\ Lines > 0
           /\ MaxRuns \in Nat /\ MaxActs \in Nat /\ Phones \in Nat /\ Items \in Nat
BY SeedPlanIs, SMT DEF Seed!SeedAssumption, SeedGold

SeedPcShape(r) ==
    r.pc \notin {"off", "done"} =>
          /\ r.at \in 1..Len(Seed!Plan)
          /\ r.pc = "say" => r.line < Lines
          /\ r.pc = "thread" => r.line = Lines
          /\ r.pc \notin {"say", "thread"} => r.line = 0
          /\ r.pc \in {"clear", "say", "thread"} => Seed!Plan[r.at].kind = "chat"
SeedRunSet == [pc : {"off", "find", "owner", "row", "patch", "make", "clear", "say", "thread", "done"},
           at : 0..Len(Seed!Plan), line : 0..Lines]

LEMMA SeedShapeIs ==
    SeedRunShape <=> /\ run \in [Slots -> SeedRunSet] /\ begun \in 0..MaxRuns /\ acts \in 0..MaxActs
                     /\ \A s \in Slots : SeedPcShape(run[s])
BY Zenon DEF SeedRunShape, SeedPcShape, SeedRunSet, SeedActive, Seed!Task

LEMMA SeedShapeIsNext ==
    SeedRunShape' <=> /\ run' \in [Slots -> SeedRunSet] /\ begun' \in 0..MaxRuns /\ acts' \in 0..MaxActs
                      /\ \A s \in Slots : SeedPcShape(run'[s])
BY Zenon DEF SeedRunShape, SeedPcShape, SeedRunSet, SeedActive, Seed!Task

LEMMA SeedNextIs ==
    ASSUME Seed!SeedAssumption, SeedRunShape, NEW s \in Slots, SeedActive(s)
    PROVE  Seed!Next1(s) \in SeedRunSet /\ SeedPcShape(Seed!Next1(s))
<1>1. run[s] \in SeedRunSet /\ run[s].at \in 1..Len(Seed!Plan)
  BY Zenon DEF SeedRunShape, SeedRunSet
<1>2. Len(Seed!Plan) \in Nat /\ Lines \in Nat
  BY SeedPlanEnds
<1>3. CASE run[s].at = Len(Seed!Plan)
  <2>1. Seed!Next1(s) = [pc |-> "done", at |-> 0, line |-> 0]
    BY <1>3, SMT DEF Seed!Next1, Seed!Idle
  <2>2. QED
    BY <1>2, <2>1, SMT DEF SeedRunSet, SeedPcShape
<1>4. CASE run[s].at # Len(Seed!Plan)
  <2>1. Seed!Next1(s) = [pc |-> "find", at |-> run[s].at + 1, line |-> 0]
    BY <1>4, SMT DEF Seed!Next1
  <2>2. run[s].at + 1 \in 1..Len(Seed!Plan)
    BY <1>1, <1>2, <1>4, SMT
  <2>3. QED
    BY <1>2, <2>1, <2>2, SMT DEF SeedRunSet, SeedPcShape
<1>5. QED
  BY <1>3, <1>4

LEMMA SeedRunShapeKept ==
    ASSUME Seed!SeedAssumption, SeedRunShape, Seed!Next
    PROVE  SeedRunShape'
<1>1. /\ run \in [Slots -> SeedRunSet] /\ begun \in 0..MaxRuns /\ acts \in 0..MaxActs
      /\ \A s \in Slots : SeedPcShape(run[s])
  BY SeedShapeIs, Zenon
<1>2. Len(Seed!Plan) \in Nat /\ Len(Seed!Plan) > 0 /\ Lines \in Nat /\ Lines > 0 /\ MaxRuns \in Nat /\ MaxActs \in Nat
  BY SeedPlanEnds, SMT
<1>3. ASSUME NEW s \in Slots, NEW r \in SeedRunSet, SeedPcShape(r), run' = [run EXCEPT ![s] = r]
      PROVE  run' \in [Slots -> SeedRunSet] /\ \A o \in Slots : SeedPcShape(run'[o])
  <2>1. run' \in [Slots -> SeedRunSet]
    BY <1>1, <1>3, Zenon
  <2>2. ASSUME NEW o \in Slots PROVE run'[o] = r \/ run'[o] = run[o]
    BY <1>1, <1>3, SMT
  <2>3. QED
    BY <1>1, <1>3, <2>1, <2>2, Zenon
<1>4. ASSUME NEW s \in Slots, SeedRunActs(s) PROVE SeedRunShape'
  <2>1. CASE SeedBegins(s)
    <3>1. [pc |-> "find", at |-> 1, line |-> 0] \in SeedRunSet /\ SeedPcShape([pc |-> "find", at |-> 1, line |-> 0])
      BY <1>2, SMT DEF SeedRunSet, SeedPcShape
    <3>2. begun' \in 0..MaxRuns /\ acts' \in 0..MaxActs
      BY <1>1, <1>2, <2>1, SMT DEF SeedBegins
    <3>3. run' \in [Slots -> SeedRunSet] /\ \A o \in Slots : SeedPcShape(run'[o])
      BY <1>3, <2>1, <3>1, Zenon DEF SeedBegins
    <3>4. QED
      BY <3>2, <3>3, SeedShapeIsNext, Zenon
  <2>2. CASE SeedEnds(s)
    <3>1. Seed!Idle \in SeedRunSet /\ SeedPcShape(Seed!Idle)
      BY <1>2, SMT DEF SeedRunSet, SeedPcShape, Seed!Idle
    <3>2. begun' \in 0..MaxRuns /\ acts' \in 0..MaxActs
      BY <1>1, <2>2, Zenon DEF SeedEnds
    <3>3. run' \in [Slots -> SeedRunSet] /\ \A o \in Slots : SeedPcShape(run'[o])
      BY <1>3, <2>2, <3>1, Zenon DEF SeedEnds, Seed!Stop
    <3>4. QED
      BY <3>2, <3>3, SeedShapeIsNext, Zenon
  <2>3. CASE SeedPasses(s)
    <3>1. Seed!Next1(s) \in SeedRunSet /\ SeedPcShape(Seed!Next1(s))
      BY <2>3, SeedNextIs, Zenon DEF SeedPasses
    <3>2. begun' \in 0..MaxRuns /\ acts' \in 0..MaxActs
      BY <1>1, <2>3, Zenon DEF SeedPasses
    <3>3. run' \in [Slots -> SeedRunSet] /\ \A o \in Slots : SeedPcShape(run'[o])
      BY <1>3, <2>3, <3>1, Zenon DEF SeedPasses, Seed!Skip
    <3>4. QED
      BY <3>2, <3>3, SeedShapeIsNext, Zenon
  <2>4. CASE SeedTurns(s)
    <3>1. run[s] \in SeedRunSet /\ SeedPcShape(run[s]) /\ run[s].pc \notin {"off", "done"}
      BY <1>1, <2>4, Zenon DEF SeedTurns, SeedActive
    <3>2. begun' \in 0..MaxRuns /\ acts' \in 0..MaxActs
      BY <1>1, <2>4, Zenon DEF SeedTurns
    <3>3. PICK pc \in {"owner", "row", "patch", "make", "clear", "say"} :
            Seed!Go(s, pc) /\ (pc \in {"clear", "say"} => Seed!Task(s).kind = "chat") /\
              run[s].pc \notin {"say", "thread"}
      BY <2>4, SMT DEF SeedTurns
    <3>4. run' = [run EXCEPT ![s] = [pc |-> pc, at |-> run[s].at, line |-> run[s].line]]
      <4>1. [run[s] EXCEPT !.pc = pc] = [pc |-> pc, at |-> run[s].at, line |-> run[s].line]
        BY <3>1, SMT DEF SeedRunSet
      <4>2. run' = [run EXCEPT ![s] = [run[s] EXCEPT !.pc = pc]]
        BY <1>1, <3>3, SMT DEF Seed!Go
      <4>3. QED
        BY <4>1, <4>2, Zenon
    <3>5. [pc |-> pc, at |-> run[s].at, line |-> run[s].line] \in SeedRunSet
      BY <3>1, SMT DEF SeedRunSet
    <3>6. SeedPcShape([pc |-> pc, at |-> run[s].at, line |-> run[s].line])
      BY <1>2, <3>1, <3>3, SMT DEF SeedPcShape, Seed!Task
    <3>7. run' \in [Slots -> SeedRunSet] /\ \A o \in Slots : SeedPcShape(run'[o])
      BY <1>3, <3>4, <3>5, <3>6, Zenon
    <3>8. QED
      BY <3>2, <3>7, SeedShapeIsNext, Zenon
  <2>5. CASE SeedTalks(s)
    <3> DEFINE r == [pc |-> IF run[s].line + 1 = Lines THEN "thread" ELSE "say",
                     at |-> run[s].at, line |-> run[s].line + 1]
    <3>1. run[s] \in SeedRunSet /\ SeedPcShape(run[s]) /\ run[s].pc = "say" /\ Seed!Task(s).kind = "chat"
      BY <1>1, <2>5, Zenon DEF SeedTalks
    <3>2. begun' \in 0..MaxRuns /\ acts' \in 0..MaxActs
      BY <1>1, <2>5, Zenon DEF SeedTalks
    <3>3. run[s].line + 1 \in 0..Lines /\ run[s].at \in 0..Len(Seed!Plan)
      BY <1>2, <3>1, SMT DEF SeedRunSet, SeedPcShape
    <3>4. r \in SeedRunSet
      BY <3>3, SMT DEF SeedRunSet
    <3>5. SeedPcShape(r)
      BY <1>2, <3>1, <3>3, SMT DEF SeedRunSet, SeedPcShape, Seed!Task
    <3>6. run' = [run EXCEPT ![s] = r]
      BY <2>5, Zenon DEF SeedTalks
    <3> HIDE DEF r
    <3>7. run' \in [Slots -> SeedRunSet] /\ \A o \in Slots : SeedPcShape(run'[o])
      BY <1>3, <3>4, <3>5, <3>6, Zenon
    <3>8. QED
      BY <3>2, <3>7, SeedShapeIsNext, Zenon
  <2>6. QED
    BY <1>4, <2>1, <2>2, <2>3, <2>4, <2>5, SeedRunMoves, Zenon
<1>5. ASSUME SeedWaits PROVE SeedRunShape'
  <2>1. acts' \in 0..MaxActs
    BY <1>1, <1>2, <1>5, SMT DEF SeedWaits
  <2>2. QED
    BY <1>1, <1>5, <2>1, SeedShapeIsNext, Zenon DEF SeedWaits
<1>6. QED
  BY <1>4, <1>5, SeedNextCases, SeedOthersWait, Zenon

(* Nothing the script wrote or found is gone later.                        *)
SeedGrows ==
    /\ (admin => admin') /\ (levels => levels') /\ (histories > 0 => histories' > 0)
    /\ \A p \in 1..Phones :
         /\ (customer[p] # "none" => customer'[p] # "none") /\ (threads[p] # 0 => threads'[p] # 0)
         /\ (purchase[p].status # "none" => purchase'[p].status # "none")
         /\ (purchase[p].numbered => purchase'[p].numbered)
         /\ (sell[p].status # "none" => sell'[p].status # "none") /\ (sell[p].numbered => sell'[p].numbered)
    /\ \A n \in 1..Items : news[n] # "none" => news'[n] # "none"

SeedRowSame == UNCHANGED <<admin, customer, purchase, sell, news, chats, threads, histories, levels>>
SeedHistories == owed' \in SUBSET (1..Phones) /\ mixed' \in SUBSET (1..Phones) /\ overlapped' \in BOOLEAN

(* A row is written at one place.                                          *)
LEMMA SeedOnePlace ==
    ASSUME NEW D, NEW R, NEW f \in [D -> R], NEW i, NEW v \in R
    PROVE  [f EXCEPT ![i] = v] \in [D -> R] /\ \A d \in D : [f EXCEPT ![i] = v][d] = (IF d = i THEN v ELSE f[d])
BY Zenon

LEMMA SeedPatchedIs ==
    ASSUME NEW old \in Seed!Row
    PROVE  Seed!Patched(old) = [status |-> old.status, numbered |-> TRUE] /\ Seed!Patched(old) \in Seed!Row
<1>1. Seed!Patched(old) = [status |-> old.status, numbered |-> TRUE]
  BY Zenon DEF Seed!Patched
<1>2. old.status \in {"none", "first", "moved"}
  BY Zenon DEF Seed!Row
<1>3. QED
  BY <1>1, <1>2, SMT DEF Seed!Row

LEMMA SeedSameGrows ==
    ASSUME SeedRowsShape, SeedFlags, SeedRowSame, SeedHistories
    PROVE  SeedRowsShape' /\ SeedFlags' /\ SeedGrows
<1>1. SeedGrows
  BY Zenon DEF SeedRowSame, SeedGrows
<1>2. SeedRowsShape'
  BY Zenon DEF SeedRowSame, SeedRowsShape, SeedHistories, Seed!Row, Seed!Live
<1>3. SeedFlags'
  BY Zenon DEF SeedRowSame, SeedFlags, SeedHistories
<1>4. QED
  BY <1>1, <1>2, <1>3

SeedQuiet(s) == \/ Seed!Start(s) \/ Seed!Crash(s) \/ Seed!FindAdmin(s) \/ Seed!FindUser(s)
                \/ Seed!FindPurchase(s) \/ Seed!FindBuyer(s) \/ Seed!FindSeller(s) \/ Seed!FindSell(s)
                \/ Seed!FindNews(s) \/ Seed!FindTalker(s) \/ Seed!CountPrices(s)

(* What a task names.                                                      *)
LEMMA SeedTaskIs ==
    ASSUME Seed!SeedAssumption, SeedRunShape, NEW s \in Slots, SeedActive(s)
    PROVE  LET i == Seed!Task(s).i IN
           /\ Seed!Task(s).kind \in SeedJobKinds
           /\ Seed!Task(s).kind = "admin" => run[s].at = 1
           /\ Seed!Task(s).kind = "user" => i \in 1..Phones /\ run[s].at = 1 + i
           /\ Seed!Task(s).kind = "purchase" => i \in 1..Phones /\ run[s].at = 1 + Phones + i
           /\ Seed!Task(s).kind = "sell" => i \in 1..Phones /\ run[s].at = 1 + 2 * Phones + i
           /\ Seed!Task(s).kind = "news" => i \in 1..Items /\ run[s].at = 1 + 3 * Phones + i
           /\ Seed!Task(s).kind = "chat" => i \in 1..Phones /\ run[s].at = 1 + 3 * Phones + Items + i
           /\ Seed!Task(s).kind = "gold" => run[s].at = SeedGold
           /\ Seed!Task(s).kind = "levels" => run[s].at = SeedGold + 1
<1>1. run[s].at \in 1..Len(Seed!Plan)
  BY Zenon DEF SeedRunShape
<1>2. QED
  BY <1>1, SeedKindIs, Zenon DEF Seed!Task

LEMMA SeedQuietGrows ==
    ASSUME Seed!SeedAssumption, SeedRunShape, SeedRowsShape, SeedFlags, NEW s \in Slots, SeedQuiet(s)
    PROVE  SeedRowsShape' /\ SeedFlags' /\ SeedGrows
<1>1. CASE Seed!Crash(s)
  <2>1. SeedRowSame /\ owed' = owed /\ overlapped' = overlapped
    BY <1>1, Zenon DEF Seed!Crash, SeedRowSame, Seed!trade, Seed!rest
  <2>2. mixed' \in SUBSET (1..Phones)
    <3>1. CASE run[s].pc \in {"say", "thread"}
      <4>1. Seed!Task(s).kind = "chat" /\ SeedActive(s)
        BY <3>1, SMT DEF SeedRunShape, SeedActive
      <4>2. Seed!Task(s).i \in 1..Phones
        BY <4>1, SeedTaskIs, Zenon
      <4>3. QED
        BY <1>1, <3>1, <4>2, Zenon DEF Seed!Crash, SeedRowsShape
    <3>2. CASE run[s].pc \notin {"say", "thread"}
      BY <1>1, <3>2, Zenon DEF Seed!Crash, SeedRowsShape
    <3>3. QED
      BY <3>1, <3>2
  <2>3. SeedHistories
    BY <2>1, <2>2, Zenon DEF SeedHistories, SeedRowsShape, SeedFlags
  <2>4. QED
    BY <2>1, <2>3, SeedSameGrows, Zenon
<1>2. CASE Seed!CountPrices(s)
  <2>1. SeedRowSame /\ owed' = owed /\ mixed' = mixed
    BY <1>2, Zenon DEF Seed!CountPrices, Seed!Calls, SeedRowSame, Seed!trade, Seed!talk
  <2>2. overlapped' \in BOOLEAN
    BY <1>2, Zenon DEF Seed!CountPrices, SeedFlags
  <2>3. SeedHistories
    BY <2>1, <2>2, Zenon DEF SeedHistories, SeedRowsShape
  <2>4. QED
    BY <2>1, <2>3, SeedSameGrows, Zenon
<1>3. CASE Seed!Start(s)
  <2>1. SeedRowSame /\ owed' = owed /\ mixed' = mixed /\ overlapped' = overlapped
    BY <1>3, Zenon DEF Seed!Start, SeedRowSame, Seed!trade, Seed!talk, Seed!rest
  <2>2. QED
    BY <2>1, SeedSameGrows, Zenon DEF SeedHistories, SeedRowsShape, SeedFlags
<1>4. CASE Seed!FindAdmin(s)
  <2>1. SeedRowSame /\ owed' = owed /\ mixed' = mixed /\ overlapped' = overlapped
    BY <1>4, Zenon DEF Seed!FindAdmin, Seed!Calls, SeedRowSame, Seed!trade, Seed!talk, Seed!rest
  <2>2. QED
    BY <2>1, SeedSameGrows, Zenon DEF SeedHistories, SeedRowsShape, SeedFlags
<1>5. CASE Seed!FindUser(s)
  <2>1. SeedRowSame /\ owed' = owed /\ mixed' = mixed /\ overlapped' = overlapped
    BY <1>5, Zenon DEF Seed!FindUser, Seed!Calls, SeedRowSame, Seed!trade, Seed!talk, Seed!rest
  <2>2. QED
    BY <2>1, SeedSameGrows, Zenon DEF SeedHistories, SeedRowsShape, SeedFlags
<1>6. CASE Seed!FindPurchase(s)
  <2>1. SeedRowSame /\ owed' = owed /\ mixed' = mixed /\ overlapped' = overlapped
    BY <1>6, Zenon DEF Seed!FindPurchase, Seed!Calls, SeedRowSame, Seed!trade, Seed!talk, Seed!rest
  <2>2. QED
    BY <2>1, SeedSameGrows, Zenon DEF SeedHistories, SeedRowsShape, SeedFlags
<1>7. CASE Seed!FindBuyer(s)
  <2>1. SeedRowSame /\ owed' = owed /\ mixed' = mixed /\ overlapped' = overlapped
    BY <1>7, Zenon DEF Seed!FindBuyer, Seed!Calls, SeedRowSame, Seed!trade, Seed!talk, Seed!rest
  <2>2. QED
    BY <2>1, SeedSameGrows, Zenon DEF SeedHistories, SeedRowsShape, SeedFlags
<1>8. CASE Seed!FindSeller(s)
  <2>1. SeedRowSame /\ owed' = owed /\ mixed' = mixed /\ overlapped' = overlapped
    BY <1>8, Zenon DEF Seed!FindSeller, Seed!Calls, SeedRowSame, Seed!trade, Seed!talk, Seed!rest
  <2>2. QED
    BY <2>1, SeedSameGrows, Zenon DEF SeedHistories, SeedRowsShape, SeedFlags
<1>9. CASE Seed!FindSell(s)
  <2>1. SeedRowSame /\ owed' = owed /\ mixed' = mixed /\ overlapped' = overlapped
    BY <1>9, Zenon DEF Seed!FindSell, Seed!Calls, SeedRowSame, Seed!trade, Seed!talk, Seed!rest
  <2>2. QED
    BY <2>1, SeedSameGrows, Zenon DEF SeedHistories, SeedRowsShape, SeedFlags
<1>10. CASE Seed!FindNews(s)
  <2>1. SeedRowSame /\ owed' = owed /\ mixed' = mixed /\ overlapped' = overlapped
    BY <1>10, Zenon DEF Seed!FindNews, Seed!Calls, SeedRowSame, Seed!trade, Seed!talk, Seed!rest
  <2>2. QED
    BY <2>1, SeedSameGrows, Zenon DEF SeedHistories, SeedRowsShape, SeedFlags
<1>11. CASE Seed!FindTalker(s)
  <2>1. SeedRowSame /\ owed' = owed /\ mixed' = mixed /\ overlapped' = overlapped
    BY <1>11, Zenon DEF Seed!FindTalker, Seed!Calls, SeedRowSame, Seed!trade, Seed!talk, Seed!rest
  <2>2. QED
    BY <2>1, SeedSameGrows, Zenon DEF SeedHistories, SeedRowsShape, SeedFlags
<1>12. QED
  BY <1>1, <1>2, <1>3, <1>4, <1>5, <1>6, <1>7, <1>8, <1>9, <1>10, <1>11, Zenon DEF SeedQuiet

LEMMA SeedWritesGrow ==
    ASSUME Seed!SeedAssumption, SeedRunShape, SeedRowsShape, SeedFlags, NEW s \in Slots, SeedRunActs(s), ~SeedQuiet(s)
    PROVE  SeedRowsShape' /\ SeedFlags' /\ SeedGrows
<1>0. Lines \in Nat /\ Seed!Live \in Nat /\ Lines > 0 /\ Lines < Seed!Live
  BY SeedPlanEnds, SMT DEF Seed!Live
<1>1. CASE Seed!MakeAdmin(s)
  <2>1. UNCHANGED <<customer, purchase, sell, news, chats, threads, histories, levels, owed, mixed, overlapped>> /\
          admin' = TRUE
    BY <1>1, Zenon DEF Seed!MakeAdmin, Seed!Calls, Seed!trade, Seed!talk, Seed!rest
  <2>3. SeedRowsShape'
    BY <2>1, Zenon DEF SeedRowsShape
  <2>4. SeedFlags' /\ SeedGrows
    BY <2>1, Zenon DEF SeedFlags, SeedGrows
  <2>5. QED
    BY <2>3, <2>4
<1>2. CASE Seed!MakeUser(s)
  <2>1. UNCHANGED <<admin, purchase, sell, news, chats, threads, histories, levels, owed, mixed, overlapped>>
    BY <1>2, Zenon DEF Seed!MakeUser, Seed!Calls, Seed!trade, Seed!talk, Seed!rest
  <2>2. customer' \in [1..Phones -> {"none", "mock", "real"}] /\ \A p \in 1..Phones : customer[p] # "none" =>
          customer'[p] # "none"
    <3> DEFINE i == Seed!Task(s).i
    <3>1. customer' = customer \/ customer' = [customer EXCEPT ![i] = "mock"]
      BY <1>2, Zenon DEF Seed!MakeUser
    <3> HIDE DEF i
    <3>2. "mock" # "none" /\ "first" # "none" /\ <<>> \in Seq(1..Seed!Live)
      BY SMT
    <3>3. QED
      BY <3>1, <3>2, SeedOnePlace, Zenon DEF SeedRowsShape
  <2>3. SeedRowsShape'
    BY <2>1, <2>2, Zenon DEF SeedRowsShape
  <2>4. SeedFlags' /\ SeedGrows
    BY <2>1, <2>2, Zenon DEF SeedFlags, SeedGrows
  <2>5. QED
    BY <2>3, <2>4
<1>3. CASE Seed!WritePurchase(s)
  <2>1. UNCHANGED <<admin, customer, sell, news, chats, threads, histories, levels, owed, mixed, overlapped>>
    BY <1>3, Zenon DEF Seed!WritePurchase, Seed!Calls, Seed!talk, Seed!rest
  <2>2. /\ purchase' \in [1..Phones -> Seed!Row]
        /\ \A p \in 1..Phones : /\ (purchase[p].status # "none" => purchase'[p].status # "none")
                              /\ (purchase[p].numbered => purchase'[p].numbered)
    <3> DEFINE i == Seed!Task(s).i
    <3>1. i \in 1..Phones
      <4>1. SeedActive(s) /\ Seed!Task(s).kind = "purchase"
        BY <1>3, SMT DEF Seed!WritePurchase, Seed!At, SeedActive
      <4>2. QED
        BY <4>1, SeedTaskIs, Zenon
    <3>2. \/ purchase' = purchase
          \/ purchase' = [purchase EXCEPT ![i] = [status |-> "first", numbered |-> TRUE]]
          \/ purchase' = [purchase EXCEPT ![i] = Seed!Patched(purchase[i])]
      <4>1. purchase \in [1..Phones -> Seed!Row]
        BY Zenon DEF SeedRowsShape
      <4>2. QED
        BY <1>3, <3>1, <4>1, Zenon DEF Seed!WritePurchase
    <3> HIDE DEF i
    <3>3. purchase \in [1..Phones -> Seed!Row] /\ purchase[i] \in Seed!Row
      BY <3>1, Zenon DEF SeedRowsShape
    <3>4. /\ Seed!Patched(purchase[i]) \in Seed!Row /\ Seed!Patched(purchase[i]).status = purchase[i].status /\
               Seed!Patched(purchase[i]).numbered
      <4>1. Seed!Patched(purchase[i]) \in Seed!Row /\
              Seed!Patched(purchase[i]) = [status |-> purchase[i].status, numbered |-> TRUE]
        BY <3>3, SeedPatchedIs, Zenon
      <4>2. QED
        BY <4>1, SMT
    <3>5. /\ [status |-> "first", numbered |-> TRUE] \in Seed!Row
          /\ [status |-> "first", numbered |-> TRUE].status # "none" /\ [status |-> "first", numbered |-> TRUE].numbered
      BY SMT DEF Seed!Row
    <3>6. \/ purchase' = purchase
          \/ \E r \in Seed!Row : purchase' = [purchase EXCEPT ![i] = r] /\ r.numbered /\
               (purchase[i].status # "none" => r.status # "none")
      BY <3>2, <3>4, <3>5, Zenon
    <3>7. CASE purchase' = purchase
      BY <3>3, <3>7, Zenon
    <3>8. ASSUME NEW r \in Seed!Row, purchase' = [purchase EXCEPT ![i] = r], r.numbered,
                 purchase[i].status # "none" => r.status # "none"
          PROVE  /\ purchase' \in [1..Phones -> Seed!Row]
                 /\ \A p \in 1..Phones : /\ (purchase[p].status # "none" => purchase'[p].status # "none")
                                         /\ (purchase[p].numbered => purchase'[p].numbered)
      <4>1. purchase' \in [1..Phones -> Seed!Row]
        BY <3>3, <3>8, Zenon
      <4>2. \A p \in 1..Phones : purchase'[p] = purchase[p] \/ (purchase'[p] = r /\ p = i)
        BY <3>3, <3>8, SMT
      <4>3. QED
        BY <3>8, <4>1, <4>2, Zenon
    <3>9. QED
      BY <3>6, <3>7, <3>8, Zenon
  <2>3. SeedRowsShape'
    BY <2>1, <2>2, Zenon DEF SeedRowsShape
  <2>4. SeedFlags' /\ SeedGrows
    BY <2>1, <2>2, Zenon DEF SeedFlags, SeedGrows
  <2>5. QED
    BY <2>3, <2>4
<1>4. CASE Seed!WriteSell(s)
  <2>1. UNCHANGED <<admin, customer, purchase, news, chats, threads, histories, levels, owed, mixed, overlapped>>
    BY <1>4, Zenon DEF Seed!WriteSell, Seed!Calls, Seed!talk, Seed!rest
  <2>2. /\ sell' \in [1..Phones -> Seed!Row]
        /\ \A p \in 1..Phones : /\ (sell[p].status # "none" => sell'[p].status # "none")
                              /\ (sell[p].numbered => sell'[p].numbered)
    <3> DEFINE i == Seed!Task(s).i
    <3>1. i \in 1..Phones
      <4>1. SeedActive(s) /\ Seed!Task(s).kind = "sell"
        BY <1>4, SMT DEF Seed!WriteSell, Seed!At, SeedActive
      <4>2. QED
        BY <4>1, SeedTaskIs, Zenon
    <3>2. \/ sell' = sell
          \/ sell' = [sell EXCEPT ![i] = [status |-> "first", numbered |-> TRUE]]
          \/ sell' = [sell EXCEPT ![i] = Seed!Patched(sell[i])]
      <4>1. sell \in [1..Phones -> Seed!Row]
        BY Zenon DEF SeedRowsShape
      <4>2. QED
        BY <1>4, <3>1, <4>1, Zenon DEF Seed!WriteSell
    <3> HIDE DEF i
    <3>3. sell \in [1..Phones -> Seed!Row] /\ sell[i] \in Seed!Row
      BY <3>1, Zenon DEF SeedRowsShape
    <3>4. /\ Seed!Patched(sell[i]) \in Seed!Row /\ Seed!Patched(sell[i]).status = sell[i].status /\
               Seed!Patched(sell[i]).numbered
      <4>1. Seed!Patched(sell[i]) \in Seed!Row /\ Seed!Patched(sell[i]) = [status |-> sell[i].status, numbered |-> TRUE]
        BY <3>3, SeedPatchedIs, Zenon
      <4>2. QED
        BY <4>1, SMT
    <3>5. /\ [status |-> "first", numbered |-> TRUE] \in Seed!Row
          /\ [status |-> "first", numbered |-> TRUE].status # "none" /\ [status |-> "first", numbered |-> TRUE].numbered
      BY SMT DEF Seed!Row
    <3>6. \/ sell' = sell
          \/ \E r \in Seed!Row : sell' = [sell EXCEPT ![i] = r] /\ r.numbered /\
               (sell[i].status # "none" => r.status # "none")
      BY <3>2, <3>4, <3>5, Zenon
    <3>7. CASE sell' = sell
      BY <3>3, <3>7, Zenon
    <3>8. ASSUME NEW r \in Seed!Row, sell' = [sell EXCEPT ![i] = r], r.numbered,
                 sell[i].status # "none" => r.status # "none"
          PROVE  /\ sell' \in [1..Phones -> Seed!Row]
                 /\ \A p \in 1..Phones : /\ (sell[p].status # "none" => sell'[p].status # "none")
                                         /\ (sell[p].numbered => sell'[p].numbered)
      <4>1. sell' \in [1..Phones -> Seed!Row]
        BY <3>3, <3>8, Zenon
      <4>2. \A p \in 1..Phones : sell'[p] = sell[p] \/ (sell'[p] = r /\ p = i)
        BY <3>3, <3>8, SMT
      <4>3. QED
        BY <3>8, <4>1, <4>2, Zenon
    <3>9. QED
      BY <3>6, <3>7, <3>8, Zenon
  <2>3. SeedRowsShape'
    BY <2>1, <2>2, Zenon DEF SeedRowsShape
  <2>4. SeedFlags' /\ SeedGrows
    BY <2>1, <2>2, Zenon DEF SeedFlags, SeedGrows
  <2>5. QED
    BY <2>3, <2>4
<1>5. CASE Seed!WriteNews(s)
  <2>1. UNCHANGED <<admin, customer, purchase, sell, chats, threads, histories, levels, owed, mixed, overlapped>>
    BY <1>5, Zenon DEF Seed!WriteNews, Seed!Calls, Seed!talk, Seed!rest
  <2>2. news' \in [1..Items -> {"none", "first", "moved"}] /\ \A n \in 1..Items : news[n] # "none" => news'[n] # "none"
    <3> DEFINE i == Seed!Task(s).i
    <3>1. news' = news \/ news' = [news EXCEPT ![i] = "first"]
      BY <1>5, Zenon DEF Seed!WriteNews
    <3> HIDE DEF i
    <3>2. "mock" # "none" /\ "first" # "none" /\ <<>> \in Seq(1..Seed!Live)
      BY SMT
    <3>3. QED
      BY <3>1, <3>2, SeedOnePlace, Zenon DEF SeedRowsShape
  <2>3. SeedRowsShape'
    BY <2>1, <2>2, Zenon DEF SeedRowsShape
  <2>4. SeedFlags' /\ SeedGrows
    BY <2>1, <2>2, Zenon DEF SeedFlags, SeedGrows
  <2>5. QED
    BY <2>3, <2>4
<1>6. CASE Seed!WriteThread(s)
  <2>1. UNCHANGED <<admin, customer, purchase, sell, news, chats, histories, levels, owed, mixed, overlapped>>
    BY <1>6, Zenon DEF Seed!WriteThread, Seed!Calls, Seed!trade, Seed!rest
  <2>2. threads' \in [1..Phones -> 0..Seed!Live] /\ \A p \in 1..Phones : threads[p] # 0 => threads'[p] # 0
    <3> DEFINE i == Seed!Task(s).i
    <3>1. threads' = [threads EXCEPT ![i] = Lines]
      BY <1>6, Zenon DEF Seed!WriteThread
    <3> HIDE DEF i
    <3>2. Lines \in 0..Seed!Live /\ Lines # 0
      BY <1>0, SMT
    <3>3. QED
      BY <3>1, <3>2, SeedOnePlace, Zenon DEF SeedRowsShape
  <2>3. SeedRowsShape'
    BY <2>1, <2>2, Zenon DEF SeedRowsShape
  <2>4. SeedFlags' /\ SeedGrows
    BY <2>1, <2>2, Zenon DEF SeedFlags, SeedGrows
  <2>5. QED
    BY <2>3, <2>4
<1>7. CASE Seed!MakePrices(s)
  <2>1. UNCHANGED <<admin, customer, purchase, sell, news, chats, threads, levels, owed, mixed, overlapped>>
    BY <1>7, Zenon DEF Seed!MakePrices, Seed!Calls, Seed!trade, Seed!talk
  <2>2. histories' \in Nat /\ (histories > 0 => histories' > 0)
    BY <1>7, SMT DEF Seed!MakePrices, SeedRowsShape
  <2>3. SeedRowsShape'
    BY <2>1, <2>2, Zenon DEF SeedRowsShape
  <2>4. SeedFlags' /\ SeedGrows
    BY <2>1, <2>2, Zenon DEF SeedFlags, SeedGrows
  <2>5. QED
    BY <2>3, <2>4
<1>8. CASE Seed!MakeLevels(s)
  <2>1. UNCHANGED <<admin, customer, purchase, sell, news, chats, threads, histories, owed, mixed, overlapped>> /\
          levels' = TRUE
    BY <1>8, Zenon DEF Seed!MakeLevels, Seed!Calls, Seed!trade, Seed!talk
  <2>3. SeedRowsShape'
    BY <2>1, Zenon DEF SeedRowsShape
  <2>4. SeedFlags' /\ SeedGrows
    BY <2>1, Zenon DEF SeedFlags, SeedGrows
  <2>5. QED
    BY <2>3, <2>4
<1>9. CASE Seed!ClearChat(s)
  <2>1. UNCHANGED <<admin, customer, purchase, sell, news, threads, histories, levels, owed, overlapped>>
    BY <1>9, Zenon DEF Seed!ClearChat, Seed!Calls, Seed!trade, Seed!rest
  <2>2. chats' \in [1..Phones -> Seq(1..Seed!Live)]
    <3> DEFINE i == Seed!Task(s).i
    <3>1. chats' = [chats EXCEPT ![i] = <<>>]
      BY <1>9, Zenon DEF Seed!ClearChat, Seed!Cleared
    <3> HIDE DEF i
    <3>2. "mock" # "none" /\ "first" # "none" /\ <<>> \in Seq(1..Seed!Live)
      BY SMT
    <3>3. QED
      BY <3>1, <3>2, SeedOnePlace, Zenon DEF SeedRowsShape
  <2>3. Seed!Task(s).i \in 1..Phones
    BY <1>9, SeedTaskIs, SMT DEF Seed!ClearChat, Seed!At, SeedActive
  <2>4. mixed' \in SUBSET (1..Phones)
    <3>1. mixed' = mixed \cup {Seed!Task(s).i} \/ mixed' = mixed \ {Seed!Task(s).i}
      BY <1>9, Zenon DEF Seed!ClearChat
    <3>2. QED
      BY <2>3, <3>1, Zenon DEF SeedRowsShape
  <2>5. SeedRowsShape'
    BY <2>1, <2>2, <2>4, Zenon DEF SeedRowsShape
  <2>6. SeedFlags' /\ SeedGrows
    BY <2>1, Zenon DEF SeedFlags, SeedGrows
  <2>7. QED
    BY <2>5, <2>6
<1>10. CASE Seed!SayLine(s)
  <2>1. UNCHANGED <<admin, customer, purchase, sell, news, threads, histories, levels, owed, mixed, overlapped>>
    BY <1>10, Zenon DEF Seed!SayLine, Seed!Calls, Seed!trade, Seed!rest
  <2>2. run[s].line + 1 \in 1..Seed!Live
    BY <1>10, <1>0, SMT DEF Seed!SayLine, Seed!At, SeedRunShape, SeedActive
  <2>3. chats' \in [1..Phones -> Seq(1..Seed!Live)]
    <3> DEFINE i == Seed!Task(s).i
               n == run[s].line + 1
    <3>1. chats \in [1..Phones -> Seq(1..Seed!Live)]
      BY Zenon DEF SeedRowsShape
    <3>2. i \in 1..Phones
      <4>1. SeedActive(s) /\ Seed!Task(s).kind = "chat"
        BY <1>10, SMT DEF Seed!SayLine, Seed!At, SeedActive
      <4>2. QED
        BY <4>1, SeedTaskIs, Zenon
    <3>3. chats' = [chats EXCEPT ![i] = Append(chats[i], n)]
      BY <1>10, <3>1, <3>2, Zenon DEF Seed!SayLine
    <3> HIDE DEF i, n
    <3>4. n \in 1..Seed!Live
      BY <2>2, Zenon DEF n
    <3>5. Append(chats[i], n) \in Seq(1..Seed!Live)
      BY <3>1, <3>2, <3>4, SMT
    <3>6. QED
      BY <3>1, <3>3, <3>5, Zenon
  <2>5. SeedRowsShape'
    BY <2>1, <2>3, Zenon DEF SeedRowsShape
  <2>6. SeedFlags' /\ SeedGrows
    BY <2>1, Zenon DEF SeedFlags, SeedGrows
  <2>7. QED
    BY <2>5, <2>6
<1>11. QED
  BY <1>1, <1>2, <1>3, <1>4, <1>5, <1>6, <1>7, <1>8, <1>9, <1>10, Zenon DEF SeedRunActs, SeedQuiet

LEMMA SeedOthersGrow ==
    ASSUME Seed!SeedAssumption, SeedRowsShape, SeedFlags,
           (\E p \in 1..Phones : Seed!Registers(p) \/ Seed!Says(p) \/ Seed!Told(p)) \/ Seed!Moving
    PROVE  SeedRowsShape' /\ SeedFlags' /\ SeedGrows
<1>0. Lines \in Nat /\ Seed!Live \in Nat /\ Lines > 0 /\ Lines < Seed!Live
  BY SeedPlanEnds, SMT DEF Seed!Live
<1>1. ASSUME NEW p \in 1..Phones, Seed!Registers(p) PROVE SeedRowsShape' /\ SeedFlags' /\ SeedGrows
  <2>1. UNCHANGED <<admin, purchase, sell, news, chats, threads, histories, levels, owed, mixed, overlapped>>
    BY <1>1, Zenon DEF Seed!Registers, Seed!Turn, Seed!trade, Seed!talk, Seed!rest
  <2>2. /\ customer' \in [1..Phones -> {"none", "mock", "real"}]
        /\ \A q \in 1..Phones : customer[q] # "none" => customer'[q] # "none"
    BY <1>1, SMT DEF Seed!Registers, SeedRowsShape
  <2>3. SeedRowsShape'
    BY <2>1, <2>2, Zenon DEF SeedRowsShape
  <2>4. SeedFlags' /\ SeedGrows
    BY <2>1, <2>2, Zenon DEF SeedFlags, SeedGrows
  <2>5. QED
    BY <2>3, <2>4
<1>2. ASSUME NEW p \in 1..Phones, Seed!Says(p) PROVE SeedRowsShape' /\ SeedFlags' /\ SeedGrows
  <2>1. UNCHANGED <<admin, customer, purchase, sell, news, threads, histories, levels, overlapped>>
    BY <1>2, Zenon DEF Seed!Says, Seed!Turn, Seed!trade, Seed!rest
  <2>2. owed' \in SUBSET (1..Phones) /\ mixed' \in SUBSET (1..Phones)
    <3>1. owed' = owed \cup {p} /\ (mixed' = mixed \/ mixed' = mixed \cup {p})
      BY <1>2, Zenon DEF Seed!Says
    <3>2. QED
      BY <3>1, Zenon DEF SeedRowsShape
  <2>3. chats' \in [1..Phones -> Seq(1..Seed!Live)]
    BY <1>0, <1>2, SMT DEF Seed!Says, SeedRowsShape
  <2>4. SeedRowsShape'
    BY <2>1, <2>2, <2>3, Zenon DEF SeedRowsShape
  <2>5. SeedFlags' /\ SeedGrows
    BY <2>1, Zenon DEF SeedFlags, SeedGrows
  <2>6. QED
    BY <2>4, <2>5
<1>3. ASSUME NEW p \in 1..Phones, Seed!Told(p) PROVE SeedRowsShape' /\ SeedFlags' /\ SeedGrows
  <2>1. UNCHANGED <<admin, customer, purchase, sell, news, chats, histories, levels, mixed, overlapped>>
    BY <1>3, Zenon DEF Seed!Told, Seed!trade, Seed!rest
  <2>2. owed' \in SUBSET (1..Phones)
    BY <1>3, Zenon DEF Seed!Told, SeedRowsShape
  <2>3. threads' \in [1..Phones -> 0..Seed!Live] /\ \A q \in 1..Phones : threads[q] # 0 => threads'[q] # 0
    BY <1>0, <1>3, SMT DEF Seed!Told, SeedRowsShape
  <2>4. SeedRowsShape'
    BY <2>1, <2>2, <2>3, Zenon DEF SeedRowsShape
  <2>5. SeedFlags' /\ SeedGrows
    BY <2>1, <2>3, Zenon DEF SeedFlags, SeedGrows
  <2>6. QED
    BY <2>4, <2>5
<1>4. ASSUME Seed!Moving PROVE SeedRowsShape' /\ SeedFlags' /\ SeedGrows
  <2>1. UNCHANGED <<admin, customer, chats, threads, histories, levels, owed, mixed, overlapped>>
    BY <1>4, Zenon DEF Seed!Moving, Seed!Turn, Seed!talk, Seed!rest
  <2>2. /\ purchase' \in [1..Phones -> Seed!Row]
        /\ \A p \in 1..Phones : /\ (purchase[p].status # "none" => purchase'[p].status # "none")
                                /\ (purchase[p].numbered => purchase'[p].numbered)
    <3>1. purchase \in [1..Phones -> Seed!Row]
      BY Zenon DEF SeedRowsShape
    <3>2. purchase' = purchase \/ \E q \in 1..Phones : purchase' = [purchase EXCEPT ![q] = Seed!Moves(purchase[q])]
      BY <1>4, <3>1, SMT DEF Seed!Moving
    <3>3. ASSUME NEW q \in 1..Phones, purchase' = [purchase EXCEPT ![q] = Seed!Moves(purchase[q])]
          PROVE  /\ purchase' \in [1..Phones -> Seed!Row]
                 /\ \A p \in 1..Phones : /\ (purchase[p].status # "none" => purchase'[p].status # "none")
                                         /\ (purchase[p].numbered => purchase'[p].numbered)
      <4> DEFINE r == Seed!Moves(purchase[q])
      <4>1. purchase[q] \in Seed!Row
        BY <3>1, Zenon
      <4>2. r \in Seed!Row /\ r.status # "none" /\ r.numbered = purchase[q].numbered
        BY <4>1, SMT DEF Seed!Moves, Seed!Row
      <4>3. purchase' = [purchase EXCEPT ![q] = r]
        BY <3>3, Zenon
      <4> HIDE DEF r
      <4>4. purchase' \in [1..Phones -> Seed!Row]
        BY <3>1, <4>2, <4>3, Zenon
      <4>5. \A p \in 1..Phones : purchase'[p] = purchase[p] \/ (purchase'[p] = r /\ p = q)
        BY <3>1, <4>3, SMT
      <4>6. QED
        BY <4>2, <4>4, <4>5, Zenon
    <3>4. CASE purchase' = purchase
      BY <3>1, <3>4, Zenon
    <3>5. QED
      BY <3>2, <3>3, <3>4, Zenon
  <2>3. /\ sell' \in [1..Phones -> Seed!Row]
        /\ \A p \in 1..Phones : /\ (sell[p].status # "none" => sell'[p].status # "none")
                                /\ (sell[p].numbered => sell'[p].numbered)
    <3>1. sell \in [1..Phones -> Seed!Row]
      BY Zenon DEF SeedRowsShape
    <3>2. sell' = sell \/ \E q \in 1..Phones : sell' = [sell EXCEPT ![q] = Seed!Moves(sell[q])]
      BY <1>4, <3>1, SMT DEF Seed!Moving
    <3>3. ASSUME NEW q \in 1..Phones, sell' = [sell EXCEPT ![q] = Seed!Moves(sell[q])]
          PROVE  /\ sell' \in [1..Phones -> Seed!Row]
                 /\ \A p \in 1..Phones : /\ (sell[p].status # "none" => sell'[p].status # "none")
                                         /\ (sell[p].numbered => sell'[p].numbered)
      <4> DEFINE r == Seed!Moves(sell[q])
      <4>1. sell[q] \in Seed!Row
        BY <3>1, Zenon
      <4>2. r \in Seed!Row /\ r.status # "none" /\ r.numbered = sell[q].numbered
        BY <4>1, SMT DEF Seed!Moves, Seed!Row
      <4>3. sell' = [sell EXCEPT ![q] = r]
        BY <3>3, Zenon
      <4> HIDE DEF r
      <4>4. sell' \in [1..Phones -> Seed!Row]
        BY <3>1, <4>2, <4>3, Zenon
      <4>5. \A p \in 1..Phones : sell'[p] = sell[p] \/ (sell'[p] = r /\ p = q)
        BY <3>1, <4>3, SMT
      <4>6. QED
        BY <4>2, <4>4, <4>5, Zenon
    <3>4. CASE sell' = sell
      BY <3>1, <3>4, Zenon
    <3>5. QED
      BY <3>2, <3>3, <3>4, Zenon
  <2>4. /\ news' \in [1..Items -> {"none", "first", "moved"}]
        /\ \A n \in 1..Items : news[n] # "none" => news'[n] # "none"
    <3>1. news \in [1..Items -> {"none", "first", "moved"}]
      BY Zenon DEF SeedRowsShape
    <3>2. news' = news \/ \E m \in 1..Items : news' = [news EXCEPT ![m] = "moved"]
      BY <1>4, <3>1, Zenon DEF Seed!Moving
    <3>3. QED
      BY <3>1, <3>2, SeedOnePlace, Zenon
  <2>5. SeedRowsShape'
    BY <2>1, <2>2, <2>3, <2>4, Zenon DEF SeedRowsShape
  <2>6. SeedFlags' /\ SeedGrows
    BY <2>1, <2>2, <2>3, <2>4, Zenon DEF SeedFlags, SeedGrows
  <2>7. QED
    BY <2>5, <2>6
<1>5. QED
  BY <1>1, <1>2, <1>3, <1>4, Zenon

LEMMA SeedGrown ==
    ASSUME Seed!SeedAssumption, SeedRunShape, SeedRowsShape, SeedFlags, Seed!Next
    PROVE  SeedRowsShape' /\ SeedFlags' /\ SeedGrows
BY SeedNextCases, SeedQuietGrows, SeedWritesGrow, SeedOthersGrow, Zenon

LEMMA SeedThereGrows ==
    ASSUME Seed!SeedAssumption, SeedGrows, NEW k \in 1..Len(Seed!Plan), SeedThere(k)
    PROVE  SeedThere(k)'
<1> DEFINE P == Seed!Plan[k]
           i == P.i
<1>1. /\ P.kind = "user" => i \in 1..Phones
      /\ P.kind = "purchase" => i \in 1..Phones
      /\ P.kind = "sell" => i \in 1..Phones
      /\ P.kind = "news" => i \in 1..Items
      /\ P.kind = "chat" => i \in 1..Phones
  BY SeedKindIs, Zenon
<1>2. /\ P.kind = "admin" => admin
      /\ P.kind = "user" => customer[i] # "none"
      /\ P.kind = "purchase" => purchase[i].status # "none" /\ purchase[i].numbered
      /\ P.kind = "sell" => sell[i].status # "none" /\ sell[i].numbered
      /\ P.kind = "news" => news[i] # "none"
      /\ P.kind = "chat" => threads[i] # 0
      /\ P.kind = "gold" => histories > 0
      /\ P.kind = "levels" => levels
  BY Zenon DEF SeedThere
<1> SUFFICES
      /\ P.kind = "admin" => admin'
      /\ P.kind = "user" => customer'[i] # "none"
      /\ P.kind = "purchase" => purchase'[i].status # "none" /\ purchase'[i].numbered
      /\ P.kind = "sell" => sell'[i].status # "none" /\ sell'[i].numbered
      /\ P.kind = "news" => news'[i] # "none"
      /\ P.kind = "chat" => threads'[i] # 0
      /\ P.kind = "gold" => histories' > 0
      /\ P.kind = "levels" => levels'
  BY Zenon DEF SeedThere
<1> HIDE DEF P, i
<1>3. QED
  BY <1>1, <1>2, Zenon DEF SeedGrows

SeedPatchOk(s) == /\ Seed!At(s, "patch", "purchase") => purchase[Seed!Task(s).i].status # "none"
                  /\ Seed!At(s, "patch", "sell") => sell[Seed!Task(s).i].status # "none"

LEMMA SeedGoIs ==
    ASSUME SeedRunShape, NEW s \in Slots, NEW pc, Seed!Go(s, pc)
    PROVE  run'[s].pc = pc /\ run'[s].at = run[s].at
BY SMT DEF SeedRunShape, Seed!Go

LEMMA SeedGoElsewhere ==
    ASSUME SeedRunShape, NEW s \in Slots, NEW pc, Seed!Go(s, pc),
           pc # "patch" \/ Seed!Task(s).kind \notin {"purchase", "sell"}
    PROVE  SeedPatchOk(s)'
<1>1. run'[s].pc = pc /\ run'[s].at = run[s].at
  BY SeedGoIs
<1>2. QED
  BY <1>1, SMT DEF SeedPatchOk, Seed!At, Seed!Task

SeedLeaves(s) == \/ SeedBegins(s) \/ SeedEnds(s) \/ SeedTalks(s)
                 \/ SeedPasses(s) /\ (\A k \in 1..Len(Seed!Plan) : k = run[s].at => SeedThere(k)')
                 \/ SeedTurns(s) /\ SeedPatchOk(s)'

LEMMA SeedNowThere ==
    ASSUME NEW s \in Slots,
           /\ Seed!Task(s).kind \in SeedJobKinds
           /\ Seed!Task(s).kind = "admin" => admin'
           /\ Seed!Task(s).kind = "user" => customer'[Seed!Task(s).i] # "none"
           /\ Seed!Task(s).kind = "purchase" =>
                purchase'[Seed!Task(s).i].status # "none" /\ purchase'[Seed!Task(s).i].numbered
           /\ Seed!Task(s).kind = "sell" => sell'[Seed!Task(s).i].status # "none" /\ sell'[Seed!Task(s).i].numbered
           /\ Seed!Task(s).kind = "news" => news'[Seed!Task(s).i] # "none"
           /\ Seed!Task(s).kind = "chat" => threads'[Seed!Task(s).i] # 0
           /\ Seed!Task(s).kind = "gold" => histories' > 0
           /\ Seed!Task(s).kind = "levels" => levels'
    PROVE  (\A k \in 1..Len(Seed!Plan) : k = run[s].at => SeedThere(k)')
<1> SUFFICES ASSUME NEW k \in 1..Len(Seed!Plan), k = run[s].at PROVE SeedThere(k)'
  OBVIOUS
<1> DEFINE P == Seed!Plan[k]
           i == P.i
<1>1. Seed!Task(s) = P
  BY Zenon DEF Seed!Task
<1>2. /\ P.kind = "admin" => admin'
      /\ P.kind = "user" => customer'[i] # "none"
      /\ P.kind = "purchase" => purchase'[i].status # "none" /\ purchase'[i].numbered
      /\ P.kind = "sell" => sell'[i].status # "none" /\ sell'[i].numbered
      /\ P.kind = "news" => news'[i] # "none"
      /\ P.kind = "chat" => threads'[i] # 0
      /\ P.kind = "gold" => histories' > 0
      /\ P.kind = "levels" => levels'
  BY <1>1, Zenon
<1>3. QED
  BY <1>2, Zenon DEF SeedThere

LEMMA SeedOwnerThere ==
    ASSUME Seed!SeedAssumption, SeedRunShape, SeedAllBehind, NEW s \in Slots, SeedActive(s),
           Seed!Task(s).kind \in {"purchase", "sell", "chat"}
    PROVE  customer[Seed!Task(s).i] # "none"
<1> DEFINE i == Seed!Task(s).i
<1>0. Phones \in Nat /\ Items \in Nat /\ Len(Seed!Plan) = 3 + 4 * Phones + Items
  BY SeedPlanEnds, SeedPlanIs
<1>1. i \in 1..Phones /\ run[s].at \in 1..Len(Seed!Plan) /\ run[s].at > 1 + i
  <2>1. i \in 1..Phones /\ (\/ run[s].at = 1 + Phones + i \/ run[s].at = 1 + 2 * Phones + i
                            \/ run[s].at = 1 + 3 * Phones + Items + i)
    BY SeedTaskIs, SMT
  <2>2. run[s].at \in 1..Len(Seed!Plan)
    BY Zenon DEF SeedRunShape
  <2> HIDE DEF i
  <2>3. QED
    BY <1>0, <2>1, <2>2, SMT
<1>2. 1 + i \in 1..Len(Seed!Plan) /\ 1 + i < run[s].at
  <2> HIDE DEF i
  <2>1. QED
    BY <1>0, <1>1, SMT
<1>3. SeedThere(1 + i)
  BY <1>2, Zenon DEF SeedAllBehind, SeedBehind
<1>4. Seed!Plan[1 + i] = SeedOf("user", i)
  BY <1>1, SeedPlanIs, Zenon
<1> HIDE DEF i
<1>5. Seed!Plan[1 + i].kind = "user" /\ Seed!Plan[1 + i].i = i
  BY <1>4, SMT DEF SeedOf
<1>6. QED
  BY <1>3, <1>5, Zenon DEF SeedThere, i

LEMMA SeedStepLeaves ==
    ASSUME Seed!SeedAssumption, SeedRunShape, SeedRowsShape, SeedFlags, SeedAllBehind, NEW s \in Slots, SeedRunActs(s)
    PROVE  SeedLeaves(s)
<1>1. CASE Seed!Start(s)
  BY <1>1, Zenon DEF Seed!Start, SeedBegins, SeedActive, SeedLeaves
<1>2. CASE Seed!Crash(s)
  BY <1>2, Zenon DEF Seed!Crash, SeedEnds, SeedActive, SeedLeaves
<1>3. CASE Seed!SayLine(s)
  <2>1. run' = [run EXCEPT ![s] = [pc |-> IF run[s].line + 1 = Lines THEN "thread" ELSE "say",
                                          at |-> run[s].at, line |-> run[s].line + 1]]
    BY <1>3, SMT DEF Seed!SayLine, SeedRunShape
  <2>2. QED
    BY <1>3, <2>1, Zenon DEF Seed!SayLine, Seed!At, SeedTalks, Seed!Calls, SeedLeaves
<1>4. CASE Seed!FindAdmin(s)
  <2>1. SeedActive(s) /\ Seed!Task(s).kind = "admin" /\ run[s].pc = "find" /\ UNCHANGED <<begun, acts>>
    BY <1>4, SMT DEF Seed!FindAdmin, Seed!At, SeedActive, Seed!Calls
  <2>2. (Seed!Skip(s) /\ admin') \/ Seed!Go(s, "make")
    BY <1>4, Zenon DEF Seed!FindAdmin
  <2>3. CASE Seed!Skip(s) /\ admin'
    <3>1. (\A k \in 1..Len(Seed!Plan) : k = run[s].at => SeedThere(k)')
      BY <2>1, <2>3, SeedNowThere, SMT DEF SeedJobKinds
    <3>2. QED
      BY <2>1, <2>3, <3>1, Zenon DEF SeedLeaves, SeedPasses
  <2>4. CASE Seed!Go(s, "make")
    <3>1. SeedPatchOk(s)'
      BY <2>1, <2>4, SeedGoElsewhere, SMT
    <3>2. QED
      BY <2>1, <2>4, <3>1, SMT DEF SeedLeaves, SeedTurns
  <2>5. QED
    BY <2>2, <2>3, <2>4, Zenon
<1>5. CASE Seed!MakeAdmin(s)
  <2>1. SeedActive(s) /\ Seed!Task(s).kind = "admin" /\ run[s].pc = "make" /\ UNCHANGED <<begun, acts>>
    BY <1>5, SMT DEF Seed!MakeAdmin, Seed!At, SeedActive, Seed!Calls
  <2>2. (Seed!Skip(s) /\ admin') \/ Seed!Stop(s)
    BY <1>5, Zenon DEF Seed!MakeAdmin
  <2>3. CASE Seed!Skip(s) /\ admin'
    <3>1. (\A k \in 1..Len(Seed!Plan) : k = run[s].at => SeedThere(k)')
      BY <2>1, <2>3, SeedNowThere, SMT DEF SeedJobKinds
    <3>2. QED
      BY <2>1, <2>3, <3>1, Zenon DEF SeedLeaves, SeedPasses
  <2>4. CASE Seed!Stop(s)
    BY <2>1, <2>4, Zenon DEF SeedLeaves, SeedEnds
  <2>5. QED
    BY <2>2, <2>3, <2>4, Zenon
<1>6. CASE Seed!FindUser(s)
  <2>1. SeedActive(s) /\ Seed!Task(s).kind = "user" /\ run[s].pc = "find" /\ UNCHANGED <<begun, acts>>
    BY <1>6, SMT DEF Seed!FindUser, Seed!At, SeedActive, Seed!Calls
  <2>2. (Seed!Skip(s) /\ customer'[Seed!Task(s).i] # "none") \/ Seed!Go(s, "make")
    BY <1>6, Zenon DEF Seed!FindUser, Seed!KnownUser
  <2>3. CASE Seed!Skip(s) /\ customer'[Seed!Task(s).i] # "none"
    <3>1. (\A k \in 1..Len(Seed!Plan) : k = run[s].at => SeedThere(k)')
      BY <2>1, <2>3, SeedNowThere, SMT DEF SeedJobKinds
    <3>2. QED
      BY <2>1, <2>3, <3>1, Zenon DEF SeedLeaves, SeedPasses
  <2>4. CASE Seed!Go(s, "make")
    <3>1. SeedPatchOk(s)'
      BY <2>1, <2>4, SeedGoElsewhere, SMT
    <3>2. QED
      BY <2>1, <2>4, <3>1, SMT DEF SeedLeaves, SeedTurns
  <2>5. QED
    BY <2>2, <2>3, <2>4, Zenon
<1>7. CASE Seed!MakeUser(s)
  <2>1. SeedActive(s) /\ Seed!Task(s).kind = "user" /\ run[s].pc = "make" /\ UNCHANGED <<begun, acts>>
    BY <1>7, SMT DEF Seed!MakeUser, Seed!At, SeedActive, Seed!Calls
  <2>2. (Seed!Skip(s) /\ customer'[Seed!Task(s).i] # "none") \/ Seed!Stop(s)
    <3>1. Seed!Task(s).i \in 1..Phones
      BY <2>1, SeedTaskIs, Zenon
    <3>2. CASE customer[Seed!Task(s).i] = "none"
      <4>1. Seed!Skip(s) /\ customer' = [customer EXCEPT ![Seed!Task(s).i] = "mock"]
        BY <1>7, <3>2, Zenon DEF Seed!MakeUser
      <4>2. customer'[Seed!Task(s).i] = "mock"
        BY <3>1, <4>1, Zenon DEF SeedRowsShape
      <4>3. QED
        BY <4>1, <4>2, SMT
    <3>3. CASE customer[Seed!Task(s).i] # "none"
      BY <1>7, <3>3, Zenon DEF Seed!MakeUser
    <3>4. QED
      BY <3>2, <3>3
  <2>3. CASE Seed!Skip(s) /\ customer'[Seed!Task(s).i] # "none"
    <3>1. (\A k \in 1..Len(Seed!Plan) : k = run[s].at => SeedThere(k)')
      BY <2>1, <2>3, SeedNowThere, SMT DEF SeedJobKinds
    <3>2. QED
      BY <2>1, <2>3, <3>1, Zenon DEF SeedLeaves, SeedPasses
  <2>4. CASE Seed!Stop(s)
    BY <2>1, <2>4, Zenon DEF SeedLeaves, SeedEnds
  <2>5. QED
    BY <2>2, <2>3, <2>4, Zenon
<1>8. CASE Seed!FindNews(s)
  <2>1. SeedActive(s) /\ Seed!Task(s).kind = "news" /\ run[s].pc = "find" /\ UNCHANGED <<begun, acts>>
    BY <1>8, SMT DEF Seed!FindNews, Seed!At, SeedActive, Seed!Calls
  <2>2. (Seed!Skip(s) /\ news'[Seed!Task(s).i] # "none") \/ Seed!Go(s, "make")
    BY <1>8, Zenon DEF Seed!FindNews, Seed!trade
  <2>3. CASE Seed!Skip(s) /\ news'[Seed!Task(s).i] # "none"
    <3>1. (\A k \in 1..Len(Seed!Plan) : k = run[s].at => SeedThere(k)')
      BY <2>1, <2>3, SeedNowThere, SMT DEF SeedJobKinds
    <3>2. QED
      BY <2>1, <2>3, <3>1, Zenon DEF SeedLeaves, SeedPasses
  <2>4. CASE Seed!Go(s, "make")
    <3>1. SeedPatchOk(s)'
      BY <2>1, <2>4, SeedGoElsewhere, SMT
    <3>2. QED
      BY <2>1, <2>4, <3>1, SMT DEF SeedLeaves, SeedTurns
  <2>5. QED
    BY <2>2, <2>3, <2>4, Zenon
<1>9. CASE Seed!WriteNews(s)
  <2>1. SeedActive(s) /\ Seed!Task(s).kind = "news" /\ run[s].pc = "make" /\ UNCHANGED <<begun, acts>>
    BY <1>9, SMT DEF Seed!WriteNews, Seed!At, SeedActive, Seed!Calls
  <2>2. (Seed!Skip(s) /\ news'[Seed!Task(s).i] # "none") \/ Seed!Stop(s)
    <3>1. Seed!Task(s).i \in 1..Items
      BY <2>1, SeedTaskIs, Zenon
    <3>2. CASE news[Seed!Task(s).i] = "none"
      <4>1. Seed!Skip(s) /\ news' = [news EXCEPT ![Seed!Task(s).i] = "first"]
        BY <1>9, <3>2, Zenon DEF Seed!WriteNews
      <4>2. news'[Seed!Task(s).i] = "first"
        BY <3>1, <4>1, Zenon DEF SeedRowsShape
      <4>3. QED
        BY <4>1, <4>2, SMT
    <3>3. CASE news[Seed!Task(s).i] # "none"
      BY <1>9, <3>3, Zenon DEF Seed!WriteNews
    <3>4. QED
      BY <3>2, <3>3
  <2>3. CASE Seed!Skip(s) /\ news'[Seed!Task(s).i] # "none"
    <3>1. (\A k \in 1..Len(Seed!Plan) : k = run[s].at => SeedThere(k)')
      BY <2>1, <2>3, SeedNowThere, SMT DEF SeedJobKinds
    <3>2. QED
      BY <2>1, <2>3, <3>1, Zenon DEF SeedLeaves, SeedPasses
  <2>4. CASE Seed!Stop(s)
    BY <2>1, <2>4, Zenon DEF SeedLeaves, SeedEnds
  <2>5. QED
    BY <2>2, <2>3, <2>4, Zenon
<1>10. CASE Seed!WriteThread(s)
  <2>1. SeedActive(s) /\ Seed!Task(s).kind = "chat" /\ run[s].pc = "thread" /\ UNCHANGED <<begun, acts>>
    BY <1>10, SMT DEF Seed!WriteThread, Seed!At, SeedActive, Seed!Calls
  <2>2. (Seed!Skip(s) /\ threads'[Seed!Task(s).i] # 0) \/ FALSE
    <3>1. Seed!Task(s).i \in 1..Phones
      BY <2>1, SeedTaskIs, Zenon
    <3>2. Seed!Skip(s) /\ threads' = [threads EXCEPT ![Seed!Task(s).i] = Lines]
      BY <1>10, Zenon DEF Seed!WriteThread
    <3>3. threads'[Seed!Task(s).i] = Lines
      BY <3>1, <3>2, Zenon DEF SeedRowsShape
    <3>4. Lines # 0
      BY SeedPlanEnds, SMT
    <3>5. QED
      BY <3>2, <3>3, <3>4, Zenon
  <2>3. CASE Seed!Skip(s) /\ threads'[Seed!Task(s).i] # 0
    <3>1. (\A k \in 1..Len(Seed!Plan) : k = run[s].at => SeedThere(k)')
      BY <2>1, <2>3, SeedNowThere, SMT DEF SeedJobKinds
    <3>2. QED
      BY <2>1, <2>3, <3>1, Zenon DEF SeedLeaves, SeedPasses
  <2>5. QED
    BY <2>2, <2>3, Zenon
<1>11. CASE Seed!CountPrices(s)
  <2>1. SeedActive(s) /\ Seed!Task(s).kind = "gold" /\ run[s].pc = "find" /\ UNCHANGED <<begun, acts>>
    BY <1>11, SMT DEF Seed!CountPrices, Seed!At, SeedActive, Seed!Calls
  <2>2. (Seed!Skip(s) /\ histories' > 0) \/ Seed!Go(s, "make")
    BY <1>11, Zenon DEF Seed!CountPrices, Seed!Written
  <2>3. CASE Seed!Skip(s) /\ histories' > 0
    <3>1. (\A k \in 1..Len(Seed!Plan) : k = run[s].at => SeedThere(k)')
      BY <2>1, <2>3, SeedNowThere, SMT DEF SeedJobKinds
    <3>2. QED
      BY <2>1, <2>3, <3>1, Zenon DEF SeedLeaves, SeedPasses
  <2>4. CASE Seed!Go(s, "make")
    <3>1. SeedPatchOk(s)'
      BY <2>1, <2>4, SeedGoElsewhere, SMT
    <3>2. QED
      BY <2>1, <2>4, <3>1, SMT DEF SeedLeaves, SeedTurns
  <2>5. QED
    BY <2>2, <2>3, <2>4, Zenon
<1>12. CASE Seed!MakePrices(s)
  <2>1. SeedActive(s) /\ Seed!Task(s).kind = "gold" /\ run[s].pc = "make" /\ UNCHANGED <<begun, acts>>
    BY <1>12, SMT DEF Seed!MakePrices, Seed!At, SeedActive, Seed!Calls
  <2>2. (Seed!Skip(s) /\ histories' > 0) \/ FALSE
    <3>1. Seed!Skip(s) /\ histories' = histories + 1
      BY <1>12, Zenon DEF Seed!MakePrices
    <3>2. histories' > 0
      BY <3>1, SMT DEF SeedRowsShape
    <3>3. QED
      BY <3>1, <3>2
  <2>3. CASE Seed!Skip(s) /\ histories' > 0
    <3>1. (\A k \in 1..Len(Seed!Plan) : k = run[s].at => SeedThere(k)')
      BY <2>1, <2>3, SeedNowThere, SMT DEF SeedJobKinds
    <3>2. QED
      BY <2>1, <2>3, <3>1, Zenon DEF SeedLeaves, SeedPasses
  <2>5. QED
    BY <2>2, <2>3, Zenon
<1>13. CASE Seed!MakeLevels(s)
  <2>1. SeedActive(s) /\ Seed!Task(s).kind = "levels" /\ run[s].pc = "find" /\ UNCHANGED <<begun, acts>>
    BY <1>13, SMT DEF Seed!MakeLevels, Seed!At, SeedActive, Seed!Calls
  <2>2. (Seed!Skip(s) /\ levels') \/ FALSE
    BY <1>13, Zenon DEF Seed!MakeLevels
  <2>3. CASE Seed!Skip(s) /\ levels'
    <3>1. (\A k \in 1..Len(Seed!Plan) : k = run[s].at => SeedThere(k)')
      BY <2>1, <2>3, SeedNowThere, SMT DEF SeedJobKinds
    <3>2. QED
      BY <2>1, <2>3, <3>1, Zenon DEF SeedLeaves, SeedPasses
  <2>5. QED
    BY <2>2, <2>3, Zenon
<1>14. CASE Seed!FindBuyer(s)
  <2>1. SeedActive(s) /\ Seed!Task(s).kind = "purchase" /\ run[s].pc = "owner" /\ UNCHANGED <<begun, acts>>
    BY <1>14, SMT DEF Seed!FindBuyer, Seed!At, SeedActive, Seed!Calls
  <2>2. customer[Seed!Task(s).i] # "none"
    BY <2>1, SeedOwnerThere, SMT
  <2>3. Seed!Go(s, "make")
    BY <1>14, <2>2, Zenon DEF Seed!FindBuyer
  <2>4. SeedPatchOk(s)'
    BY <2>1, <2>3, SeedGoElsewhere, SMT
  <2>5. QED
    BY <2>1, <2>3, <2>4, SMT DEF SeedLeaves, SeedTurns
<1>15. CASE Seed!FindSeller(s)
  <2>1. SeedActive(s) /\ Seed!Task(s).kind = "sell" /\ run[s].pc = "find" /\ UNCHANGED <<begun, acts>>
    BY <1>15, SMT DEF Seed!FindSeller, Seed!At, SeedActive, Seed!Calls
  <2>2. customer[Seed!Task(s).i] # "none"
    BY <2>1, SeedOwnerThere, SMT
  <2>3. Seed!Go(s, "row")
    BY <1>15, <2>2, Zenon DEF Seed!FindSeller
  <2>4. SeedPatchOk(s)'
    BY <2>1, <2>3, SeedGoElsewhere, SMT
  <2>5. QED
    BY <2>1, <2>3, <2>4, SMT DEF SeedLeaves, SeedTurns
<1>16. CASE Seed!FindTalker(s)
  <2>1. SeedActive(s) /\ Seed!Task(s).kind = "chat" /\ run[s].pc = "find" /\ UNCHANGED <<begun, acts>>
    BY <1>16, SMT DEF Seed!FindTalker, Seed!At, SeedActive, Seed!Calls
  <2>2. customer[Seed!Task(s).i] # "none"
    BY <2>1, SeedOwnerThere, SMT
  <2>3. Seed!Go(s, "clear")
    BY <1>16, <2>2, Zenon DEF Seed!FindTalker
  <2>4. SeedPatchOk(s)'
    BY <2>1, <2>3, SeedGoElsewhere, SMT
  <2>5. QED
    BY <2>1, <2>3, <2>4, SMT DEF SeedLeaves, SeedTurns
<1>17. CASE Seed!ClearChat(s)
  <2>1. SeedActive(s) /\ Seed!Task(s).kind = "chat" /\ run[s].pc = "clear" /\ UNCHANGED <<begun, acts>>
    BY <1>17, SMT DEF Seed!ClearChat, Seed!At, SeedActive, Seed!Calls
  <2>2. Seed!Go(s, "say")
    BY <1>17, Zenon DEF Seed!ClearChat
  <2>3. SeedPatchOk(s)'
    BY <2>1, <2>2, SeedGoElsewhere, SMT
  <2>4. QED
    BY <2>1, <2>2, <2>3, SMT DEF SeedLeaves, SeedTurns
<1>18. CASE Seed!FindPurchase(s)
  <2>1. SeedActive(s) /\ Seed!Task(s).kind = "purchase" /\ run[s].pc = "find" /\ UNCHANGED <<begun, acts>> /\
          purchase' = purchase
    BY <1>18, SMT DEF Seed!FindPurchase, Seed!At, SeedActive, Seed!Calls, Seed!trade
  <2>2. \/ Seed!Go(s, "owner")
        \/ purchase[Seed!Task(s).i].status # "none" /\ purchase[Seed!Task(s).i].numbered /\ Seed!Skip(s)
        \/ purchase[Seed!Task(s).i].status # "none" /\ Seed!Go(s, "patch")
    BY <1>18, Zenon DEF Seed!FindPurchase
  <2>3. CASE Seed!Go(s, "owner")
    <3>1. SeedPatchOk(s)'
      BY <2>1, <2>3, SeedGoElsewhere, SMT
    <3>2. QED
      BY <2>1, <2>3, <3>1, SMT DEF SeedLeaves, SeedTurns
  <2>4. CASE purchase[Seed!Task(s).i].status # "none" /\ purchase[Seed!Task(s).i].numbered /\ Seed!Skip(s)
    <3>1. purchase'[Seed!Task(s).i].status # "none" /\ purchase'[Seed!Task(s).i].numbered
      BY <2>1, <2>4, Zenon
    <3>2. (\A k \in 1..Len(Seed!Plan) : k = run[s].at => SeedThere(k)')
      BY <2>1, <3>1, SeedNowThere, SMT DEF SeedJobKinds
    <3>3. QED
      BY <2>1, <2>4, <3>2, Zenon DEF SeedLeaves, SeedPasses
  <2>5. CASE purchase[Seed!Task(s).i].status # "none" /\ Seed!Go(s, "patch")
    <3>1. run'[s].at = run[s].at
      BY <2>5, SeedGoIs, Zenon
    <3>2. SeedPatchOk(s)'
      BY <2>1, <2>5, <3>1, SMT DEF SeedPatchOk, Seed!At, Seed!Task
    <3>3. QED
      BY <2>1, <2>5, <3>2, SMT DEF SeedLeaves, SeedTurns
  <2>6. QED
    BY <2>2, <2>3, <2>4, <2>5, Zenon
<1>19. CASE Seed!FindSell(s)
  <2>1. SeedActive(s) /\ Seed!Task(s).kind = "sell" /\ run[s].pc = "row" /\ UNCHANGED <<begun, acts>> /\ sell' = sell
    BY <1>19, SMT DEF Seed!FindSell, Seed!At, SeedActive, Seed!Calls, Seed!trade
  <2>2. \/ Seed!Go(s, "make")
        \/ sell[Seed!Task(s).i].status # "none" /\ sell[Seed!Task(s).i].numbered /\ Seed!Skip(s)
        \/ sell[Seed!Task(s).i].status # "none" /\ Seed!Go(s, "patch")
    BY <1>19, Zenon DEF Seed!FindSell
  <2>3. CASE Seed!Go(s, "make")
    <3>1. SeedPatchOk(s)'
      BY <2>1, <2>3, SeedGoElsewhere, SMT
    <3>2. QED
      BY <2>1, <2>3, <3>1, SMT DEF SeedLeaves, SeedTurns
  <2>4. CASE sell[Seed!Task(s).i].status # "none" /\ sell[Seed!Task(s).i].numbered /\ Seed!Skip(s)
    <3>1. sell'[Seed!Task(s).i].status # "none" /\ sell'[Seed!Task(s).i].numbered
      BY <2>1, <2>4, Zenon
    <3>2. (\A k \in 1..Len(Seed!Plan) : k = run[s].at => SeedThere(k)')
      BY <2>1, <3>1, SeedNowThere, SMT DEF SeedJobKinds
    <3>3. QED
      BY <2>1, <2>4, <3>2, Zenon DEF SeedLeaves, SeedPasses
  <2>5. CASE sell[Seed!Task(s).i].status # "none" /\ Seed!Go(s, "patch")
    <3>1. run'[s].at = run[s].at
      BY <2>5, SeedGoIs, Zenon
    <3>2. SeedPatchOk(s)'
      BY <2>1, <2>5, <3>1, SMT DEF SeedPatchOk, Seed!At, Seed!Task
    <3>3. QED
      BY <2>1, <2>5, <3>2, SMT DEF SeedLeaves, SeedTurns
  <2>6. QED
    BY <2>2, <2>3, <2>4, <2>5, Zenon
<1>20. CASE Seed!WritePurchase(s)
  <2> DEFINE i == Seed!Task(s).i
             new == [status |-> "first", numbered |-> TRUE]
  <2>1. SeedActive(s) /\ Seed!Task(s).kind = "purchase" /\ UNCHANGED <<begun, acts>>
    BY <1>20, SMT DEF Seed!WritePurchase, Seed!At, SeedActive, Seed!Calls
  <2>2. i \in 1..Phones /\ purchase \in [1..Phones -> Seed!Row] /\ purchase[i] \in Seed!Row
    BY <2>1, SeedTaskIs, Zenon DEF SeedRowsShape
  <2>3. \/ run[s].pc = "patch" /\ purchase' = [purchase EXCEPT ![i] = Seed!Patched(purchase[i])] /\ Seed!Skip(s)
        \/ purchase' = [purchase EXCEPT ![i] = new] /\ Seed!Skip(s)
        \/ Seed!Stop(s)
    BY <1>20, <2>2, Zenon DEF Seed!WritePurchase, Seed!At
  <2>4. CASE run[s].pc = "patch" /\ purchase' = [purchase EXCEPT ![i] = Seed!Patched(purchase[i])] /\ Seed!Skip(s)
    <3>1. purchase[i].status # "none"
      BY <2>1, <2>4, Zenon DEF SeedAllBehind, SeedBehind, Seed!At
    <3>2. purchase'[i] = [status |-> purchase[i].status, numbered |-> TRUE]
      BY <2>2, <2>4, SeedPatchedIs, Zenon
    <3> HIDE DEF i
    <3>3. purchase'[i].status # "none" /\ purchase'[i].numbered
      BY <3>1, <3>2, SMT
    <3>4. (\A k \in 1..Len(Seed!Plan) : k = run[s].at => SeedThere(k)')
      BY <2>1, <3>3, SeedNowThere, SMT DEF SeedJobKinds, i
    <3>5. QED
      BY <2>1, <2>4, <3>4, Zenon DEF SeedLeaves, SeedPasses
  <2>5. CASE purchase' = [purchase EXCEPT ![i] = new] /\ Seed!Skip(s)
    <3>1. purchase'[i] = new
      BY <2>2, <2>5, Zenon
    <3> HIDE DEF i
    <3>2. purchase'[i].status # "none" /\ purchase'[i].numbered
      BY <3>1, SMT
    <3>3. (\A k \in 1..Len(Seed!Plan) : k = run[s].at => SeedThere(k)')
      BY <2>1, <3>2, SeedNowThere, SMT DEF SeedJobKinds, i
    <3>4. QED
      BY <2>1, <2>5, <3>3, Zenon DEF SeedLeaves, SeedPasses
  <2>6. CASE Seed!Stop(s)
    BY <2>1, <2>6, Zenon DEF SeedLeaves, SeedEnds
  <2>7. QED
    BY <2>3, <2>4, <2>5, <2>6, Zenon
<1>21. CASE Seed!WriteSell(s)
  <2> DEFINE i == Seed!Task(s).i
             new == [status |-> "first", numbered |-> TRUE]
  <2>1. SeedActive(s) /\ Seed!Task(s).kind = "sell" /\ UNCHANGED <<begun, acts>>
    BY <1>21, SMT DEF Seed!WriteSell, Seed!At, SeedActive, Seed!Calls
  <2>2. i \in 1..Phones /\ sell \in [1..Phones -> Seed!Row] /\ sell[i] \in Seed!Row
    BY <2>1, SeedTaskIs, Zenon DEF SeedRowsShape
  <2>3. \/ run[s].pc = "patch" /\ sell' = [sell EXCEPT ![i] = Seed!Patched(sell[i])] /\ Seed!Skip(s)
        \/ sell' = [sell EXCEPT ![i] = new] /\ Seed!Skip(s)
        \/ Seed!Stop(s)
    BY <1>21, <2>2, Zenon DEF Seed!WriteSell, Seed!At
  <2>4. CASE run[s].pc = "patch" /\ sell' = [sell EXCEPT ![i] = Seed!Patched(sell[i])] /\ Seed!Skip(s)
    <3>1. sell[i].status # "none"
      BY <2>1, <2>4, Zenon DEF SeedAllBehind, SeedBehind, Seed!At
    <3>2. sell'[i] = [status |-> sell[i].status, numbered |-> TRUE]
      BY <2>2, <2>4, SeedPatchedIs, Zenon
    <3> HIDE DEF i
    <3>3. sell'[i].status # "none" /\ sell'[i].numbered
      BY <3>1, <3>2, SMT
    <3>4. (\A k \in 1..Len(Seed!Plan) : k = run[s].at => SeedThere(k)')
      BY <2>1, <3>3, SeedNowThere, SMT DEF SeedJobKinds, i
    <3>5. QED
      BY <2>1, <2>4, <3>4, Zenon DEF SeedLeaves, SeedPasses
  <2>5. CASE sell' = [sell EXCEPT ![i] = new] /\ Seed!Skip(s)
    <3>1. sell'[i] = new
      BY <2>2, <2>5, Zenon
    <3> HIDE DEF i
    <3>2. sell'[i].status # "none" /\ sell'[i].numbered
      BY <3>1, SMT
    <3>3. (\A k \in 1..Len(Seed!Plan) : k = run[s].at => SeedThere(k)')
      BY <2>1, <3>2, SeedNowThere, SMT DEF SeedJobKinds, i
    <3>4. QED
      BY <2>1, <2>5, <3>3, Zenon DEF SeedLeaves, SeedPasses
  <2>6. CASE Seed!Stop(s)
    BY <2>1, <2>6, Zenon DEF SeedLeaves, SeedEnds
  <2>7. QED
    BY <2>3, <2>4, <2>5, <2>6, Zenon
<1>22. QED
  BY <1>1, <1>2, <1>3, <1>4, <1>5, <1>6, <1>7, <1>8, <1>9, <1>10, <1>11, <1>12, <1>13, <1>14, <1>15, <1>16, <1>17,
     <1>18, <1>19, <1>20, <1>21, Zenon
     DEF SeedRunActs

LEMMA SeedBehindSame ==
    ASSUME Seed!SeedAssumption, SeedRunShape, SeedGrows, NEW o \in Slots, SeedBehind(o), run'[o] = run[o]
    PROVE  SeedBehind(o)'
<1>1. SeedActive(o) => \A k \in 1..Len(Seed!Plan) : k < run[o].at => SeedThere(k)'
  BY SeedThereGrows, Zenon DEF SeedBehind
<1>2. run[o].pc = "done" => \A k \in 1..Len(Seed!Plan) : SeedThere(k)'
  BY SeedThereGrows, Zenon DEF SeedBehind
<1>3. Seed!At(o, "patch", "purchase") => purchase'[Seed!Task(o).i].status # "none"
  <2>1. SUFFICES ASSUME Seed!At(o, "patch", "purchase") PROVE purchase'[Seed!Task(o).i].status # "none"
    OBVIOUS
  <2>2. SeedActive(o) /\ Seed!Task(o).kind = "purchase"
    BY <2>1, SMT DEF Seed!At, SeedActive
  <2>3. Seed!Task(o).i \in 1..Phones /\ purchase[Seed!Task(o).i].status # "none"
    BY <2>1, <2>2, SeedTaskIs, Zenon DEF SeedBehind
  <2>4. QED
    BY <2>3, Zenon DEF SeedGrows
<1>4. Seed!At(o, "patch", "sell") => sell'[Seed!Task(o).i].status # "none"
  <2>1. SUFFICES ASSUME Seed!At(o, "patch", "sell") PROVE sell'[Seed!Task(o).i].status # "none"
    OBVIOUS
  <2>2. SeedActive(o) /\ Seed!Task(o).kind = "sell"
    BY <2>1, SMT DEF Seed!At, SeedActive
  <2>3. Seed!Task(o).i \in 1..Phones /\ sell[Seed!Task(o).i].status # "none"
    BY <2>1, <2>2, SeedTaskIs, Zenon DEF SeedBehind
  <2>4. QED
    BY <2>3, Zenon DEF SeedGrows
<1>5. (SeedActive(o)' <=> SeedActive(o)) /\ Seed!Task(o)' = Seed!Task(o)
  BY Zenon DEF SeedActive, Seed!Task
<1>6. QED
  BY <1>1, <1>2, <1>3, <1>4, <1>5, Zenon DEF SeedBehind, Seed!At

LEMMA SeedBehindIs ==
    ASSUME NEW s \in Slots,
           run'[s].pc \notin {"off", "done"} => \A k \in 1..Len(Seed!Plan) : k < run'[s].at => SeedThere(k)',
           run'[s].pc = "done" => \A k \in 1..Len(Seed!Plan) : SeedThere(k)',
           SeedPatchOk(s)'
    PROVE  SeedBehind(s)'
BY Zenon DEF SeedBehind, SeedPatchOk, SeedActive

LEMMA SeedNotPatching ==
    ASSUME NEW s \in Slots, run'[s].pc # "patch"
    PROVE  SeedPatchOk(s)'
BY Zenon DEF SeedPatchOk, Seed!At

LEMMA SeedAllBehindKept ==
    ASSUME Seed!SeedAssumption, SeedRunShape, SeedRowsShape, SeedFlags, SeedAllBehind, Seed!Next
    PROVE  SeedAllBehind'
<1>1. SeedGrows
  BY SeedGrown
<1>2. Len(Seed!Plan) \in Nat /\ Len(Seed!Plan) >= 1
  BY SeedPlanEnds, SMT
<1>3. ASSUME NEW s \in Slots, SeedRunActs(s) PROVE SeedAllBehind'
  <2>1. SeedLeaves(s)
    BY <1>3, SeedStepLeaves
  <2>2. ASSUME NEW o \in Slots, o # s PROVE SeedBehind(o)'
    <3>1. run'[o] = run[o]
      <4>1. \E r : run' = [run EXCEPT ![s] = r]
        BY <1>3, SeedRunMoves, Zenon DEF SeedBegins, SeedEnds, Seed!Stop, SeedPasses, Seed!Skip, SeedTurns, Seed!Go,
             SeedTalks
      <4>2. QED
        BY <2>2, <4>1, Zenon DEF SeedRunShape
    <3>2. QED
      BY <1>1, <3>1, SeedBehindSame, Zenon DEF SeedAllBehind
  <2>3. SeedBehind(s)'
    <3>1. CASE SeedBegins(s)
      <4>1. run'[s] = [pc |-> "find", at |-> 1, line |-> 0]
        BY <3>1, Zenon DEF SeedBegins, SeedRunShape
      <4>2. run'[s].pc = "find" /\ run'[s].at = 1
        BY <4>1, SMT
      <4>3. \A k \in 1..Len(Seed!Plan) : ~(k < run'[s].at)
        BY <1>2, <4>2, SMT
      <4>4. run'[s].pc # "done" /\ run'[s].pc # "patch"
        BY <4>2, SMT
      <4>5. QED
        BY <4>3, <4>4, SeedBehindIs, SeedNotPatching, Zenon
    <3>2. CASE SeedEnds(s)
      <4>1. run'[s] = Seed!Idle
        BY <3>2, Zenon DEF SeedEnds, Seed!Stop, SeedRunShape
      <4>2. run'[s].pc = "off" /\ run'[s].pc # "done" /\ run'[s].pc # "patch"
        BY <4>1, SMT DEF Seed!Idle
      <4>3. QED
        BY <4>2, SeedBehindIs, SeedNotPatching, Zenon
    <3>3. CASE SeedTalks(s)
      <4>1. run'[s] = [pc |-> IF run[s].line + 1 = Lines THEN "thread" ELSE "say",
                       at |-> run[s].at, line |-> run[s].line + 1]
        BY <3>3, Zenon DEF SeedTalks, SeedRunShape
      <4>2. run'[s].pc \in {"say", "thread"} /\ run'[s].at = run[s].at
        BY <4>1, SMT
      <4>3. SeedActive(s) /\ run'[s].pc # "done" /\ run'[s].pc # "patch"
        BY <3>3, <4>2, SMT DEF SeedTalks, SeedActive
      <4>4. \A k \in 1..Len(Seed!Plan) : k < run'[s].at => SeedThere(k)'
        BY <1>1, <4>2, <4>3, SeedThereGrows, Zenon DEF SeedAllBehind, SeedBehind
      <4>5. QED
        BY <4>3, <4>4, SeedBehindIs, SeedNotPatching, Zenon
    <3>4. CASE SeedTurns(s) /\ SeedPatchOk(s)'
      <4>1. SeedActive(s) /\ run'[s].at = run[s].at /\ run'[s].pc # "done"
        <5>1. PICK pc \in {"owner", "row", "patch", "make", "clear", "say"} : Seed!Go(s, pc)
          BY <3>4, SMT DEF SeedTurns
        <5>2. run'[s].pc = pc /\ run'[s].at = run[s].at
          BY <5>1, SeedGoIs
        <5>3. QED
          BY <3>4, <5>2, SMT DEF SeedTurns
      <4>2. \A k \in 1..Len(Seed!Plan) : k < run'[s].at => SeedThere(k)'
        BY <1>1, <4>1, SeedThereGrows, Zenon DEF SeedAllBehind, SeedBehind
      <4>3. QED
        BY <3>4, <4>1, <4>2, SeedBehindIs, Zenon
    <3>5. CASE SeedPasses(s) /\ (\A k \in 1..Len(Seed!Plan) : k = run[s].at => SeedThere(k)')
      <4>1. run'[s] = Seed!Next1(s) /\ SeedActive(s)
        BY <3>5, Zenon DEF SeedPasses, Seed!Skip, SeedRunShape
      <4>2. run[s].at \in 1..Len(Seed!Plan)
        BY <4>1, Zenon DEF SeedRunShape
      <4>3. \A k \in 1..Len(Seed!Plan) : k < run[s].at => SeedThere(k)'
        BY <1>1, <4>1, SeedThereGrows, Zenon DEF SeedAllBehind, SeedBehind
      <4>4. CASE run[s].at = Len(Seed!Plan)
        <5>1. run'[s].pc = "done"
          BY <4>1, <4>4, SMT DEF Seed!Next1, Seed!Idle
        <5>2. \A k \in 1..Len(Seed!Plan) : k < run[s].at \/ k = run[s].at
          BY <1>2, <4>4, SMT
        <5>3. \A k \in 1..Len(Seed!Plan) : SeedThere(k)'
          BY <3>5, <4>3, <5>2, Zenon
        <5>4. run'[s].pc # "patch"
          BY <5>1, SMT
        <5>5. QED
          BY <5>1, <5>3, <5>4, SeedBehindIs, SeedNotPatching, Zenon
      <4>5. CASE run[s].at # Len(Seed!Plan)
        <5>1. run'[s].pc = "find" /\ run'[s].at = run[s].at + 1
          BY <4>1, <4>5, SMT DEF Seed!Next1
        <5>2. \A k \in 1..Len(Seed!Plan) : k < run[s].at + 1 => k < run[s].at \/ k = run[s].at
          BY <1>2, <4>2, SMT
        <5>3. \A k \in 1..Len(Seed!Plan) : k < run'[s].at => SeedThere(k)'
          BY <3>5, <4>3, <5>1, <5>2, Zenon
        <5>4. run'[s].pc # "patch" /\ run'[s].pc # "done"
          BY <5>1, SMT
        <5>5. QED
          BY <5>3, <5>4, SeedBehindIs, SeedNotPatching, Zenon
      <4>6. QED
        BY <4>4, <4>5
    <3>6. QED
      BY <2>1, <3>1, <3>2, <3>3, <3>4, <3>5, Zenon DEF SeedLeaves
  <2>4. QED
    BY <2>2, <2>3, Zenon DEF SeedAllBehind
<1>4. ASSUME SeedWaits PROVE SeedAllBehind'
  BY <1>1, <1>4, SeedBehindSame, Zenon DEF SeedAllBehind, SeedWaits
<1>5. QED
  BY <1>3, <1>4, SeedNextCases, SeedOthersWait, Zenon

(* How a step of one run leaves the others, and where it takes its own.    *)
LEMMA SeedOthersStand ==
    ASSUME SeedRunShape, NEW s \in Slots, SeedRunActs(s), NEW o \in Slots, o # s
    PROVE  run'[o] = run[o]
<1>1. \E r : run' = [run EXCEPT ![s] = r]
  BY SeedRunMoves, Zenon DEF SeedBegins, SeedEnds, Seed!Stop, SeedPasses, Seed!Skip, SeedTurns, Seed!Go, SeedTalks
<1>2. QED
  BY <1>1, Zenon DEF SeedRunShape

LEMMA SeedSkipIs ==
    ASSUME SeedRunShape, NEW s \in Slots, Seed!Skip(s)
    PROVE  run'[s] = Seed!Next1(s) /\ run'[s].pc \in {"find", "done"}
<1>1. run'[s] = Seed!Next1(s)
  BY Zenon DEF Seed!Skip, SeedRunShape
<1>2. Seed!Next1(s).pc \in {"find", "done"}
  <2>1. CASE run[s].at = Len(Seed!Plan)
    <3>1. Seed!Next1(s) = [pc |-> "done", at |-> 0, line |-> 0]
      BY <2>1, SMT DEF Seed!Next1, Seed!Idle
    <3>2. QED
      BY <3>1, SMT
  <2>2. CASE run[s].at # Len(Seed!Plan)
    <3>1. Seed!Next1(s) = [pc |-> "find", at |-> run[s].at + 1, line |-> 0]
      BY <2>2, SMT DEF Seed!Next1
    <3>2. QED
      BY <3>1, SMT
  <2>3. QED
    BY <2>1, <2>2
<1>3. QED
  BY <1>1, <1>2, Zenon

LEMMA SeedStopIs ==
    ASSUME SeedRunShape, NEW s \in Slots, Seed!Stop(s)
    PROVE  run'[s].pc = "off"
<1>1. run'[s] = Seed!Idle
  BY Zenon DEF Seed!Stop, SeedRunShape
<1>2. QED
  BY <1>1, SMT DEF Seed!Idle

SeedInGold(r) == r.pc \notin {"off", "done"} /\ r.at <= SeedGold

LEMMA SeedPricingIs ==
    SeedPricing = {s \in Slots : SeedInGold(run[s])} /\ SeedPricing' = {s \in Slots : SeedInGold(run'[s])}
BY Zenon DEF SeedPricing, SeedInGold, SeedActive, SeedGold

(* Who writes prices, and who talks.                                       *)
LEMMA SeedGoldActs ==
    ASSUME SeedRunShape, NEW s \in Slots, SeedRunActs(s), ~Seed!CountPrices(s), ~Seed!MakePrices(s)
    PROVE  /\ histories' = histories /\ overlapped' = overlapped
           /\ ~Seed!Start(s) /\ ~Seed!Crash(s) => Seed!Task(s).kind # "gold"
<1>1. CASE Seed!Start(s)
  <2>1. histories' = histories /\ overlapped' = overlapped
    BY <1>1, Zenon DEF Seed!Start, Seed!Calls, Seed!rest
  <2>2. QED
    BY <1>1, <2>1, Zenon
<1>2. CASE Seed!Crash(s)
  <2>1. histories' = histories /\ overlapped' = overlapped
    BY <1>2, Zenon DEF Seed!Crash, Seed!Calls, Seed!rest
  <2>2. QED
    BY <1>2, <2>1, Zenon
<1>3. CASE Seed!FindAdmin(s)
  <2>1. histories' = histories /\ overlapped' = overlapped
    BY <1>3, Zenon DEF Seed!FindAdmin, Seed!Calls, Seed!rest
  <2>2. Seed!Task(s).kind = "admin"
    BY <1>3, Zenon DEF Seed!FindAdmin, Seed!At
  <2>3. Seed!Task(s).kind # "gold"
    BY <2>2, SMT
  <2>4. QED
    BY <2>1, <2>3
<1>4. CASE Seed!MakeAdmin(s)
  <2>1. histories' = histories /\ overlapped' = overlapped
    BY <1>4, Zenon DEF Seed!MakeAdmin, Seed!Calls, Seed!rest
  <2>2. Seed!Task(s).kind = "admin"
    BY <1>4, Zenon DEF Seed!MakeAdmin, Seed!At
  <2>3. Seed!Task(s).kind # "gold"
    BY <2>2, SMT
  <2>4. QED
    BY <2>1, <2>3
<1>5. CASE Seed!FindUser(s)
  <2>1. histories' = histories /\ overlapped' = overlapped
    BY <1>5, Zenon DEF Seed!FindUser, Seed!Calls, Seed!rest
  <2>2. Seed!Task(s).kind = "user"
    BY <1>5, Zenon DEF Seed!FindUser, Seed!At
  <2>3. Seed!Task(s).kind # "gold"
    BY <2>2, SMT
  <2>4. QED
    BY <2>1, <2>3
<1>6. CASE Seed!MakeUser(s)
  <2>1. histories' = histories /\ overlapped' = overlapped
    BY <1>6, Zenon DEF Seed!MakeUser, Seed!Calls, Seed!rest
  <2>2. Seed!Task(s).kind = "user"
    BY <1>6, Zenon DEF Seed!MakeUser, Seed!At
  <2>3. Seed!Task(s).kind # "gold"
    BY <2>2, SMT
  <2>4. QED
    BY <2>1, <2>3
<1>7. CASE Seed!FindPurchase(s)
  <2>1. histories' = histories /\ overlapped' = overlapped
    BY <1>7, Zenon DEF Seed!FindPurchase, Seed!Calls, Seed!rest
  <2>2. Seed!Task(s).kind = "purchase"
    BY <1>7, Zenon DEF Seed!FindPurchase, Seed!At
  <2>3. Seed!Task(s).kind # "gold"
    BY <2>2, SMT
  <2>4. QED
    BY <2>1, <2>3
<1>8. CASE Seed!FindBuyer(s)
  <2>1. histories' = histories /\ overlapped' = overlapped
    BY <1>8, Zenon DEF Seed!FindBuyer, Seed!Calls, Seed!rest
  <2>2. Seed!Task(s).kind = "purchase"
    BY <1>8, Zenon DEF Seed!FindBuyer, Seed!At
  <2>3. Seed!Task(s).kind # "gold"
    BY <2>2, SMT
  <2>4. QED
    BY <2>1, <2>3
<1>9. CASE Seed!WritePurchase(s)
  <2>1. histories' = histories /\ overlapped' = overlapped
    BY <1>9, Zenon DEF Seed!WritePurchase, Seed!Calls, Seed!rest
  <2>2. Seed!Task(s).kind = "purchase"
    BY <1>9, Zenon DEF Seed!WritePurchase, Seed!At
  <2>3. Seed!Task(s).kind # "gold"
    BY <2>2, SMT
  <2>4. QED
    BY <2>1, <2>3
<1>10. CASE Seed!FindSeller(s)
  <2>1. histories' = histories /\ overlapped' = overlapped
    BY <1>10, Zenon DEF Seed!FindSeller, Seed!Calls, Seed!rest
  <2>2. Seed!Task(s).kind = "sell"
    BY <1>10, Zenon DEF Seed!FindSeller, Seed!At
  <2>3. Seed!Task(s).kind # "gold"
    BY <2>2, SMT
  <2>4. QED
    BY <2>1, <2>3
<1>11. CASE Seed!FindSell(s)
  <2>1. histories' = histories /\ overlapped' = overlapped
    BY <1>11, Zenon DEF Seed!FindSell, Seed!Calls, Seed!rest
  <2>2. Seed!Task(s).kind = "sell"
    BY <1>11, Zenon DEF Seed!FindSell, Seed!At
  <2>3. Seed!Task(s).kind # "gold"
    BY <2>2, SMT
  <2>4. QED
    BY <2>1, <2>3
<1>12. CASE Seed!WriteSell(s)
  <2>1. histories' = histories /\ overlapped' = overlapped
    BY <1>12, Zenon DEF Seed!WriteSell, Seed!Calls, Seed!rest
  <2>2. Seed!Task(s).kind = "sell"
    BY <1>12, Zenon DEF Seed!WriteSell, Seed!At
  <2>3. Seed!Task(s).kind # "gold"
    BY <2>2, SMT
  <2>4. QED
    BY <2>1, <2>3
<1>13. CASE Seed!FindNews(s)
  <2>1. histories' = histories /\ overlapped' = overlapped
    BY <1>13, Zenon DEF Seed!FindNews, Seed!Calls, Seed!rest
  <2>2. Seed!Task(s).kind = "news"
    BY <1>13, Zenon DEF Seed!FindNews, Seed!At
  <2>3. Seed!Task(s).kind # "gold"
    BY <2>2, SMT
  <2>4. QED
    BY <2>1, <2>3
<1>14. CASE Seed!WriteNews(s)
  <2>1. histories' = histories /\ overlapped' = overlapped
    BY <1>14, Zenon DEF Seed!WriteNews, Seed!Calls, Seed!rest
  <2>2. Seed!Task(s).kind = "news"
    BY <1>14, Zenon DEF Seed!WriteNews, Seed!At
  <2>3. Seed!Task(s).kind # "gold"
    BY <2>2, SMT
  <2>4. QED
    BY <2>1, <2>3
<1>15. CASE Seed!FindTalker(s)
  <2>1. histories' = histories /\ overlapped' = overlapped
    BY <1>15, Zenon DEF Seed!FindTalker, Seed!Calls, Seed!rest
  <2>2. Seed!Task(s).kind = "chat"
    BY <1>15, Zenon DEF Seed!FindTalker, Seed!At
  <2>3. Seed!Task(s).kind # "gold"
    BY <2>2, SMT
  <2>4. QED
    BY <2>1, <2>3
<1>16. CASE Seed!ClearChat(s)
  <2>1. histories' = histories /\ overlapped' = overlapped
    BY <1>16, Zenon DEF Seed!ClearChat, Seed!Calls, Seed!rest
  <2>2. Seed!Task(s).kind = "chat"
    BY <1>16, Zenon DEF Seed!ClearChat, Seed!At
  <2>3. Seed!Task(s).kind # "gold"
    BY <2>2, SMT
  <2>4. QED
    BY <2>1, <2>3
<1>17. CASE Seed!SayLine(s)
  <2>1. histories' = histories /\ overlapped' = overlapped
    BY <1>17, Zenon DEF Seed!SayLine, Seed!Calls, Seed!rest
  <2>2. Seed!Task(s).kind = "chat"
    BY <1>17, Zenon DEF Seed!SayLine, Seed!At
  <2>3. Seed!Task(s).kind # "gold"
    BY <2>2, SMT
  <2>4. QED
    BY <2>1, <2>3
<1>18. CASE Seed!WriteThread(s)
  <2>1. histories' = histories /\ overlapped' = overlapped
    BY <1>18, Zenon DEF Seed!WriteThread, Seed!Calls, Seed!rest
  <2>2. Seed!Task(s).kind = "chat"
    BY <1>18, Zenon DEF Seed!WriteThread, Seed!At
  <2>3. Seed!Task(s).kind # "gold"
    BY <2>2, SMT
  <2>4. QED
    BY <2>1, <2>3
<1>19. CASE Seed!MakeLevels(s)
  <2>1. histories' = histories /\ overlapped' = overlapped
    BY <1>19, Zenon DEF Seed!MakeLevels, Seed!Calls, Seed!rest
  <2>2. Seed!Task(s).kind = "levels"
    BY <1>19, Zenon DEF Seed!MakeLevels, Seed!At
  <2>3. Seed!Task(s).kind # "gold"
    BY <2>2, SMT
  <2>4. QED
    BY <2>1, <2>3
<1>20. QED
  BY <1>1, <1>2, <1>3, <1>4, <1>5, <1>6, <1>7, <1>8, <1>9, <1>10, <1>11, <1>12, <1>13, <1>14, <1>15, <1>16, <1>17,
     <1>18, <1>19, Zenon
     DEF SeedRunActs

LEMMA SeedCountedBy ==
    ASSUME SeedRunShape, SeedRowsShape, NEW s \in Slots, SeedRunActs(s), NEW o \in Slots, SeedCounted(o)'
    PROVE  SeedCounted(o) \/ (o = s /\ Seed!CountPrices(s) /\ histories = 0)
<1>1. CASE o # s
  <2>1. run'[o] = run[o]
    BY <1>1, SeedOthersStand
  <2>2. QED
    BY <2>1, Zenon DEF SeedCounted, Seed!At, Seed!Task
<1>2. CASE o = s
  <2>1. run'[s].pc = "make" /\ Seed!Plan[run'[s].at].kind = "gold"
    BY <1>2, Zenon DEF SeedCounted, Seed!At, Seed!Task
  <2>2. CASE Seed!Skip(s)
    BY <2>1, <2>2, SeedSkipIs, SMT
  <2>3. CASE Seed!Stop(s)
    BY <2>1, <2>3, SeedStopIs, SMT
  <2>4. CASE SeedBegins(s)
    <3>1. run'[s] = [pc |-> "find", at |-> 1, line |-> 0]
      BY <2>4, Zenon DEF SeedBegins, SeedRunShape
    <3>2. QED
      BY <2>1, <3>1, SMT
  <2>5. CASE SeedTalks(s)
    <3>1. run'[s] = [pc |-> IF run[s].line + 1 = Lines THEN "thread" ELSE "say",
                     at |-> run[s].at, line |-> run[s].line + 1]
      BY <2>5, Zenon DEF SeedTalks, SeedRunShape
    <3>2. QED
      BY <2>1, <3>1, SMT
  <2>6. CASE SeedTurns(s)
    <3>1. PICK pc \in {"owner", "row", "patch", "make", "clear", "say"} : Seed!Go(s, pc)
      BY <2>6, SMT DEF SeedTurns
    <3>2. Seed!Task(s).kind = "gold"
      BY <2>1, <3>1, SeedGoIs, Zenon DEF Seed!Task
    <3>3. ~Seed!Start(s)
      BY <2>6, Zenon DEF SeedTurns, Seed!Start, SeedActive
    <3>4. CASE Seed!Crash(s)
      BY <2>3, <3>4, Zenon DEF Seed!Crash
    <3>5. CASE Seed!CountPrices(s)
      <4>1. CASE histories > 0
        BY <2>2, <3>5, <4>1, Zenon DEF Seed!CountPrices, Seed!Written
      <4>2. CASE ~(histories > 0) /\ ~(histories = 0)
        BY <4>2, SMT DEF SeedRowsShape
      <4>3. QED
        BY <1>2, <3>5, <4>1, <4>2, Zenon
    <3>6. CASE Seed!MakePrices(s)
      BY <2>2, <3>6, Zenon DEF Seed!MakePrices
    <3>7. QED
      BY <3>2, <3>3, <3>4, <3>5, <3>6, SeedGoldActs, Zenon
  <2>7. QED
    BY <2>2, <2>3, <2>4, <2>5, <2>6, SeedRunMoves, Zenon DEF SeedPasses, SeedEnds
<1>3. QED
  BY <1>1, <1>2

(* No run comes to the prices but by a start.                              *)
LEMMA SeedPricingBy ==
    ASSUME Seed!SeedAssumption, SeedRunShape, NEW s \in Slots, SeedRunActs(s), ~SeedBegins(s)
    PROVE  /\ SeedPricing' \in SUBSET SeedPricing /\ begun' = begun
           /\ Seed!MakePrices(s) => s \in SeedPricing /\ s \notin SeedPricing'
<1>0. Len(Seed!Plan) \in Nat /\ Len(Seed!Plan) = SeedGold + 1 /\ SeedGold \in Nat
  BY SeedPlanEnds
<1>1. begun' = begun
  BY SeedRunMoves, Zenon DEF SeedEnds, SeedPasses, SeedTurns, SeedTalks
<1>2. SeedInGold(run'[s]) => SeedInGold(run[s])
  <2>1. CASE SeedEnds(s)
    BY <2>1, SeedStopIs, SMT DEF SeedEnds, SeedInGold
  <2>2. CASE SeedPasses(s)
    <3>1. run'[s] = Seed!Next1(s) /\ SeedActive(s) /\ run[s].at \in 1..Len(Seed!Plan)
      BY <2>2, SeedSkipIs, Zenon DEF SeedPasses, SeedRunShape
    <3>2. CASE run[s].at = Len(Seed!Plan)
      <4>1. run'[s].pc = "done"
        BY <3>1, <3>2, SMT DEF Seed!Next1, Seed!Idle
      <4>2. QED
        BY <4>1, SMT DEF SeedInGold
    <3>3. CASE run[s].at # Len(Seed!Plan)
      <4>1. run'[s].at = run[s].at + 1
        BY <3>1, <3>3, SMT DEF Seed!Next1
      <4>2. QED
        BY <1>0, <3>1, <4>1, SMT DEF SeedInGold, SeedActive
    <3>4. QED
      BY <3>2, <3>3
  <2>3. CASE SeedTurns(s)
    <3>1. PICK pc \in {"owner", "row", "patch", "make", "clear", "say"} : Seed!Go(s, pc)
      BY <2>3, SMT DEF SeedTurns
    <3>2. run'[s].at = run[s].at
      BY <3>1, SeedGoIs
    <3>3. QED
      BY <2>3, <3>2, Zenon DEF SeedInGold, SeedTurns, SeedActive
  <2>4. CASE SeedTalks(s)
    <3>1. run'[s] = [pc |-> IF run[s].line + 1 = Lines THEN "thread" ELSE "say",
                     at |-> run[s].at, line |-> run[s].line + 1]
      BY <2>4, Zenon DEF SeedTalks, SeedRunShape
    <3>2. QED
      BY <2>4, <3>1, SMT DEF SeedInGold, SeedTalks
  <2>5. QED
    BY <2>1, <2>2, <2>3, <2>4, SeedRunMoves, Zenon
<1>3. \A o \in Slots : SeedInGold(run'[o]) => SeedInGold(run[o])
  BY <1>2, SeedOthersStand, Zenon
<1>4. SeedPricing' \in SUBSET SeedPricing
  BY <1>3, SeedPricingIs, Zenon
<1>5. ASSUME Seed!MakePrices(s) PROVE s \in SeedPricing /\ s \notin SeedPricing'
  <2>1. SeedActive(s) /\ Seed!Task(s).kind = "gold" /\ Seed!Skip(s)
    BY <1>5, SMT DEF Seed!MakePrices, Seed!At, SeedActive
  <2>2. run[s].at = SeedGold
    BY <2>1, SeedTaskIs, Zenon
  <2>3. SeedInGold(run[s])
    BY <1>0, <2>1, <2>2, SMT DEF SeedInGold, SeedActive
  <2>4. run'[s] = [pc |-> "find", at |-> run[s].at + 1, line |-> 0]
    <3>1. run[s].at # Len(Seed!Plan)
      BY <1>0, <2>2, SMT
    <3>2. QED
      BY <2>1, <3>1, SeedSkipIs, Zenon DEF Seed!Next1
  <2>5. ~SeedInGold(run'[s])
    BY <1>0, <2>2, <2>4, SMT DEF SeedInGold
  <2>6. QED
    BY <2>3, <2>5, SeedPricingIs, Zenon
<1>6. QED
  BY <1>1, <1>4, <1>5

LEMMA SeedPricesKnownKept ==
    ASSUME Seed!SeedAssumption, IsFiniteSet(Slots), SeedRunShape, SeedRowsShape, SeedFlags, SeedPricesKnown, Seed!Next
    PROVE  SeedPricesKnown'
<1>0. IsFiniteSet(Slots) /\ histories \in Nat /\ begun \in Nat
  <2>1. MaxRuns \in Nat
    BY SeedPlanEnds
  <2>2. QED
    BY <2>1, SMT DEF SeedRowsShape, SeedRunShape
<1>1. IsFiniteSet(SeedPricing) /\ Cardinality(SeedPricing) \in Nat
  <2>1. SeedPricing \in SUBSET Slots
    BY SeedPricingIs, Zenon
  <2>2. QED
    BY <1>0, <2>1, FS_Subset, FS_CardinalityType, Zenon
<1>2. histories + Cardinality(SeedPricing) <= begun
  BY Zenon DEF SeedPricesKnown
<1>3. ASSUME NEW s \in Slots, SeedRunActs(s) PROVE histories' + Cardinality(SeedPricing') <= begun'
  <2>1. CASE SeedBegins(s)
    <3>1. histories' = histories
      <4>1. ~Seed!CountPrices(s) /\ ~Seed!MakePrices(s)
        BY <2>1, SMT DEF SeedBegins, SeedActive, Seed!CountPrices, Seed!MakePrices, Seed!At
      <4>2. QED
        BY <1>3, <4>1, SeedGoldActs, Zenon
    <3>2. ~SeedInGold(run[s]) /\ SeedInGold(run'[s])
      <4>1. run'[s] = [pc |-> "find", at |-> 1, line |-> 0]
        BY <2>1, Zenon DEF SeedBegins, SeedRunShape
      <4>2. SeedGold \in Nat /\ SeedGold >= 2
        BY SeedPlanEnds
      <4>3. QED
        BY <2>1, <4>1, <4>2, SMT DEF SeedBegins, SeedActive, SeedInGold
    <3>3. \A o \in Slots : o # s => (SeedInGold(run'[o]) <=> SeedInGold(run[o]))
      BY <1>3, SeedOthersStand, Zenon
    <3>4. SeedPricing' = SeedPricing \cup {s} /\ s \notin SeedPricing
      BY <3>2, <3>3, SeedPricingIs, Zenon
    <3>5. Cardinality(SeedPricing \cup {s}) = Cardinality(SeedPricing) + 1
      BY <1>1, <3>4, FS_AddElement, Zenon
    <3>6. QED
      BY <1>0, <1>1, <1>2, <2>1, <3>1, <3>4, <3>5, SMT DEF SeedBegins
  <2>2. CASE ~SeedBegins(s) /\ Seed!MakePrices(s)
    <3>1. histories' = histories + 1 /\ begun' = begun /\ SeedPricing' \in SUBSET SeedPricing /\ s \in SeedPricing /\
            s \notin SeedPricing'
      BY <1>3, <2>2, SeedPricingBy, Zenon DEF Seed!MakePrices
    <3>2. IsFiniteSet(SeedPricing \ {s}) /\ Cardinality(SeedPricing \ {s}) = Cardinality(SeedPricing) - 1
      BY <1>1, <3>1, FS_RemoveElement, Zenon
    <3>3. SeedPricing' \in SUBSET (SeedPricing \ {s})
      BY <3>1, Zenon
    <3>4. IsFiniteSet(SeedPricing') /\ Cardinality(SeedPricing') <= Cardinality(SeedPricing \ {s}) /\
            Cardinality(SeedPricing') \in Nat
      BY <3>2, <3>3, FS_Subset, FS_CardinalityType, Zenon
    <3>5. QED
      BY <1>0, <1>1, <1>2, <3>1, <3>2, <3>4, SMT
  <2>3. CASE ~SeedBegins(s) /\ ~Seed!MakePrices(s)
    <3>1. histories' = histories
      <4>1. CASE Seed!CountPrices(s)
        BY <4>1, Zenon DEF Seed!CountPrices
      <4>2. CASE ~Seed!CountPrices(s)
        BY <1>3, <2>3, <4>2, SeedGoldActs, Zenon
      <4>3. QED
        BY <4>1, <4>2
    <3>2. begun' = begun /\ SeedPricing' \in SUBSET SeedPricing
      BY <1>3, <2>3, SeedPricingBy, Zenon
    <3>3. Cardinality(SeedPricing') <= Cardinality(SeedPricing) /\ Cardinality(SeedPricing') \in Nat
      BY <1>1, <3>2, FS_Subset, FS_CardinalityType, Zenon
    <3>4. QED
      BY <1>0, <1>1, <1>2, <3>1, <3>2, <3>3, SMT
  <2>4. QED
    BY <2>1, <2>2, <2>3
<1>4. ASSUME NEW s \in Slots, SeedRunActs(s), ~overlapped'
      PROVE  /\ \A o1, o2 \in Slots : SeedCounted(o1)' /\ SeedCounted(o2)' => o1 = o2
             /\ (\E o \in Slots : SeedCounted(o)') => histories' = 0
             /\ histories' <= 1
  <2>1. ~overlapped
    <3>1. CASE Seed!CountPrices(s)
      BY <1>4, <3>1, Zenon DEF Seed!CountPrices
    <3>2. CASE Seed!MakePrices(s)
      BY <1>4, <3>2, Zenon DEF Seed!MakePrices
    <3>3. QED
      BY <1>4, <3>1, <3>2, SeedGoldActs, Zenon
  <2>2. /\ \A o1, o2 \in Slots : SeedCounted(o1) /\ SeedCounted(o2) => o1 = o2
        /\ (\E o \in Slots : SeedCounted(o)) => histories = 0
        /\ histories <= 1
    BY <2>1, Zenon DEF SeedPricesKnown
  <2>3. CASE Seed!CountPrices(s)
    <3>1. histories' = histories
      BY <2>3, Zenon DEF Seed!CountPrices
    <3>2. CASE histories = 0
      <4>1. \A o \in Slots : o # s => ~SeedCounted(o)
        BY <1>4, <2>3, <3>2, Zenon DEF Seed!CountPrices, SeedCounted
      <4>2. \A o \in Slots : o # s => ~SeedCounted(o)'
        BY <1>4, <4>1, SeedCountedBy, Zenon
      <4>3. QED
        BY <2>2, <3>1, <3>2, <4>2, Zenon
    <3>3. CASE histories # 0
      <4>1. \A o \in Slots : SeedCounted(o)' => SeedCounted(o)
        BY <1>4, <3>3, SeedCountedBy, Zenon
      <4>2. QED
        BY <2>2, <3>1, <4>1, Zenon
    <3>4. QED
      BY <3>2, <3>3
  <2>4. CASE Seed!MakePrices(s)
    <3>1. SeedCounted(s) /\ histories' = histories + 1 /\ Seed!Skip(s)
      BY <2>4, Zenon DEF Seed!MakePrices, SeedCounted
    <3>2. histories = 0
      BY <2>2, <3>1, Zenon
    <3>3. ~SeedCounted(s)'
      <4>1. run'[s].pc # "make"
        BY <3>1, SeedSkipIs, SMT
      <4>2. QED
        BY <4>1, Zenon DEF SeedCounted, Seed!At
    <3>4. ~Seed!CountPrices(s)
      BY <2>4, SMT DEF Seed!CountPrices, Seed!MakePrices, Seed!At
    <3>5. \A o \in Slots : ~SeedCounted(o)'
      BY <1>4, <2>2, <3>1, <3>3, <3>4, SeedCountedBy, Zenon
    <3>6. histories' <= 1
      BY <3>1, <3>2, SMT
    <3>7. QED
      BY <3>5, <3>6, Zenon
  <2>5. CASE ~Seed!CountPrices(s) /\ ~Seed!MakePrices(s)
    <3>1. histories' = histories
      BY <1>4, <2>5, SeedGoldActs, Zenon
    <3>2. \A o \in Slots : SeedCounted(o)' => SeedCounted(o)
      BY <1>4, <2>5, SeedCountedBy, Zenon
    <3>3. QED
      BY <2>2, <3>1, <3>2, Zenon
  <2>6. QED
    BY <2>3, <2>4, <2>5
<1>5. ASSUME NEW s \in Slots, SeedRunActs(s) PROVE SeedPricesKnown'
  BY <1>3, <1>4, <1>5, Zenon DEF SeedPricesKnown
<1>6. ASSUME SeedWaits, histories' = histories, overlapped' = overlapped PROVE SeedPricesKnown'
  <2>1. SeedPricing' = SeedPricing
    BY <1>6, SeedPricingIs, Zenon DEF SeedWaits
  <2>2. \A o \in Slots : SeedCounted(o)' <=> SeedCounted(o)
    BY <1>6, Zenon DEF SeedWaits, SeedCounted, Seed!At, Seed!Task
  <2>3. QED
    BY <1>6, <2>1, <2>2, Zenon DEF SeedPricesKnown, SeedWaits
<1>7. ASSUME (\E p \in 1..Phones : Seed!Registers(p) \/ Seed!Says(p) \/ Seed!Told(p)) \/ Seed!Moving
      PROVE  histories' = histories /\ overlapped' = overlapped
  <2>1. ASSUME NEW p \in 1..Phones, Seed!Registers(p) PROVE histories' = histories /\ overlapped' = overlapped
    BY <2>1, Zenon DEF Seed!Registers, Seed!Turn, Seed!rest
  <2>2. ASSUME NEW p \in 1..Phones, Seed!Says(p) PROVE histories' = histories /\ overlapped' = overlapped
    BY <2>2, Zenon DEF Seed!Says, Seed!Turn, Seed!rest
  <2>3. ASSUME NEW p \in 1..Phones, Seed!Told(p) PROVE histories' = histories /\ overlapped' = overlapped
    BY <2>3, Zenon DEF Seed!Told, Seed!rest
  <2>4. CASE Seed!Moving
    BY <2>4, Zenon DEF Seed!Moving, Seed!Turn, Seed!rest
  <2>5. QED
    BY <1>7, <2>1, <2>2, <2>3, <2>4, Zenon
<1>8. QED
  BY <1>5, <1>6, <1>7, SeedNextCases, SeedOthersWait, Zenon

SeedChatty(s) == Seed!ClearChat(s) \/ Seed!SayLine(s) \/ Seed!WriteThread(s) \/ Seed!Crash(s)

LEMMA SeedSilent ==
    ASSUME SeedRunShape, NEW s \in Slots, SeedRunActs(s), ~SeedChatty(s)
    PROVE  /\ run[s].pc \notin {"say", "thread"} /\ run'[s].pc \notin {"say", "thread"}
           /\ chats' = chats /\ threads' = threads /\ owed' = owed /\ mixed' = mixed
<1>1. CASE Seed!Start(s)
  <2>1. run'[s] = [pc |-> "find", at |-> 1, line |-> 0] /\ run[s].pc \in {"off", "done"}
    BY <1>1, Zenon DEF Seed!Start, SeedRunShape
  <2>2. run[s].pc \notin {"say", "thread"} /\ run'[s].pc \notin {"say", "thread"}
    BY <2>1, SMT
  <2>3. QED
    BY <1>1, <2>2, Zenon DEF Seed!Start, Seed!talk
<1>2. CASE Seed!FindAdmin(s)
  <2>1. (run[s].pc = "find") /\ (Seed!Skip(s) \/ Seed!Go(s, "make"))
    BY <1>2, Zenon DEF Seed!FindAdmin, Seed!At
  <2>2. run[s].pc \notin {"say", "thread"} /\ run'[s].pc \notin {"say", "thread"}
    BY <2>1, SeedGoIs, SeedSkipIs, SMT
  <2>3. QED
    BY <1>2, <2>2, Zenon DEF Seed!FindAdmin, Seed!talk, Seed!Calls
<1>3. CASE Seed!MakeAdmin(s)
  <2>1. (run[s].pc = "make") /\ (Seed!Skip(s) \/ Seed!Stop(s))
    BY <1>3, Zenon DEF Seed!MakeAdmin, Seed!At
  <2>2. run[s].pc \notin {"say", "thread"} /\ run'[s].pc \notin {"say", "thread"}
    BY <2>1, SeedSkipIs, SeedStopIs, SMT
  <2>3. QED
    BY <1>3, <2>2, Zenon DEF Seed!MakeAdmin, Seed!talk, Seed!Calls
<1>4. CASE Seed!FindUser(s)
  <2>1. (run[s].pc = "find") /\ (Seed!Skip(s) \/ Seed!Go(s, "make"))
    BY <1>4, Zenon DEF Seed!FindUser, Seed!At, Seed!KnownUser
  <2>2. run[s].pc \notin {"say", "thread"} /\ run'[s].pc \notin {"say", "thread"}
    BY <2>1, SeedGoIs, SeedSkipIs, SMT
  <2>3. QED
    BY <1>4, <2>2, Zenon DEF Seed!FindUser, Seed!talk, Seed!Calls
<1>5. CASE Seed!MakeUser(s)
  <2>1. (run[s].pc = "make") /\ (Seed!Skip(s) \/ Seed!Stop(s))
    BY <1>5, Zenon DEF Seed!MakeUser, Seed!At
  <2>2. run[s].pc \notin {"say", "thread"} /\ run'[s].pc \notin {"say", "thread"}
    BY <2>1, SeedSkipIs, SeedStopIs, SMT
  <2>3. QED
    BY <1>5, <2>2, Zenon DEF Seed!MakeUser, Seed!talk, Seed!Calls
<1>6. CASE Seed!FindPurchase(s)
  <2>1. (run[s].pc = "find") /\ (Seed!Skip(s) \/ Seed!Go(s, "owner") \/ Seed!Go(s, "patch"))
    BY <1>6, Zenon DEF Seed!FindPurchase, Seed!At
  <2>2. run[s].pc \notin {"say", "thread"} /\ run'[s].pc \notin {"say", "thread"}
    BY <2>1, SeedGoIs, SeedSkipIs, SMT
  <2>3. QED
    BY <1>6, <2>2, Zenon DEF Seed!FindPurchase, Seed!talk, Seed!Calls
<1>7. CASE Seed!FindBuyer(s)
  <2>1. (run[s].pc = "owner") /\ (Seed!Skip(s) \/ Seed!Go(s, "make"))
    BY <1>7, Zenon DEF Seed!FindBuyer, Seed!At
  <2>2. run[s].pc \notin {"say", "thread"} /\ run'[s].pc \notin {"say", "thread"}
    BY <2>1, SeedGoIs, SeedSkipIs, SMT
  <2>3. QED
    BY <1>7, <2>2, Zenon DEF Seed!FindBuyer, Seed!talk, Seed!Calls
<1>8. CASE Seed!WritePurchase(s)
  <2>1. (run[s].pc = "patch" \/ run[s].pc = "make") /\ (Seed!Skip(s) \/ Seed!Stop(s))
    BY <1>8, Zenon DEF Seed!WritePurchase, Seed!At
  <2>2. run[s].pc \notin {"say", "thread"} /\ run'[s].pc \notin {"say", "thread"}
    BY <2>1, SeedSkipIs, SeedStopIs, SMT
  <2>3. QED
    BY <1>8, <2>2, Zenon DEF Seed!WritePurchase, Seed!talk, Seed!Calls
<1>9. CASE Seed!FindSeller(s)
  <2>1. (run[s].pc = "find") /\ (Seed!Skip(s) \/ Seed!Go(s, "row"))
    BY <1>9, Zenon DEF Seed!FindSeller, Seed!At
  <2>2. run[s].pc \notin {"say", "thread"} /\ run'[s].pc \notin {"say", "thread"}
    BY <2>1, SeedGoIs, SeedSkipIs, SMT
  <2>3. QED
    BY <1>9, <2>2, Zenon DEF Seed!FindSeller, Seed!talk, Seed!Calls
<1>10. CASE Seed!FindSell(s)
  <2>1. (run[s].pc = "row") /\ (Seed!Skip(s) \/ Seed!Go(s, "make") \/ Seed!Go(s, "patch"))
    BY <1>10, Zenon DEF Seed!FindSell, Seed!At
  <2>2. run[s].pc \notin {"say", "thread"} /\ run'[s].pc \notin {"say", "thread"}
    BY <2>1, SeedGoIs, SeedSkipIs, SMT
  <2>3. QED
    BY <1>10, <2>2, Zenon DEF Seed!FindSell, Seed!talk, Seed!Calls
<1>11. CASE Seed!WriteSell(s)
  <2>1. (run[s].pc = "patch" \/ run[s].pc = "make") /\ (Seed!Skip(s) \/ Seed!Stop(s))
    BY <1>11, Zenon DEF Seed!WriteSell, Seed!At
  <2>2. run[s].pc \notin {"say", "thread"} /\ run'[s].pc \notin {"say", "thread"}
    BY <2>1, SeedSkipIs, SeedStopIs, SMT
  <2>3. QED
    BY <1>11, <2>2, Zenon DEF Seed!WriteSell, Seed!talk, Seed!Calls
<1>12. CASE Seed!FindNews(s)
  <2>1. (run[s].pc = "find") /\ (Seed!Skip(s) \/ Seed!Go(s, "make"))
    BY <1>12, Zenon DEF Seed!FindNews, Seed!At
  <2>2. run[s].pc \notin {"say", "thread"} /\ run'[s].pc \notin {"say", "thread"}
    BY <2>1, SeedGoIs, SeedSkipIs, SMT
  <2>3. QED
    BY <1>12, <2>2, Zenon DEF Seed!FindNews, Seed!talk, Seed!Calls
<1>13. CASE Seed!WriteNews(s)
  <2>1. (run[s].pc = "make") /\ (Seed!Skip(s) \/ Seed!Stop(s))
    BY <1>13, Zenon DEF Seed!WriteNews, Seed!At
  <2>2. run[s].pc \notin {"say", "thread"} /\ run'[s].pc \notin {"say", "thread"}
    BY <2>1, SeedSkipIs, SeedStopIs, SMT
  <2>3. QED
    BY <1>13, <2>2, Zenon DEF Seed!WriteNews, Seed!talk, Seed!Calls
<1>14. CASE Seed!FindTalker(s)
  <2>1. (run[s].pc = "find") /\ (Seed!Skip(s) \/ Seed!Go(s, "clear"))
    BY <1>14, Zenon DEF Seed!FindTalker, Seed!At
  <2>2. run[s].pc \notin {"say", "thread"} /\ run'[s].pc \notin {"say", "thread"}
    BY <2>1, SeedGoIs, SeedSkipIs, SMT
  <2>3. QED
    BY <1>14, <2>2, Zenon DEF Seed!FindTalker, Seed!talk, Seed!Calls
<1>15. CASE Seed!CountPrices(s)
  <2>1. (run[s].pc = "find") /\ (Seed!Skip(s) \/ Seed!Go(s, "make"))
    BY <1>15, Zenon DEF Seed!CountPrices, Seed!At, Seed!Written
  <2>2. run[s].pc \notin {"say", "thread"} /\ run'[s].pc \notin {"say", "thread"}
    BY <2>1, SeedGoIs, SeedSkipIs, SMT
  <2>3. QED
    BY <1>15, <2>2, Zenon DEF Seed!CountPrices, Seed!talk, Seed!Calls
<1>16. CASE Seed!MakePrices(s)
  <2>1. (run[s].pc = "make") /\ (Seed!Skip(s))
    BY <1>16, Zenon DEF Seed!MakePrices, Seed!At
  <2>2. run[s].pc \notin {"say", "thread"} /\ run'[s].pc \notin {"say", "thread"}
    BY <2>1, SeedSkipIs, SMT
  <2>3. QED
    BY <1>16, <2>2, Zenon DEF Seed!MakePrices, Seed!talk, Seed!Calls
<1>17. CASE Seed!MakeLevels(s)
  <2>1. (run[s].pc = "find") /\ (Seed!Skip(s))
    BY <1>17, Zenon DEF Seed!MakeLevels, Seed!At
  <2>2. run[s].pc \notin {"say", "thread"} /\ run'[s].pc \notin {"say", "thread"}
    BY <2>1, SeedSkipIs, SMT
  <2>3. QED
    BY <1>17, <2>2, Zenon DEF Seed!MakeLevels, Seed!talk, Seed!Calls
<1>18. QED
  BY <1>1, <1>2, <1>3, <1>4, <1>5, <1>6, <1>7, <1>8, <1>9, <1>10, <1>11, <1>12, <1>13, <1>14, <1>15, <1>16, <1>17, Zenon
     DEF SeedRunActs, SeedChatty

SeedSameAt(p) ==
    /\ chats'[p] = chats[p] /\ threads'[p] = threads[p] /\ (p \in owed' <=> p \in owed)
    /\ \A o \in Slots : (Seed!InChat(o, p)' <=> Seed!InChat(o, p)) /\ (Seed!InChat(o, p) => run'[o].line = run[o].line)

LEMMA SeedUndisturbedSame ==
    ASSUME NEW p \in 1..Phones, SeedUndisturbed(p), SeedSameAt(p)
    PROVE  SeedUndisturbed(p)'
<1>1. SeedLined(p)' <=> SeedLined(p)
  BY Zenon DEF SeedLined, SeedSameAt, Seed!Live
<1>2. Seed!Live' = Seed!Live
  BY Zenon DEF Seed!Live
<1> DEFINE c == chats[p]
<1>3. /\ \A s, o \in Slots : Seed!InChat(s, p) /\ Seed!InChat(o, p) => s = o
      /\ \A s \in Slots : Seed!InChat(s, p) =>
            p \notin owed /\ Len(c) = run[s].line /\ \A i \in 1..Len(c) : c[i] = i
      /\ (\A s \in Slots : ~Seed!InChat(s, p)) =>
            /\ SeedLined(p)
            /\ p \in owed => Len(c) > 0 /\ c[Len(c)] = Seed!Live
            /\ p \notin owed /\ c # <<>> => threads[p] = c[Len(c)]
  BY Zenon DEF SeedUndisturbed
<1>4. chats'[p] = c /\ threads'[p] = threads[p] /\ (p \in owed' <=> p \in owed)
  BY Zenon DEF SeedSameAt
<1>5. \A o \in Slots : (Seed!InChat(o, p)' <=> Seed!InChat(o, p)) /\ (Seed!InChat(o, p) => run'[o].line = run[o].line)
  BY Zenon DEF SeedSameAt
<1> HIDE DEF c
<1>6. /\ \A s, o \in Slots : Seed!InChat(s, p)' /\ Seed!InChat(o, p)' => s = o
      /\ \A s \in Slots : Seed!InChat(s, p)' =>
            p \notin owed' /\ Len(chats'[p]) = run'[s].line /\ \A i \in 1..Len(chats'[p]) : chats'[p][i] = i
      /\ (\A s \in Slots : ~Seed!InChat(s, p)') =>
            /\ SeedLined(p)'
            /\ p \in owed' => Len(chats'[p]) > 0 /\ chats'[p][Len(chats'[p])] = Seed!Live
            /\ p \notin owed' /\ chats'[p] # <<>> => threads'[p] = chats'[p][Len(chats'[p])]
  BY <1>1, <1>3, <1>4, <1>5, Zenon
<1>7. QED
  BY <1>2, <1>6, Zenon DEF SeedUndisturbed

LEMMA SeedInChatIs ==
    ASSUME NEW o \in Slots, NEW p
    PROVE  /\ Seed!InChat(o, p) <=> (run[o].pc \in {"say", "thread"} /\ Seed!Plan[run[o].at].i = p)
           /\ Seed!InChat(o, p)' <=> (run'[o].pc \in {"say", "thread"} /\ Seed!Plan[run'[o].at].i = p)
BY Zenon DEF Seed!InChat, Seed!Task

LEMMA SeedInChatStays ==
    ASSUME NEW o \in Slots, run'[o] = run[o], NEW p
    PROVE  (Seed!InChat(o, p)' <=> Seed!InChat(o, p)) /\ run'[o].line = run[o].line
BY SeedInChatIs, Zenon

LEMMA SeedChatsKnownKept ==
    ASSUME Seed!SeedAssumption, SeedRunShape, SeedRowsShape, SeedChatsKnown, Seed!Next
    PROVE  SeedChatsKnown'
<1>0. Lines \in Nat /\ Lines > 0 /\ Seed!Live = Lines + 1 /\ Seed!Live' = Seed!Live
  BY SeedPlanEnds, Zenon DEF Seed!Live
<1>1. ASSUME NEW s \in Slots, SeedRunActs(s), ~SeedChatty(s) PROVE SeedChatsKnown'
  <2>1. /\ run[s].pc \notin {"say", "thread"} /\ run'[s].pc \notin {"say", "thread"}
        /\ chats' = chats /\ threads' = threads /\ owed' = owed /\ mixed' = mixed
    BY <1>1, SeedSilent
  <2>2. ASSUME NEW p \in 1..Phones PROVE SeedSameAt(p)
    <3>1. ASSUME NEW o \in Slots, o # s
          PROVE  (Seed!InChat(o, p)' <=> Seed!InChat(o, p)) /\ (Seed!InChat(o, p) => run'[o].line = run[o].line)
      BY <1>1, <3>1, SeedOthersStand, SeedInChatStays
    <3>2. ~Seed!InChat(s, p)' /\ ~Seed!InChat(s, p)
      BY <2>1, SeedInChatIs, Zenon
    <3>3. QED
      BY <2>1, <3>1, <3>2, Zenon DEF SeedSameAt
  <2>3. QED
    BY <2>1, <2>2, SeedUndisturbedSame, Zenon DEF SeedChatsKnown
<1>2. ASSUME NEW s \in Slots, Seed!ClearChat(s) PROVE SeedChatsKnown'
  <2>1. run[s].pc = "clear" /\ SeedActive(s) /\ Seed!Task(s).kind = "chat" /\ run[s].line = 0 /\ SeedRunActs(s)
    <3>1. run[s].pc = "clear" /\ Seed!Task(s).kind = "chat" /\ SeedRunActs(s)
      BY <1>2, Zenon DEF Seed!ClearChat, Seed!At, SeedRunActs
    <3>2. SeedActive(s) /\ run[s].pc \notin {"say", "thread"}
      BY <3>1, SMT DEF SeedActive
    <3>3. QED
      BY <3>1, <3>2, Zenon DEF SeedRunShape
  <2>2. PICK p \in 1..Phones : p = Seed!Task(s).i
    BY <2>1, SeedTaskIs, Zenon
  <2>3. chats' = [chats EXCEPT ![p] = <<>>] /\ threads' = threads /\ owed' = owed /\ Seed!Go(s, "say")
    BY <1>2, <2>2, Zenon DEF Seed!ClearChat, Seed!Cleared
  <2>4. run'[s].pc = "say" /\ run'[s].at = run[s].at /\ run'[s].line = 0
    BY <2>1, <2>3, SMT DEF Seed!Go, SeedRunShape
  <2>5. \A q \in 1..Phones : (Seed!InChat(s, q)' <=> q = p) /\ ~Seed!InChat(s, q)
    BY <2>1, <2>2, <2>4, SeedInChatIs, SMT DEF Seed!Task
  <2>6. \A o \in Slots : o # s => run'[o] = run[o]
    BY <2>1, SeedOthersStand, Zenon
  <2>7. mixed' = IF p \in owed \/ \E o \in Slots : Seed!InChat(o, p) THEN mixed \cup {p} ELSE mixed \ {p}
    BY <1>2, <2>2, Zenon DEF Seed!ClearChat
  <2>8. chats'[p] = <<>> /\ \A q \in 1..Phones : q # p => chats'[q] = chats[q]
    BY <2>2, <2>3, Zenon DEF SeedRowsShape
  <2>9. ASSUME NEW q \in 1..Phones, q # p, q \notin mixed' PROVE SeedUndisturbed(q)'
    <3>1. q \notin mixed
      BY <2>7, <2>9, Zenon
    <3>2. \A o \in Slots : (Seed!InChat(o, q)' <=> Seed!InChat(o, q)) /\
            (Seed!InChat(o, q) => run'[o].line = run[o].line)
      BY <2>5, <2>6, <2>9, SeedInChatStays, Zenon
    <3>3. SeedSameAt(q)
      BY <2>3, <2>8, <2>9, <3>2, Zenon DEF SeedSameAt
    <3>4. QED
      BY <3>1, <3>3, SeedUndisturbedSame, Zenon DEF SeedChatsKnown
  <2>10. ASSUME p \notin mixed' PROVE SeedUndisturbed(p)'
    <3>1. p \notin owed /\ \A o \in Slots : ~Seed!InChat(o, p)
      BY <2>7, <2>10, Zenon
    <3>2. \A o \in Slots : Seed!InChat(o, p)' => o = s
      BY <2>6, <3>1, SeedInChatStays, Zenon
    <3>3. p \notin owed' /\ Len(chats'[p]) = 0 /\ run'[s].line = 0 /\ \A i \in 1..Len(chats'[p]) : chats'[p][i] = i
      BY <2>3, <2>4, <2>8, <3>1, SMT
    <3>4. Seed!InChat(s, p)'
      BY <2>5, Zenon
    <3>5. /\ \A o1, o2 \in Slots : Seed!InChat(o1, p)' /\ Seed!InChat(o2, p)' => o1 = o2
          /\ \A o \in Slots : Seed!InChat(o, p)' =>
                p \notin owed' /\ Len(chats'[p]) = run'[o].line /\ \A i \in 1..Len(chats'[p]) : chats'[p][i] = i
      BY <3>2, <3>3, Zenon
    <3>6. QED
      BY <3>4, <3>5, Zenon DEF SeedUndisturbed
  <2>11. QED
    BY <2>9, <2>10, Zenon DEF SeedChatsKnown
<1>3. ASSUME NEW s \in Slots, Seed!SayLine(s) PROVE SeedChatsKnown'
  <2>1. run[s].pc = "say" /\ SeedActive(s) /\ Seed!Task(s).kind = "chat" /\ run[s].line \in 0..Lines /\
          run[s].line < Lines /\ SeedRunActs(s)
    BY <1>3, SMT DEF Seed!SayLine, Seed!At, SeedActive, SeedRunShape, SeedRunActs
  <2>2. PICK p \in 1..Phones : p = Seed!Task(s).i
    BY <2>1, SeedTaskIs, Zenon
  <2> DEFINE n == run[s].line + 1
  <2>3. chats' = [chats EXCEPT ![p] = Append(chats[p], n)] /\ threads' = threads /\ owed' = owed /\ mixed' = mixed
    <3>1. chats \in [1..Phones -> Seq(1..Seed!Live)]
      BY Zenon DEF SeedRowsShape
    <3>2. QED
      BY <1>3, <2>2, <3>1, Zenon DEF Seed!SayLine
  <2>4. run'[s].pc \in {"say", "thread"} /\ run'[s].at = run[s].at /\ run'[s].line = n
    <3>1. run' = [run EXCEPT ![s] = [pc |-> IF n = Lines THEN "thread" ELSE "say", at |-> run[s].at, line |-> n]]
      BY <1>3, SMT DEF Seed!SayLine, SeedRunShape
    <3>2. run'[s] = [pc |-> IF n = Lines THEN "thread" ELSE "say", at |-> run[s].at, line |-> n]
      BY <3>1, Zenon DEF SeedRunShape
    <3> HIDE DEF n
    <3>3. QED
      BY <3>2, SMT
  <2>5. \A q \in 1..Phones : (Seed!InChat(s, q)' <=> q = p) /\ (Seed!InChat(s, q) <=> q = p)
    BY <2>1, <2>2, <2>4, SeedInChatIs, SMT DEF Seed!Task
  <2>6. \A o \in Slots : o # s => run'[o] = run[o]
    BY <2>1, SeedOthersStand, Zenon
  <2>7. chats[p] \in Seq(1..Seed!Live) /\ chats'[p] = Append(chats[p], n) /\ \A q \in 1..Phones : q # p =>
          chats'[q] = chats[q]
    BY <2>2, <2>3, Zenon DEF SeedRowsShape
  <2>8. ASSUME NEW q \in 1..Phones, q # p, q \notin mixed' PROVE SeedUndisturbed(q)'
    <3>1. q \notin mixed
      BY <2>3, <2>8, Zenon
    <3>2. \A o \in Slots : (Seed!InChat(o, q)' <=> Seed!InChat(o, q)) /\
            (Seed!InChat(o, q) => run'[o].line = run[o].line)
      BY <2>5, <2>6, <2>8, SeedInChatStays, Zenon
    <3>3. SeedSameAt(q)
      BY <2>3, <2>7, <2>8, <3>2, Zenon DEF SeedSameAt
    <3>4. QED
      BY <3>1, <3>3, SeedUndisturbedSame, Zenon DEF SeedChatsKnown
  <2>9. ASSUME p \notin mixed' PROVE SeedUndisturbed(p)'
    <3>1. SeedUndisturbed(p) /\ Seed!InChat(s, p)
      BY <2>3, <2>5, <2>9, Zenon DEF SeedChatsKnown
    <3>2. /\ \A o \in Slots : Seed!InChat(o, p) => o = s
          /\ p \notin owed /\ Len(chats[p]) = run[s].line /\ \A i \in 1..Len(chats[p]) : chats[p][i] = i
      BY <3>1, Zenon DEF SeedUndisturbed
    <3>3. \A o \in Slots : Seed!InChat(o, p)' => o = s
      BY <2>6, <3>2, SeedInChatStays, Zenon
    <3>4. p \notin owed' /\ Len(chats'[p]) = run'[s].line /\ \A i \in 1..Len(chats'[p]) : chats'[p][i] = i
      <4> DEFINE c == chats[p]
                 d == chats'[p]
      <4>1. c \in Seq(1..Seed!Live) /\ d = Append(c, n) /\ Len(c) = run[s].line /\ \A i \in 1..Len(c) : c[i] = i
        BY <2>7, <3>2, Zenon
      <4> HIDE DEF c, d
      <4>2. Len(d) = n /\ \A i \in 1..Len(d) : d[i] = i
        BY <4>1, <2>1, SMT
      <4>3. QED
        BY <2>3, <2>4, <3>2, <4>2, Zenon DEF d
    <3>5. Seed!InChat(s, p)'
      BY <2>5, Zenon
    <3>6. /\ \A o1, o2 \in Slots : Seed!InChat(o1, p)' /\ Seed!InChat(o2, p)' => o1 = o2
          /\ \A o \in Slots : Seed!InChat(o, p)' =>
                p \notin owed' /\ Len(chats'[p]) = run'[o].line /\ \A i \in 1..Len(chats'[p]) : chats'[p][i] = i
      BY <3>3, <3>4, Zenon
    <3>7. QED
      BY <3>5, <3>6, Zenon DEF SeedUndisturbed
  <2>10. QED
    BY <2>8, <2>9, Zenon DEF SeedChatsKnown
<1>4. ASSUME NEW s \in Slots, Seed!WriteThread(s) PROVE SeedChatsKnown'
  <2>1. run[s].pc = "thread" /\ SeedActive(s) /\ Seed!Task(s).kind = "chat" /\ run[s].line = Lines /\ SeedRunActs(s)
    BY <1>4, SMT DEF Seed!WriteThread, Seed!At, SeedActive, SeedRunShape, SeedRunActs
  <2>2. PICK p \in 1..Phones : p = Seed!Task(s).i
    BY <2>1, SeedTaskIs, Zenon
  <2>3. threads' = [threads EXCEPT ![p] = Lines] /\ chats' = chats /\ owed' = owed /\ mixed' = mixed /\ Seed!Skip(s)
    BY <1>4, <2>2, Zenon DEF Seed!WriteThread
  <2>4. run'[s].pc \notin {"say", "thread"}
    BY <2>3, SeedSkipIs, SMT
  <2>5. \A q \in 1..Phones : ~Seed!InChat(s, q)' /\ (Seed!InChat(s, q) <=> q = p)
    BY <2>1, <2>2, <2>4, SeedInChatIs, SMT DEF Seed!Task
  <2>6. \A o \in Slots : o # s => run'[o] = run[o]
    BY <2>1, SeedOthersStand, Zenon
  <2>7. chats[p] \in Seq(1..Seed!Live) /\ threads'[p] = Lines /\ \A q \in 1..Phones : q # p => threads'[q] = threads[q]
    BY <2>2, <2>3, Zenon DEF SeedRowsShape
  <2>8. ASSUME NEW q \in 1..Phones, q # p, q \notin mixed' PROVE SeedUndisturbed(q)'
    <3>1. q \notin mixed
      BY <2>3, <2>8, Zenon
    <3>2. \A o \in Slots : (Seed!InChat(o, q)' <=> Seed!InChat(o, q)) /\
            (Seed!InChat(o, q) => run'[o].line = run[o].line)
      BY <2>5, <2>6, <2>8, SeedInChatStays, Zenon
    <3>3. SeedSameAt(q)
      BY <2>3, <2>7, <2>8, <3>2, Zenon DEF SeedSameAt
    <3>4. QED
      BY <3>1, <3>3, SeedUndisturbedSame, Zenon DEF SeedChatsKnown
  <2>9. ASSUME p \notin mixed' PROVE SeedUndisturbed(p)'
    <3>1. SeedUndisturbed(p) /\ Seed!InChat(s, p)
      BY <2>3, <2>5, <2>9, Zenon DEF SeedChatsKnown
    <3>2. /\ \A o \in Slots : Seed!InChat(o, p) => o = s
          /\ p \notin owed /\ Len(chats[p]) = run[s].line /\ \A i \in 1..Len(chats[p]) : chats[p][i] = i
      BY <3>1, Zenon DEF SeedUndisturbed
    <3>3. \A o \in Slots : ~Seed!InChat(o, p)'
      BY <2>5, <2>6, <3>2, SeedInChatStays, Zenon
    <3> DEFINE c == chats[p]
    <3>4. c \in Seq(1..Seed!Live) /\ Len(c) = Lines /\ \A i \in 1..Len(c) : c[i] = i
      BY <2>1, <2>7, <3>2, Zenon
    <3> HIDE DEF c
    <3>5. /\ Len(c) > 0 /\ c[1] # Seed!Live /\ Lines <= Len(c) /\ c[Len(c)] = Lines
          /\ \A i \in 1..Len(c) : c[i] = IF i <= Lines THEN i ELSE Seed!Live
      BY <1>0, <3>4, SMT
    <3>6. SeedLined(p)'
      BY <1>0, <2>3, <3>5, Zenon DEF SeedLined, c
    <3>7. threads'[p] = chats'[p][Len(chats'[p])] /\ p \notin owed'
      BY <2>3, <2>7, <3>2, <3>5, Zenon DEF c
    <3>8. QED
      BY <3>3, <3>6, <3>7, Zenon DEF SeedUndisturbed
  <2>10. QED
    BY <2>8, <2>9, Zenon DEF SeedChatsKnown
<1>5. ASSUME NEW s \in Slots, Seed!Crash(s) PROVE SeedChatsKnown'
  <2>1. SeedRunActs(s) /\ UNCHANGED <<chats, threads, owed>> /\ Seed!Stop(s)
    BY <1>5, Zenon DEF Seed!Crash, SeedRunActs
  <2>2. run'[s].pc \notin {"say", "thread"}
    BY <2>1, SeedStopIs, SMT
  <2>3. ASSUME NEW q \in 1..Phones, q \notin mixed' PROVE SeedUndisturbed(q)'
    <3>1. q \notin mixed /\ ~Seed!InChat(s, q)
      <4>1. mixed' = IF run[s].pc \in {"say", "thread"} THEN mixed \cup {Seed!Task(s).i} ELSE mixed
        BY <1>5, Zenon DEF Seed!Crash
      <4>2. QED
        BY <2>3, <4>1, Zenon DEF Seed!InChat
    <3>2. ~Seed!InChat(s, q)'
      BY <2>2, SeedInChatIs, Zenon
    <3>3. \A o \in Slots : (Seed!InChat(o, q)' <=> Seed!InChat(o, q)) /\
            (Seed!InChat(o, q) => run'[o].line = run[o].line)
      BY <2>1, <3>1, <3>2, SeedOthersStand, SeedInChatStays, Zenon
    <3>4. SeedSameAt(q)
      BY <2>1, <3>3, Zenon DEF SeedSameAt
    <3>5. QED
      BY <3>1, <3>4, SeedUndisturbedSame, Zenon DEF SeedChatsKnown
  <2>4. QED
    BY <2>3, Zenon DEF SeedChatsKnown
<1>6. ASSUME SeedWaits, chats' = chats, threads' = threads, owed' = owed, mixed' = mixed PROVE SeedChatsKnown'
  <2>1. ASSUME NEW q \in 1..Phones PROVE SeedSameAt(q)
    BY <1>6, SeedInChatStays, Zenon DEF SeedSameAt, SeedWaits
  <2>2. QED
    BY <1>6, <2>1, SeedUndisturbedSame, Zenon DEF SeedChatsKnown
<1>7. ASSUME NEW p \in 1..Phones, Seed!Registers(p) PROVE SeedChatsKnown'
  BY <1>6, <1>7, SeedOthersWait, Zenon DEF Seed!Registers, Seed!talk
<1>8. CASE Seed!Moving
  BY <1>6, <1>8, SeedOthersWait, Zenon DEF Seed!Moving, Seed!talk
<1>9. ASSUME NEW p \in 1..Phones, Seed!Says(p) PROVE SeedChatsKnown'
  <2>1. SeedWaits /\ threads' = threads /\ owed' = owed \cup {p} /\ p \notin owed
    BY <1>9, SeedOthersWait, Zenon DEF Seed!Says
  <2>2. chats \in [1..Phones -> Seq(1..Seed!Live)]
    BY Zenon DEF SeedRowsShape
  <2>3. /\ chats[p] \in Seq(1..Seed!Live) /\ chats'[p] = Append(chats[p], Seed!Live)
        /\ \A q \in 1..Phones : q # p => chats'[q] = chats[q]
    BY <1>9, <2>2, Zenon DEF Seed!Says
  <2>4. \A q \in 1..Phones, o \in Slots : (Seed!InChat(o, q)' <=> Seed!InChat(o, q)) /\ run'[o].line = run[o].line
    BY <2>1, SeedInChatStays, Zenon DEF SeedWaits
  <2>5. mixed' = IF \E s \in Slots : Seed!InChat(s, p) THEN mixed \cup {p} ELSE mixed
    BY <1>9, Zenon DEF Seed!Says
  <2>6. ASSUME NEW q \in 1..Phones, q # p, q \notin mixed' PROVE SeedUndisturbed(q)'
    <3>1. q \notin mixed
      BY <2>5, <2>6, Zenon
    <3>2. SeedSameAt(q)
      BY <2>1, <2>3, <2>4, <2>6, Zenon DEF SeedSameAt
    <3>3. QED
      BY <3>1, <3>2, SeedUndisturbedSame, Zenon DEF SeedChatsKnown
  <2>7. ASSUME p \notin mixed' PROVE SeedUndisturbed(p)'
    <3>1. p \notin mixed /\ \A s \in Slots : ~Seed!InChat(s, p)
      BY <2>5, <2>7, Zenon
    <3>2. SeedLined(p)
      BY <3>1, Zenon DEF SeedChatsKnown, SeedUndisturbed
    <3>3. \A s \in Slots : ~Seed!InChat(s, p)'
      BY <2>4, <3>1, Zenon
    <3> DEFINE c == chats[p]
               d == chats'[p]
               m == IF Len(c) > 0 /\ c[1] # Seed!Live THEN Lines ELSE 0
               k == IF Len(d) > 0 /\ d[1] # Seed!Live THEN Lines ELSE 0
    <3>4. c \in Seq(1..Seed!Live) /\ d = Append(c, Seed!Live)
      BY <2>3, Zenon
    <3>5. (Len(c) > 0 /\ c[1] # Seed!Live => Lines <= Len(c)) /\
            \A i \in 1..Len(c) : c[i] = IF i <= m THEN i ELSE Seed!Live
      BY <3>2, Zenon DEF SeedLined
    <3> HIDE DEF c, d
    <3>6. Len(d) = Len(c) + 1 /\ d[Len(d)] = Seed!Live /\ Len(d) > 0 /\ (Len(c) > 0 => d[1] = c[1]) /\
            (Len(c) = 0 => d[1] = Seed!Live)
          /\ Len(c) \in Nat
      BY <3>4, SMT
    <3>7. m = k
      BY <3>6, SMT
    <3>8. Len(d) > 0 /\ d[1] # Seed!Live => Lines <= Len(d)
      BY <1>0, <3>5, <3>6, SMT
    <3>9. \A i \in 1..Len(d) : d[i] = IF i <= k THEN i ELSE Seed!Live
      <4>1. m <= Len(c) /\ m \in Nat
        BY <1>0, <3>5, <3>6, SMT
      <4> HIDE DEF m, k
      <4>2. QED
        BY <1>0, <3>4, <3>5, <3>6, <3>7, <4>1, SMT
    <3>10. SeedLined(p)'
      BY <1>0, <3>8, <3>9, Zenon DEF SeedLined, d
    <3>11. p \in owed' /\ Len(chats'[p]) > 0 /\ chats'[p][Len(chats'[p])] = Seed!Live
      BY <2>1, <3>6, Zenon DEF d
    <3>12. QED
      BY <1>0, <3>3, <3>10, <3>11, Zenon DEF SeedUndisturbed
  <2>8. QED
    BY <2>6, <2>7, Zenon DEF SeedChatsKnown
<1>10. ASSUME NEW p \in 1..Phones, Seed!Told(p) PROVE SeedChatsKnown'
  <2>1. SeedWaits /\ chats' = chats /\ owed' = owed \ {p} /\ mixed' = mixed /\ p \in owed /\
          threads' = [threads EXCEPT ![p] = Seed!Live]
    BY <1>10, SeedOthersWait, Zenon DEF Seed!Told
  <2>2. threads'[p] = Seed!Live /\ \A q \in 1..Phones : q # p => threads'[q] = threads[q]
    BY <2>1, Zenon DEF SeedRowsShape
  <2>3. \A q \in 1..Phones, o \in Slots : (Seed!InChat(o, q)' <=> Seed!InChat(o, q)) /\ run'[o].line = run[o].line
    BY <2>1, SeedInChatStays, Zenon DEF SeedWaits
  <2>4. ASSUME NEW q \in 1..Phones, q # p, q \notin mixed' PROVE SeedUndisturbed(q)'
    <3>1. SeedSameAt(q)
      BY <2>1, <2>2, <2>3, <2>4, Zenon DEF SeedSameAt
    <3>2. QED
      BY <2>1, <2>4, <3>1, SeedUndisturbedSame, Zenon DEF SeedChatsKnown
  <2>5. ASSUME p \notin mixed' PROVE SeedUndisturbed(p)'
    <3>1. SeedUndisturbed(p)
      BY <2>1, <2>5, Zenon DEF SeedChatsKnown
    <3>2. \A s \in Slots : ~Seed!InChat(s, p)
      BY <2>1, <3>1, Zenon DEF SeedUndisturbed
    <3>3. SeedLined(p) /\ Len(chats[p]) > 0 /\ chats[p][Len(chats[p])] = Seed!Live
      BY <2>1, <3>1, <3>2, Zenon DEF SeedUndisturbed
    <3>4. SeedLined(p)'
      BY <1>0, <2>1, <3>3, Zenon DEF SeedLined
    <3>5. (\A s \in Slots : ~Seed!InChat(s, p)') /\ p \notin owed' /\ threads'[p] = chats'[p][Len(chats'[p])]
      BY <2>1, <2>2, <2>3, <3>2, <3>3, Zenon
    <3>6. QED
      BY <3>4, <3>5, Zenon DEF SeedUndisturbed
  <2>6. QED
    BY <2>4, <2>5, Zenon DEF SeedChatsKnown
<1>11. QED
  BY <1>1, <1>2, <1>3, <1>4, <1>5, <1>7, <1>8, <1>9, <1>10, SeedNextCases, Zenon DEF SeedChatty

LEMMA SeedInit ==
    ASSUME Seed!SeedAssumption, IsFiniteSet(Slots), Seed!Init
    PROVE  SeedInv
<1>0. /\ Len(Seed!Plan) \in Nat /\ Lines \in Nat /\ Lines > 0 /\ MaxRuns \in Nat /\ MaxActs \in Nat
      /\ Seed!Live = Lines + 1
  BY SeedPlanEnds, Zenon DEF Seed!Live
<1>1. SeedRunShape
  <2>1. Seed!Idle \in SeedRunSet /\ SeedPcShape(Seed!Idle) /\ begun \in 0..MaxRuns /\ acts \in 0..MaxActs
    BY <1>0, SMT DEF SeedRunSet, SeedPcShape, Seed!Idle, Seed!Init
  <2>2. run \in [Slots -> SeedRunSet] /\ \A s \in Slots : SeedPcShape(run[s])
    BY <2>1, Zenon DEF Seed!Init
  <2>3. QED
    BY <2>1, <2>2, SeedShapeIs, Zenon
<1>2. \A s \in Slots : run[s].pc = "off"
  <2>1. \A s \in Slots : run[s] = Seed!Idle
    BY Zenon DEF Seed!Init
  <2>2. Seed!Idle.pc = "off"
    BY SMT DEF Seed!Idle
  <2>3. QED
    BY <2>1, <2>2, Zenon
<1>3. SeedRowsShape
  <2>1. customer \in [1..Phones -> {"none", "mock", "real"}] /\ news \in [1..Items -> {"none", "first", "moved"}]
    BY SMT DEF Seed!Init
  <2>2. purchase \in [1..Phones -> Seed!Row]
    <3>1. Seed!NoNumber("first") \in Seed!Row /\ Seed!NoNumber("none") \in Seed!Row
      BY SMT DEF Seed!NoNumber, Seed!Row
    <3>2. QED
      BY <3>1, Zenon DEF Seed!Init
  <2>3. sell = purchase
    BY Zenon DEF Seed!Init
  <2>4. chats \in [1..Phones -> Seq(1..Seed!Live)] /\ threads \in [1..Phones -> 0..Seed!Live] /\ histories \in Nat
    BY <1>0, SMT DEF Seed!Init
  <2>5. owed \in SUBSET (1..Phones) /\ mixed \in SUBSET (1..Phones)
    BY Zenon DEF Seed!Init
  <2>6. QED
    BY <2>1, <2>2, <2>3, <2>4, <2>5, Zenon DEF SeedRowsShape
<1>4. SeedFlags
  <2>1. PICK old \in BOOLEAN : admin = old
    BY Zenon DEF Seed!Init
  <2>2. levels = FALSE /\ overlapped = FALSE
    BY Zenon DEF Seed!Init
  <2>3. QED
    BY <2>1, <2>2, Zenon DEF SeedFlags
<1>5. SeedAllBehind
  <2>0. "off" # "done" /\ "off" # "patch" /\ "off" \in {"off", "done"}
    BY SMT
  <2>1. \A s \in Slots : run[s].pc # "done" /\ run[s].pc # "patch" /\ ~SeedActive(s)
    BY <1>2, <2>0, Zenon DEF SeedActive
  <2>2. QED
    BY <2>1, Zenon DEF SeedAllBehind, SeedBehind, Seed!At
<1>6. SeedPricesKnown
  <2>0. "off" # "make" /\ "off" \in {"off", "done"}
    BY SMT
  <2>1. SeedPricing = {}
    BY <1>2, <2>0, SeedPricingIs, Zenon DEF SeedInGold
  <2>2. histories + Cardinality(SeedPricing) <= begun /\ histories = 0
    <3>1. Cardinality({}) = 0
      BY FS_EmptySet, Zenon
    <3>2. histories = 0 /\ begun = 0
      BY Zenon DEF Seed!Init
    <3>3. QED
      BY <2>1, <3>1, <3>2, SMT
  <2>3. \A s \in Slots : ~SeedCounted(s)
    BY <1>2, <2>0, Zenon DEF SeedCounted, Seed!At
  <2>4. histories <= 1
    BY <2>2, SMT
  <2>5. QED
    BY <2>2, <2>3, <2>4, Zenon DEF SeedPricesKnown
<1>7. SeedChatsKnown
  <2>1. ASSUME NEW p \in 1..Phones PROVE SeedUndisturbed(p)
    <3>0. "off" \notin {"say", "thread"}
      BY SMT
    <3>1. \A s \in Slots : ~Seed!InChat(s, p)
      BY <1>2, <3>0, Zenon DEF Seed!InChat
    <3>2. chats[p] = <<>> /\ p \notin owed
      BY SMT DEF Seed!Init
    <3>3. SeedLined(p)
      BY <3>2, SMT DEF SeedLined
    <3>4. QED
      BY <3>1, <3>2, <3>3, Zenon DEF SeedUndisturbed
  <2>2. QED
    BY <2>1, Zenon DEF SeedChatsKnown
<1>8. QED
  BY <1>1, <1>3, <1>4, <1>5, <1>6, <1>7, Zenon DEF SeedInv

LEMMA SeedRests ==
    ASSUME Seed!SeedAssumption, SeedInv, UNCHANGED Seed!vars
    PROVE  SeedInv'
<1>1. /\ admin' = admin /\ customer' = customer /\ purchase' = purchase /\ sell' = sell /\ news' = news /\
           chats' = chats
      /\ threads' = threads /\ histories' = histories /\ levels' = levels /\ run' = run /\ begun' = begun /\
           acts' = acts
      /\ owed' = owed /\ mixed' = mixed /\ overlapped' = overlapped
  BY Zenon DEF Seed!vars
<1>2. SeedRunShape'
  BY <1>1, SeedShapeIs, SeedShapeIsNext, Zenon DEF SeedInv
<1>3. SeedRowsShape' /\ SeedFlags'
  BY <1>1, Zenon DEF SeedInv, SeedRowsShape, SeedFlags, Seed!Row, Seed!Live
<1>4. SeedAllBehind'
  <2>1. SeedGrows
    BY <1>1, Zenon DEF SeedGrows
  <2>2. QED
    BY <1>1, <2>1, SeedBehindSame, Zenon DEF SeedAllBehind, SeedInv
<1>5. SeedPricesKnown'
  <2>1. SeedPricing' = SeedPricing
    BY <1>1, SeedPricingIs, Zenon
  <2>2. \A o \in Slots : SeedCounted(o)' <=> SeedCounted(o)
    BY <1>1, Zenon DEF SeedCounted, Seed!At, Seed!Task
  <2>3. QED
    BY <1>1, <2>1, <2>2, Zenon DEF SeedInv, SeedPricesKnown
<1>6. SeedChatsKnown'
  <2>1. ASSUME NEW q \in 1..Phones PROVE SeedSameAt(q)
    BY <1>1, SeedInChatStays, Zenon DEF SeedSameAt
  <2>2. QED
    BY <1>1, <2>1, SeedUndisturbedSame, Zenon DEF SeedChatsKnown, SeedInv
<1>7. QED
  BY <1>2, <1>3, <1>4, <1>5, <1>6, Zenon DEF SeedInv

LEMMA SeedStep ==
    ASSUME Seed!SeedAssumption, IsFiniteSet(Slots), SeedInv, [Seed!Next]_(Seed!vars)
    PROVE  SeedInv'
<1>1. CASE Seed!Next
  <2>1. SeedRunShape /\ SeedRowsShape /\ SeedFlags /\ SeedAllBehind /\ SeedPricesKnown /\ SeedChatsKnown
    BY Zenon DEF SeedInv
  <2>2. SeedRunShape' /\ SeedRowsShape' /\ SeedFlags' /\ SeedAllBehind' /\ SeedPricesKnown' /\ SeedChatsKnown'
    BY <1>1, <2>1, SeedRunShapeKept, SeedGrown, SeedAllBehindKept, SeedPricesKnownKept, SeedChatsKnownKept
  <2>3. QED
    BY <2>2, Zenon DEF SeedInv
<1>2. CASE UNCHANGED Seed!vars
  BY <1>2, SeedRests
<1>3. QED
  BY <1>1, <1>2

LEMMA SeedTypes ==
    ASSUME Seed!SeedAssumption, IsFiniteSet(Slots), SeedInv
    PROVE  Seed!TypeOK
<1>1. histories \in 0..MaxRuns
  <2>1. histories + Cardinality(SeedPricing) <= begun /\ begun \in 0..MaxRuns /\ histories \in Nat
    BY Zenon DEF SeedInv, SeedPricesKnown, SeedRunShape, SeedRowsShape
  <2>2. SeedPricing \in SUBSET Slots
    BY SeedPricingIs, Zenon
  <2>3. Cardinality(SeedPricing) \in Nat
    BY <2>2, FS_Subset, FS_CardinalityType, Zenon
  <2>4. MaxRuns \in Nat
    BY SeedPlanEnds
  <2>5. QED
    BY <2>1, <2>3, <2>4, SMT
<1>2. owed \subseteq 1..Phones /\ mixed \subseteq 1..Phones
  BY Zenon DEF SeedInv, SeedRowsShape
<1>3. QED
  BY <1>1, <1>2, Zenon DEF SeedInv, SeedRunShape, SeedRowsShape, SeedFlags, Seed!TypeOK

LEMMA SeedCompletes ==
    ASSUME Seed!SeedAssumption, SeedInv
    PROVE  Seed!CompletedIsThere
<1> SUFFICES ASSUME NEW s \in Slots, run[s].pc = "done"
             PROVE  /\ admin /\ histories > 0 /\ levels
                    /\ \A p \in 1..Phones :
                         /\ customer[p] # "none" /\ purchase[p].status # "none" /\ purchase[p].numbered
                         /\ sell[p].status # "none" /\ sell[p].numbered /\ threads[p] # 0
                    /\ \A n \in 1..Items : news[n] # "none"
  BY Zenon DEF Seed!CompletedIsThere
<1>1. \A k \in 1..Len(Seed!Plan) : SeedThere(k)
  BY Zenon DEF SeedInv, SeedAllBehind, SeedBehind
<1>0. Phones \in Nat /\ Items \in Nat /\ Len(Seed!Plan) = 3 + 4 * Phones + Items
  BY SeedPlanIs, SeedPlanEnds
<1>2. admin
  <2>1. PICK k \in 1..Len(Seed!Plan) : Seed!Plan[k] = SeedOf("admin", 1)
    <3>1. 1 \in 1..Len(Seed!Plan)
      BY <1>0, SMT
    <3>2. Seed!Plan[1] = SeedOf("admin", 1)
      BY SeedPlanIs, Zenon
    <3>3. QED
      BY <3>1, <3>2, Zenon
  <2>2. Seed!Plan[k].kind = "admin" /\ Seed!Plan[k].i = 1
    BY <2>1, SMT DEF SeedOf
  <2>3. QED
    BY <1>1, <2>2, Zenon DEF SeedThere
<1>3. ASSUME NEW p \in 1..Phones PROVE customer[p] # "none"
  <2>1. PICK k \in 1..Len(Seed!Plan) : Seed!Plan[k] = SeedOf("user", p)
    <3>1. 1 + p \in 1..Len(Seed!Plan)
      BY <1>0, SMT
    <3>2. Seed!Plan[1 + p] = SeedOf("user", p)
      BY SeedPlanIs, Zenon
    <3>3. QED
      BY <3>1, <3>2, Zenon
  <2>2. Seed!Plan[k].kind = "user" /\ Seed!Plan[k].i = p
    BY <2>1, SMT DEF SeedOf
  <2>3. QED
    BY <1>1, <2>2, Zenon DEF SeedThere
<1>4. ASSUME NEW p \in 1..Phones PROVE purchase[p].status # "none" /\ purchase[p].numbered
  <2>1. PICK k \in 1..Len(Seed!Plan) : Seed!Plan[k] = SeedOf("purchase", p)
    <3>1. 1 + Phones + p \in 1..Len(Seed!Plan)
      BY <1>0, SMT
    <3>2. Seed!Plan[1 + Phones + p] = SeedOf("purchase", p)
      BY SeedPlanIs, Zenon
    <3>3. QED
      BY <3>1, <3>2, Zenon
  <2>2. Seed!Plan[k].kind = "purchase" /\ Seed!Plan[k].i = p
    BY <2>1, SMT DEF SeedOf
  <2>3. QED
    BY <1>1, <2>2, Zenon DEF SeedThere
<1>5. ASSUME NEW p \in 1..Phones PROVE sell[p].status # "none" /\ sell[p].numbered
  <2>1. PICK k \in 1..Len(Seed!Plan) : Seed!Plan[k] = SeedOf("sell", p)
    <3>1. 1 + 2 * Phones + p \in 1..Len(Seed!Plan)
      BY <1>0, SMT
    <3>2. Seed!Plan[1 + 2 * Phones + p] = SeedOf("sell", p)
      BY SeedPlanIs, Zenon
    <3>3. QED
      BY <3>1, <3>2, Zenon
  <2>2. Seed!Plan[k].kind = "sell" /\ Seed!Plan[k].i = p
    BY <2>1, SMT DEF SeedOf
  <2>3. QED
    BY <1>1, <2>2, Zenon DEF SeedThere
<1>6. ASSUME NEW p \in 1..Items PROVE news[p] # "none"
  <2>1. PICK k \in 1..Len(Seed!Plan) : Seed!Plan[k] = SeedOf("news", p)
    <3>1. 1 + 3 * Phones + p \in 1..Len(Seed!Plan)
      BY <1>0, SMT
    <3>2. Seed!Plan[1 + 3 * Phones + p] = SeedOf("news", p)
      BY SeedPlanIs, Zenon
    <3>3. QED
      BY <3>1, <3>2, Zenon
  <2>2. Seed!Plan[k].kind = "news" /\ Seed!Plan[k].i = p
    BY <2>1, SMT DEF SeedOf
  <2>3. QED
    BY <1>1, <2>2, Zenon DEF SeedThere
<1>7. ASSUME NEW p \in 1..Phones PROVE threads[p] # 0
  <2>1. PICK k \in 1..Len(Seed!Plan) : Seed!Plan[k] = SeedOf("chat", p)
    <3>1. 1 + 3 * Phones + Items + p \in 1..Len(Seed!Plan)
      BY <1>0, SMT
    <3>2. Seed!Plan[1 + 3 * Phones + Items + p] = SeedOf("chat", p)
      BY SeedPlanIs, Zenon
    <3>3. QED
      BY <3>1, <3>2, Zenon
  <2>2. Seed!Plan[k].kind = "chat" /\ Seed!Plan[k].i = p
    BY <2>1, SMT DEF SeedOf
  <2>3. QED
    BY <1>1, <2>2, Zenon DEF SeedThere
<1>8. histories > 0
  <2>1. PICK k \in 1..Len(Seed!Plan) : Seed!Plan[k] = SeedOf("gold", 1)
    <3>1. 2 + 4 * Phones + Items \in 1..Len(Seed!Plan)
      BY <1>0, SMT
    <3>2. Seed!Plan[2 + 4 * Phones + Items] = SeedOf("gold", 1)
      BY SeedPlanIs, Zenon
    <3>3. QED
      BY <3>1, <3>2, Zenon
  <2>2. Seed!Plan[k].kind = "gold" /\ Seed!Plan[k].i = 1
    BY <2>1, SMT DEF SeedOf
  <2>3. QED
    BY <1>1, <2>2, Zenon DEF SeedThere
<1>9. levels
  <2>1. PICK k \in 1..Len(Seed!Plan) : Seed!Plan[k] = SeedOf("levels", 1)
    <3>1. 3 + 4 * Phones + Items \in 1..Len(Seed!Plan)
      BY <1>0, SMT
    <3>2. Seed!Plan[3 + 4 * Phones + Items] = SeedOf("levels", 1)
      BY SeedPlanIs, Zenon
    <3>3. QED
      BY <3>1, <3>2, Zenon
  <2>2. Seed!Plan[k].kind = "levels" /\ Seed!Plan[k].i = 1
    BY <2>1, SMT DEF SeedOf
  <2>3. QED
    BY <1>1, <2>2, Zenon DEF SeedThere
<1>10. QED
  BY <1>2, <1>3, <1>4, <1>5, <1>6, <1>7, <1>8, <1>9, Zenon

LEMMA SeedSaid ==
    ASSUME SeedInv
    PROVE  Seed!ConversationIsOnce
<1> SUFFICES ASSUME NEW p \in 1..Phones, p \notin mixed, \A s \in Slots : ~Seed!InChat(s, p)
             PROVE  /\ LET mock == IF Len(chats[p]) > 0 /\ chats[p][1] # Seed!Live THEN Lines ELSE 0 IN
                       \A i \in 1..Len(chats[p]) : chats[p][i] = IF i <= mock THEN i ELSE Seed!Live
                    /\ (p \notin owed /\ chats[p] # <<>>) => threads[p] = chats[p][Len(chats[p])]
  BY Zenon DEF Seed!ConversationIsOnce
<1>1. SeedUndisturbed(p)
  BY Zenon DEF SeedInv, SeedChatsKnown
<1>2. SeedLined(p) /\ (p \notin owed /\ chats[p] # <<>> => threads[p] = chats[p][Len(chats[p])])
  BY <1>1, Zenon DEF SeedUndisturbed
<1>3. QED
  BY <1>2, Zenon DEF SeedLined

LEMMA SeedPrices ==
    ASSUME SeedInv
    PROVE  Seed!PricesAreOnce
BY Zenon DEF SeedInv, SeedPricesKnown, Seed!PricesAreOnce

SeedStaysMoved ==
    /\ \A p \in 1..Phones : /\ (purchase[p].status = "moved" => purchase'[p].status = "moved")
                            /\ (sell[p].status = "moved" => sell'[p].status = "moved")
    /\ \A n \in 1..Items : news[n] = "moved" => news'[n] = "moved"

(* A row that is written is not there yet, is given its number only, or is *)
(* moved on.                                                               *)
LEMMA SeedRowStays ==
    ASSUME NEW before \in [1..Phones -> Seed!Row], NEW next, NEW i \in 1..Phones, NEW old,
           next = [before EXCEPT ![i] = old],
           before[i].status = "moved" => old.status = "moved"
    PROVE  \A p \in 1..Phones : before[p].status = "moved" => next[p].status = "moved"
<1>1. \A p \in 1..Phones : next[p] = (IF p = i THEN old ELSE before[p])
  BY Zenon
<1>2. QED
  BY <1>1, Zenon

LEMMA SeedTradeStays ==
    ASSUME Seed!SeedAssumption, SeedRunShape, SeedRowsShape, Seed!Next
    PROVE  SeedStaysMoved
<1>1. CASE UNCHANGED Seed!trade
  BY <1>1, Zenon DEF Seed!trade, SeedStaysMoved
<1>2. ASSUME NEW s \in Slots, Seed!WritePurchase(s) PROVE SeedStaysMoved
  <2>1. SeedActive(s) /\ Seed!Task(s).kind = "purchase" /\ sell' = sell /\ news' = news
    BY <1>2, SMT DEF Seed!WritePurchase, Seed!At, SeedActive
  <2>2. PICK i \in 1..Phones : i = Seed!Task(s).i
    BY <2>1, SeedTaskIs, Zenon
  <2>3. purchase \in [1..Phones -> Seed!Row] /\ purchase[i] \in Seed!Row
    BY Zenon DEF SeedRowsShape
  <2>4. \/ purchase' = purchase
        \/ purchase' = [purchase EXCEPT ![i] = Seed!Patched(purchase[i])]
        \/ purchase[i].status = "none" /\ purchase' = [purchase EXCEPT ![i] = [status |-> "first", numbered |-> TRUE]]
    BY <1>2, <2>2, <2>3, Zenon DEF Seed!WritePurchase
  <2>5. Seed!Patched(purchase[i]).status = purchase[i].status
    BY SMT DEF Seed!Patched
  <2>6. \A p \in 1..Phones : purchase[p].status = "moved" => purchase'[p].status = "moved"
    <3>1. CASE purchase' = purchase
      BY <3>1
    <3>2. CASE purchase' = [purchase EXCEPT ![i] = Seed!Patched(purchase[i])]
      BY <2>3, <2>5, <3>2, SeedRowStays, Zenon
    <3>3. CASE purchase[i].status = "none" /\
                 purchase' = [purchase EXCEPT ![i] = [status |-> "first", numbered |-> TRUE]]
      <4>1. ~(purchase[i].status = "moved")
        BY <3>3, SMT
      <4>2. QED
        BY <2>3, <3>3, <4>1, SeedRowStays, Zenon
    <3>4. QED
      BY <2>4, <3>1, <3>2, <3>3
  <2>7. QED
    BY <2>1, <2>6, Zenon DEF SeedStaysMoved
<1>3. ASSUME NEW s \in Slots, Seed!WriteSell(s) PROVE SeedStaysMoved
  <2>1. SeedActive(s) /\ Seed!Task(s).kind = "sell" /\ purchase' = purchase /\ news' = news
    BY <1>3, SMT DEF Seed!WriteSell, Seed!At, SeedActive
  <2>2. PICK i \in 1..Phones : i = Seed!Task(s).i
    BY <2>1, SeedTaskIs, Zenon
  <2>3. sell \in [1..Phones -> Seed!Row] /\ sell[i] \in Seed!Row
    BY Zenon DEF SeedRowsShape
  <2>4. \/ sell' = sell
        \/ sell' = [sell EXCEPT ![i] = Seed!Patched(sell[i])]
        \/ sell[i].status = "none" /\ sell' = [sell EXCEPT ![i] = [status |-> "first", numbered |-> TRUE]]
    BY <1>3, <2>2, <2>3, Zenon DEF Seed!WriteSell
  <2>5. Seed!Patched(sell[i]).status = sell[i].status
    BY SMT DEF Seed!Patched
  <2>6. \A p \in 1..Phones : sell[p].status = "moved" => sell'[p].status = "moved"
    <3>1. CASE sell' = sell
      BY <3>1
    <3>2. CASE sell' = [sell EXCEPT ![i] = Seed!Patched(sell[i])]
      BY <2>3, <2>5, <3>2, SeedRowStays, Zenon
    <3>3. CASE sell[i].status = "none" /\ sell' = [sell EXCEPT ![i] = [status |-> "first", numbered |-> TRUE]]
      <4>1. ~(sell[i].status = "moved")
        BY <3>3, SMT
      <4>2. QED
        BY <2>3, <3>3, <4>1, SeedRowStays, Zenon
    <3>4. QED
      BY <2>4, <3>1, <3>2, <3>3
  <2>7. QED
    BY <2>1, <2>6, Zenon DEF SeedStaysMoved
<1>4. ASSUME NEW s \in Slots, Seed!WriteNews(s) PROVE SeedStaysMoved
  <2>1. SeedActive(s) /\ Seed!Task(s).kind = "news" /\ purchase' = purchase /\ sell' = sell
    BY <1>4, SMT DEF Seed!WriteNews, Seed!At, SeedActive
  <2>2. PICK i \in 1..Items : i = Seed!Task(s).i
    BY <2>1, SeedTaskIs, Zenon
  <2>3. news' = news \/ (news[i] = "none" /\ news' = [news EXCEPT ![i] = "first"])
    BY <1>4, <2>2, Zenon DEF Seed!WriteNews
  <2>4. \A n \in 1..Items : news'[n] = news[n] \/ news[n] = "none"
    BY <2>3, Zenon DEF SeedRowsShape
  <2>5. \A n \in 1..Items : news[n] = "moved" => news'[n] = "moved"
    <3>1. "none" # "moved"
      BY SMT
    <3>2. QED
      BY <2>4, <3>1, Zenon
  <2>6. QED
    BY <2>1, <2>5, Zenon DEF SeedStaysMoved
<1>5. CASE Seed!Moving
  <2>1. purchase \in [1..Phones -> Seed!Row] /\ sell \in [1..Phones -> Seed!Row]
    BY Zenon DEF SeedRowsShape
  <2>2. ASSUME NEW r \in Seed!Row PROVE Seed!Moves(r).status = "moved"
    BY SMT DEF Seed!Moves, Seed!Row
  <2>3. \A p \in 1..Phones : purchase[p].status = "moved" => purchase'[p].status = "moved"
    <3>1. purchase' = purchase \/ \E q \in 1..Phones : purchase' = [purchase EXCEPT ![q] = Seed!Moves(purchase[q])]
      BY <1>5, <2>1, SMT DEF Seed!Moving
    <3>2. CASE purchase' = purchase
      BY <3>2
    <3>3. ASSUME NEW q \in 1..Phones, purchase' = [purchase EXCEPT ![q] = Seed!Moves(purchase[q])]
          PROVE  \A p \in 1..Phones : purchase[p].status = "moved" => purchase'[p].status = "moved"
      BY <2>1, <2>2, <3>3, SeedRowStays, Zenon
    <3>4. QED
      BY <3>1, <3>2, <3>3, Zenon
  <2>4. \A p \in 1..Phones : sell[p].status = "moved" => sell'[p].status = "moved"
    <3>1. sell' = sell \/ \E q \in 1..Phones : sell' = [sell EXCEPT ![q] = Seed!Moves(sell[q])]
      BY <1>5, <2>1, SMT DEF Seed!Moving
    <3>2. CASE sell' = sell
      BY <3>2
    <3>3. ASSUME NEW q \in 1..Phones, sell' = [sell EXCEPT ![q] = Seed!Moves(sell[q])]
          PROVE  \A p \in 1..Phones : sell[p].status = "moved" => sell'[p].status = "moved"
      BY <2>1, <2>2, <3>3, SeedRowStays, Zenon
    <3>4. QED
      BY <3>1, <3>2, <3>3, Zenon
  <2>5. \A n \in 1..Items : news[n] = "moved" => news'[n] = "moved"
    <3>1. news' = news \/ \E m \in 1..Items : news' = [news EXCEPT ![m] = "moved"]
      BY <1>5, Zenon DEF Seed!Moving
    <3>2. QED
      BY <3>1, Zenon DEF SeedRowsShape
  <2>6. QED
    BY <2>3, <2>4, <2>5, Zenon DEF SeedStaysMoved
<1>6. ASSUME NEW s \in Slots, SeedRunActs(s), ~Seed!WritePurchase(s), ~Seed!WriteSell(s), ~Seed!WriteNews(s)
      PROVE  UNCHANGED Seed!trade
  BY <1>6, Zenon DEF SeedRunActs, Seed!Start, Seed!Crash, Seed!FindAdmin, Seed!MakeAdmin, Seed!FindUser, Seed!MakeUser,
       Seed!FindPurchase, Seed!FindBuyer, Seed!FindSeller, Seed!FindSell, Seed!FindNews, Seed!FindTalker,
       Seed!ClearChat, Seed!SayLine, Seed!WriteThread, Seed!CountPrices, Seed!MakePrices, Seed!MakeLevels
<1>7. ASSUME NEW p \in 1..Phones, Seed!Registers(p) \/ Seed!Says(p) \/ Seed!Told(p) PROVE UNCHANGED Seed!trade
  BY <1>7, Zenon DEF Seed!Registers, Seed!Says, Seed!Told
<1>8. QED
  BY <1>1, <1>2, <1>3, <1>4, <1>5, <1>6, <1>7, SeedNextCases, Zenon

LEMMA SeedHolds ==
    Seed!SeedAssumption /\ IsFiniteSet(Slots) =>
        (Seed!Init /\ [][Seed!Next]_(Seed!vars) => []Seed!TypeOK /\ []Seed!PricesAreOnce /\
         []Seed!ConversationIsOnce /\ []Seed!CompletedIsThere /\ Seed!MovedStays)
<1> SUFFICES ASSUME Seed!SeedAssumption, IsFiniteSet(Slots)
             PROVE  Seed!Init /\ [][Seed!Next]_(Seed!vars) =>
                       []Seed!TypeOK /\ []Seed!PricesAreOnce /\ []Seed!ConversationIsOnce /\ []Seed!CompletedIsThere /\
                         Seed!MovedStays
  OBVIOUS
<1> DEFINE Stays ==
             /\ \A p \in 1..Phones : /\ (purchase[p].status = "moved" => purchase'[p].status = "moved")
                                     /\ (sell[p].status = "moved" => sell'[p].status = "moved")
             /\ \A n \in 1..Items : news[n] = "moved" => news'[n] = "moved"
<1>1. Seed!Init => SeedInv
  BY SeedInit
<1>2. SeedInv /\ [Seed!Next]_(Seed!vars) => SeedInv'
  BY SeedStep
<1>3. SeedInv => Seed!TypeOK /\ Seed!PricesAreOnce /\ Seed!ConversationIsOnce /\ Seed!CompletedIsThere
  BY SeedTypes, SeedPrices, SeedSaid, SeedCompletes
<1>4. SeedInv /\ [Seed!Next]_(Seed!vars) => [Stays]_(Seed!vars)
  BY SeedTradeStays, Zenon DEF SeedInv, SeedStaysMoved
<1>5. Seed!MovedStays <=> [][Stays]_(Seed!vars)
  BY PTL DEF Seed!MovedStays
<1> HIDE DEF Stays
<1>6. QED
  BY <1>1, <1>2, <1>3, <1>4, <1>5, PTL
-----------------------------------------------------------------------------
(***************************************************************************)
(* All parts: MCProgress.                                                  *)
(***************************************************************************)
LEMMA RegIs == Spec => Registration!Init /\ [][Registration!Next]_(Registration!vars)
<1>1. Init => Registration!Init
  BY DEF Init
<1>2. [Next]_vars => [Registration!Next]_(Registration!vars)
  BY DEF Next, InRegistration, InApp, InPanel, InKyc, InChat, InScript, vars, registration, Registration!vars,
       Registration!server, Registration!app
<1>3. QED
  BY <1>1, <1>2, PTL DEF Spec

LEMMA AppIs == Spec => AppSession!Init /\ [][AppSession!Next]_(AppSession!vars)
<1>1. Init => AppSession!Init
  BY DEF Init
<1>2. [Next]_vars => [AppSession!Next]_(AppSession!vars)
  BY DEF Next, InRegistration, InApp, InPanel, InKyc, InChat, InScript, vars, app, AppSession!vars
<1>3. QED
  BY <1>1, <1>2, PTL DEF Spec

LEMMA PanIs == Spec => PanelSession!Init /\ [][PanelSession!Next]_(PanelSession!vars)
<1>1. Init => PanelSession!Init
  BY DEF Init
<1>2. [Next]_vars => [PanelSession!Next]_(PanelSession!vars)
  BY DEF Next, InRegistration, InApp, InPanel, InKyc, InChat, InScript, vars, sessions, PanelSession!vars,
       PanelSession!shared
<1>3. QED
  BY <1>1, <1>2, PTL DEF Spec

LEMMA KycIs == Spec => Kyc!Init /\ [][Kyc!Next]_(Kyc!vars)
<1>1. Init => Kyc!Init
  BY DEF Init
<1>2. [Next]_vars => [Kyc!Next]_(Kyc!vars)
  BY DEF Next, InRegistration, InApp, InPanel, InKyc, InChat, InScript, vars, kyc, Kyc!vars, Kyc!server, Kyc!desk
<1>3. QED
  BY <1>1, <1>2, PTL DEF Spec

LEMMA ChatIs == Spec => ChatPanel!Init /\ [][ChatPanel!Next]_(ChatPanel!vars)
<1>1. Init => ChatPanel!Init
  BY DEF Init
<1>2. [Next]_vars => [ChatPanel!Next]_(ChatPanel!vars)
  BY DEF Next, InRegistration, InApp, InPanel, InKyc, InChat, InScript, vars, chat, ChatPanel!vars
<1>3. QED
  BY <1>1, <1>2, PTL DEF Spec

LEMMA SeedIs == Spec => Seed!Init /\ [][Seed!Next]_(Seed!vars)
<1>1. Init => Seed!Init
  BY DEF Init
<1>2. [Next]_vars => [Seed!Next]_(Seed!vars)
  BY DEF Next, InRegistration, InApp, InPanel, InKyc, InChat, InScript, vars, script, Seed!vars
<1>3. QED
  BY <1>1, <1>2, PTL DEF Spec

(* The part chosen at the start is one of the six.                         *)
PartOK == part \in {"registration", "app", "panel", "kyc", "chat", "script"}

LEMMA PartStays == Spec => []PartOK
<1>1. Init => PartOK
  BY DEF Init, PartOK
<1>2. PartOK /\ [Next]_vars => PartOK'
  BY DEF Next, InRegistration, InApp, InPanel, InKyc, InChat, InScript, vars, PartOK
<1>3. QED
  BY <1>1, <1>2, PTL DEF Spec

(* What each part keeps, for the specification of them all.                *)
LEMMA EachHolds ==
    Spec => /\ []Registration!TypeOK /\ []Registration!CodeUsedOnce /\ Registration!InAfterRegistration
            /\ []AppSession!TypeOK /\ []AppSession!ShowsItsOwner /\ []AppSession!RestartKeepsSession
            /\ AppSession!RestartSignsNobodyIn
            /\ []PanelSession!TypeOK /\ []PanelSession!ShowsWhoActs /\ PanelSession!SignedOutStaysOut
            /\ []Kyc!TypeOK /\ []Kyc!SignatureOfRow /\ Kyc!VerifiedIsKept
            /\ []ChatPanel!TypeOK /\ []ChatPanel!DraftGoesToItsThread /\ []ChatPanel!ReadIsShown
            /\ []Seed!TypeOK /\ []Seed!PricesAreOnce /\ []Seed!ConversationIsOnce /\ []Seed!CompletedIsThere
            /\ Seed!MovedStays
<1>1. Spec => []Registration!TypeOK /\ []Registration!CodeUsedOnce /\ Registration!InAfterRegistration
  BY RegIs, RegHolds, ProgressAssumption, PTL
<1>2. Spec => /\ []AppSession!TypeOK /\ []AppSession!ShowsItsOwner /\ []AppSession!RestartKeepsSession
              /\ AppSession!RestartSignsNobodyIn
  BY AppIs, AppHolds, ProgressAssumption, PTL
<1>3. Spec => []PanelSession!TypeOK /\ []PanelSession!ShowsWhoActs /\ PanelSession!SignedOutStaysOut
  BY PanIs, PanHolds, ProgressAssumption, PTL
<1>4. Spec => []Kyc!TypeOK /\ []Kyc!SignatureOfRow /\ Kyc!VerifiedIsKept
  BY KycIs, KycHolds, ProgressAssumption, PTL
<1>5. Spec => []ChatPanel!TypeOK /\ []ChatPanel!DraftGoesToItsThread /\ []ChatPanel!ReadIsShown
  BY ChatIs, ChatHolds, ProgressAssumption, PTL
<1>6. Spec => /\ []Seed!TypeOK /\ []Seed!PricesAreOnce /\ []Seed!ConversationIsOnce /\ []Seed!CompletedIsThere
              /\ Seed!MovedStays
  BY SeedIs, SeedHolds, ProgressAssumption, PTL
<1>7. QED
  BY <1>1, <1>2, <1>3, <1>4, <1>5, <1>6, PTL

(* Rows, stores, sessions and requests of all six parts keep their shapes, *)
(* for any constants that satisfy ProgressAssumption.                      *)
THEOREM TypeCorrect == Spec => []TypeOK
<1>1. /\ PartOK
      /\ Registration!TypeOK /\ AppSession!TypeOK /\ PanelSession!TypeOK /\ Kyc!TypeOK /\ ChatPanel!TypeOK
      /\ Seed!TypeOK
      => TypeOK
  BY DEF TypeOK, PartOK
<1>2. QED
  BY <1>1, EachHolds, PartStays, PTL

(* Nobody sees or uses what is another's or was used up: sessions show the *)
(* account they act for, also after a restart, a signature is its row's, a *)
(* code lets one registration in, a draft and what is marked read are of   *)
(* the conversation shown, and the script writes everything once; for any  *)
(* accounts, tabs, losses, restarts and runs of the script at once.        *)
THEOREM OnesOwn == Spec => []OnlyOnesOwn
<1>1. /\ Registration!CodeUsedOnce /\ AppSession!ShowsItsOwner /\ AppSession!RestartKeepsSession
      /\ PanelSession!ShowsWhoActs /\ Kyc!SignatureOfRow
      /\ ChatPanel!DraftGoesToItsThread /\ ChatPanel!ReadIsShown
      /\ Seed!PricesAreOnce /\ Seed!ConversationIsOnce /\ Seed!CompletedIsThere
      => OnlyOnesOwn
  BY DEF OnlyOnesOwn
<1>2. QED
  BY <1>1, EachHolds, PTL

(* Who gets in was let in, and what was granted stays: no step enters the  *)
(* app before there is an account, signs anybody in by a restart, brings a *)
(* signed-out tab back without a login, takes a verification back by a     *)
(* submission, or a row that went on by another run of the script.         *)
THEOREM Earned == Spec => EntriesAreEarned
  BY EachHolds, PTL DEF EntriesAreEarned
=============================================================================
