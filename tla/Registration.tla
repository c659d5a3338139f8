---------------------------- MODULE Registration ----------------------------
(***************************************************************************)
(* Registration of one phone number: the app's RegisterScreen and          *)
(* OtpScreen against register, sendOtp, verifyOtp and login of the         *)
(* backend's AuthService.                                                  *)
(*                                                                         *)
(* register answers with tokens at once; the app keeps them in memory and  *)
(* only uses them when the code is verified.  Either side may stop between *)
(* two steps, and every answer may get lost, so the account may exist      *)
(* although the app does not know it, and a code may be spent although the *)
(* app is not in.                                                          *)
(***************************************************************************)
EXTENDS Integers, FiniteSets

CONSTANTS
    Submits,     \* submissions of the code that can be in flight: the effect and the button
    Ttl,         \* OTP_TTL_MS, and the 300 seconds of the screen's timer
    MaxCodes,    \* bound: codes the server sends
    MaxLosses    \* bound: restarts of the app and of the backend

(* What the constants have to be.                                          *)
RegistrationAssumption ==
    /\ Ttl \in Nat \ {0}
    /\ MaxCodes \in Nat
    /\ MaxLosses \in Nat

VARIABLES
    account,   \* what the database has: a User row, its Wallet row
    handler,   \* where register stands in the backend
    otp,       \* otpStore's entry of the phone; code 0: none
    left,      \* time left before the entry expires
    codes,     \* codes sent so far; the last is the one the user has
    spent,     \* history: spent[c]: how often code c was answered "verified"
    screen,    \* the screen of the app; "In" is the main navigator
    pending,   \* pendingTokens of the app's store
    seconds,   \* OtpScreen's timer
    waiting,   \* the app's request: RegisterScreen's or the resend
    submit,    \* submit[s]: a submission of the code
    losses     \* restarts so far

server == <<account, handler, otp, left, codes, spent>>
app == <<screen, pending, seconds, waiting, submit>>
vars == <<server, app, losses>>

IdleSubmit == [pc |-> "idle", code |-> 0]

Init ==
    /\ account = {}
    /\ handler = "idle"
    /\ otp = 0 /\ left = 0 /\ codes = 0
    /\ spent = [c \in 1..MaxCodes |-> 0]
    /\ screen = "Login" /\ pending = FALSE /\ seconds = 0
    /\ waiting = "none"
    /\ submit = [s \in Submits |-> IdleSubmit]
    /\ losses = 0

(* The links between the screens; leaving OtpScreen drops its timer.       *)
OpenRegister ==
    /\ screen \in {"Login", "Otp"} /\ waiting = "none"
    /\ screen' = "Register" /\ seconds' = 0
    /\ UNCHANGED <<server, pending, waiting, submit, losses>>

OpenLogin ==
    /\ screen \in {"Register", "Otp"} /\ waiting = "none"
    /\ screen' = "Login" /\ seconds' = 0
    /\ UNCHANGED <<server, pending, waiting, submit, losses>>

(* handleRegister: the request leaves, the button is loading.              *)
HandleRegister ==
    /\ screen = "Register" /\ waiting = "none" /\ handler = "idle"
    /\ waiting' = "register"
    /\ handler' = "find"
    /\ UNCHANGED <<account, otp, left, codes, spent, screen, pending, seconds, submit, losses>>

(* register: an existing phone is refused; the screen shows the error.     *)
FindExisting ==
    /\ handler = "find"
    /\ IF "user" \in account
       THEN /\ handler' = "idle"
            /\ waiting' = IF waiting = "register" THEN "none" ELSE waiting
       ELSE handler' = "create" /\ UNCHANGED waiting
    /\ UNCHANGED <<account, otp, left, codes, spent, screen, pending, seconds, submit, losses>>

CreateUser ==
    /\ handler = "create"
    /\ account' = account \cup {"user"}
    /\ handler' = "wallet"
    /\ UNCHANGED <<otp, left, codes, spent, app, losses>>

(* createWalletForUser and issueTokens; the app, if it still waits, keeps  *)
(* the tokens and asks for a code.                                         *)
CreateWalletRow ==
    /\ handler = "wallet"
    /\ account' = account \cup {"wallet"}
    /\ handler' = "idle"
    /\ IF waiting = "register"
       THEN pending' = TRUE /\ waiting' = "send"
       ELSE UNCHANGED <<pending, waiting>>
    /\ UNCHANGED <<otp, left, codes, spent, screen, seconds, submit, losses>>

(* MUTANT of SendOtp: an entry that is there is left in the store.          *)
SendOtpOnce ==
    /\ waiting \in {"send", "resend"}
    /\ codes < MaxCodes
    /\ codes' = codes + 1
    /\ otp' = (IF otp # 0 THEN otp ELSE codes') /\ left' = Ttl
    /\ screen' = "Otp" /\ seconds' = Ttl /\ waiting' = "none"
    /\ UNCHANGED <<account, handler, spent, pending, submit, losses>>

(* sendOtp replaces the entry; the answer opens OtpScreen with a new timer *)
(* or, for a resend, restarts the timer.                                   *)
SendOtp ==
    /\ waiting \in {"send", "resend"}
    /\ codes < MaxCodes
    /\ codes' = codes + 1
    /\ otp' = codes' /\ left' = Ttl
    /\ screen' = "Otp" /\ seconds' = Ttl /\ waiting' = "none"
    /\ UNCHANGED <<account, handler, spent, pending, submit, losses>>

Resend ==
    /\ screen = "Otp" /\ waiting = "none" /\ seconds = 0
    /\ waiting' = "resend"
    /\ UNCHANGED <<server, screen, pending, seconds, submit, losses>>

(* submit: the effect on the sixth digit and the button may both send.     *)
Submit(s) ==
    /\ screen = "Otp" /\ submit[s].pc = "idle"
    /\ \E c \in 1..codes : submit' = [submit EXCEPT ![s] = [pc |-> "verify", code |-> c]]
    /\ UNCHANGED <<server, screen, pending, seconds, waiting, losses>>

(* MUTANT of VerifyOtp: a verified code stays in the store.                *)
VerifyOtpKept(s) ==
    /\ submit[s].pc = "verify" /\ otp = submit[s].code /\ left > 0
    /\ spent' = [spent EXCEPT ![otp] = @ + 1]
    /\ submit' = [submit EXCEPT ![s].pc = "establish"]
    /\ UNCHANGED <<account, handler, otp, left, codes, screen, pending, seconds, waiting, losses>>

(* verifyOtp has no await: an expired entry is dropped, another code is    *)
(* refused, the right one is used up.                                      *)
VerifyOtp(s) ==
    /\ submit[s].pc = "verify"
    /\ IF otp = 0 \/ left = 0
       THEN /\ otp' = 0
            /\ submit' = [submit EXCEPT ![s] = IdleSubmit]
            /\ UNCHANGED spent
       ELSE IF otp # submit[s].code
       THEN /\ submit' = [submit EXCEPT ![s] = IdleSubmit]
            /\ UNCHANGED <<otp, spent>>
       ELSE /\ spent' = [spent EXCEPT ![otp] = @ + 1]
            /\ otp' = 0
            /\ submit' = [submit EXCEPT ![s].pc = "establish"]
    /\ UNCHANGED <<account, handler, left, codes, screen, pending, seconds, waiting, losses>>

(* MUTANT of Establish: pendingTokens are not looked at.                   *)
EstablishAnyway(s) ==
    /\ submit[s].pc = "establish"
    /\ submit' = [submit EXCEPT ![s] = IdleSubmit]
    /\ screen' = "In" /\ pending' = FALSE
    /\ UNCHANGED <<server, seconds, waiting, losses>>

(* Without pendingTokens the error sends the user back to registration;    *)
(* else establishSession opens the main navigator.                         *)
Establish(s) ==
    /\ submit[s].pc = "establish"
    /\ submit' = [submit EXCEPT ![s] = IdleSubmit]
    /\ IF pending THEN screen' = "In" /\ pending' = FALSE
                  ELSE UNCHANGED <<screen, pending>>
    /\ UNCHANGED <<server, seconds, waiting, losses>>

(* MUTANT of LogIn: an account without a wallet is turned away.            *)
LogInWithWallet ==
    /\ screen = "Login" /\ account = {"user", "wallet"}
    /\ screen' = "In" /\ pending' = FALSE
    /\ UNCHANGED <<server, seconds, waiting, submit, losses>>

(* The other way in: the password the user registered with.                *)
LogIn ==
    /\ screen = "Login" /\ "user" \in account
    /\ screen' = "In" /\ pending' = FALSE
    /\ UNCHANGED <<server, seconds, waiting, submit, losses>>

(* Time passes for the entry and, while OtpScreen is open, for its timer.  *)
Tick ==
    /\ left > 0 \/ seconds > 0
    /\ left' = IF left > 0 THEN left - 1 ELSE 0
    /\ seconds' = IF screen = "Otp" /\ seconds > 0 THEN seconds - 1 ELSE seconds
    /\ UNCHANGED <<account, handler, otp, codes, spent, screen, pending, waiting, submit, losses>>

Lose == losses < MaxLosses /\ losses' = losses + 1

(* A request times out after 15 seconds, or its answer is lost: the screen *)
(* shows an error and offers its button again; the backend goes on.        *)
LoseRequest ==
    /\ waiting # "none" /\ waiting' = "none"
    /\ UNCHANGED <<server, screen, pending, seconds, submit, losses>>

LoseSubmit(s) ==
    /\ submit[s].pc # "idle"
    /\ submit' = [submit EXCEPT ![s] = IdleSubmit]
    /\ UNCHANGED <<server, screen, pending, seconds, waiting, losses>>

(* The system closes the app: what the store holds in memory is gone.      *)
KillApp ==
    /\ Lose /\ screen # "In"
    /\ screen' = "Login" /\ pending' = FALSE /\ seconds' = 0 /\ waiting' = "none"
    /\ submit' = [s \in Submits |-> IdleSubmit]
    /\ UNCHANGED server

(* The backend restarts: the handler and the otpStore are gone.            *)
RestartBackend ==
    /\ Lose
    /\ handler' = "idle" /\ otp' = 0 /\ left' = 0 /\ waiting' = "none"
    /\ submit' = [s \in Submits |-> IF submit[s].pc = "verify" THEN IdleSubmit ELSE submit[s]]
    /\ UNCHANGED <<account, codes, spent, screen, pending, seconds>>

Register == HandleRegister \/ FindExisting \/ CreateUser \/ CreateWalletRow

Next ==
    \/ OpenRegister \/ OpenLogin \/ Register
    \/ SendOtp \/ Resend
    \/ \E s \in Submits : Submit(s) \/ VerifyOtp(s) \/ Establish(s) \/ LoseSubmit(s)
    \/ LogIn \/ Tick
    \/ LoseRequest \/ KillApp \/ RestartBackend

Spec == Init /\ [][Next]_vars

(* Handlers run on and a request is answered or times out after 15 seconds *)
(* (axios); the user keeps trying to register and, once the phone is       *)
(* taken, goes to the login screen and logs in.                            *)
Retry == OpenRegister /\ screen = "Login" /\ "user" \notin account
TryToRegister == HandleRegister /\ "user" \notin account
TryToLogIn == OpenLogin /\ "user" \in account
Persistent ==
    /\ WF_vars(Retry)
    /\ WF_vars(FindExisting) /\ WF_vars(CreateUser) /\ WF_vars(CreateWalletRow)
    /\ WF_vars(LoseRequest)
    /\ SF_vars(TryToRegister)
    /\ SF_vars(TryToLogIn)
    /\ SF_vars(LogIn)

FairSpec == Spec /\ Persistent

TypeOK ==
    /\ account \in SUBSET {"user", "wallet"}
    /\ handler \in {"idle", "find", "create", "wallet"}
    /\ codes \in 0..MaxCodes /\ otp \in {0, codes}
    /\ left \in 0..Ttl /\ seconds \in 0..Ttl
    /\ spent \in [1..MaxCodes -> Nat]
    /\ screen \in {"Login", "Register", "Otp", "In"}
    /\ pending \in BOOLEAN
    /\ waiting \in {"none", "register", "send", "resend"}
    /\ submit \in [Submits -> [pc : {"idle", "verify", "establish"}, code : 0..MaxCodes]]
    /\ losses \in 0..MaxLosses

(* verifyOtp: a code opens the app at most once, however many submissions  *)
(* of it are in flight.                                                    *)
CodeUsedOnce == \A c \in 1..MaxCodes : spent[c] <= 1

(***************************************************************************)
(* OtpScreen never opens the main navigator without the tokens of a        *)
(* registration of this process: they exist only for an account with its   *)
(* wallet.  (Login has no such guarantee: see the README.)                 *)
(***************************************************************************)
InAfterRegistration ==
    [][screen = "Otp" /\ screen' = "In" => pending /\ account = {"user", "wallet"}]_vars

(***************************************************************************)
(* However often answers are lost and either side restarts, a user who     *)
(* keeps trying gets in: by the code, or, once the phone is taken, by the  *)
(* password.                                                               *)
(***************************************************************************)
GetsIn == <>(screen = "In")
=============================================================================
