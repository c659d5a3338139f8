------------------------------ MODULE MCProgress ------------------------------
(***************************************************************************)
(* Small instances of the modules in which something must happen: the      *)
(* registration of the app, its stored session, the sessions of the panel, *)
(* the verification of a customer, the polling of the panel's chat, and    *)
(* the script that fills an empty database.                                *)
(*                                                                         *)
(* They share no state.  TLC follows one of them, `part', chosen in the    *)
(* initial state, while the others rest: the states of the run are the sum *)
(* of theirs and not the product.                                          *)
(***************************************************************************)
EXTENDS FiniteSets

CONSTANTS
    Slots,        \* what runs at once: submits, jobs, tabs, handlers, writes, runs of the script
    Accounts,     \* who uses the app and the panel
    Users,        \* customers who write
    Filters,      \* tabs of the chat list
    Ttl, MaxCodes, MaxLosses,                \* life of a code; bounds of the registration
    MaxStarts,                               \* bound: jobs of the app
    MaxLogins,                               \* bound: logins to the panel
    MaxDocs, MaxReviews,                     \* bounds: documents submitted, reviews
    MaxTurns, MaxMoves, MaxFails,            \* bounds of the chat panel
    Phones, Items, Lines, MaxRuns, MaxActs,  \* what the script writes; its starts, what others do
    Nil

VARIABLES part,
    account, handler, otp, left, codes, spent, screen, pending, seconds, waiting, submit, losses,
    store, mem, job, starts, tangled,
    owner, expired, stored, snapshot, persisted, tab, form, call, crossed,
    status, row, file, filing, docs, panel, reviews, local, torn,
    thread, messages, turns, moves, fails, filter, selected, list, listQ, shown, messagesQ,
    draft, put, read, missed,
    admin, customer, purchase, sell, news, chats, threads, histories, levels, run, begun, acts, owed, mixed, overlapped

registration == <<account, handler, otp, left, codes, spent, screen, pending, seconds, waiting, submit, losses>>
app == <<store, mem, job, starts, tangled>>
sessions == <<owner, expired, stored, snapshot, persisted, tab, form, call, crossed>>
kyc == <<status, row, file, filing, docs, panel, reviews, local, torn>>
chat == <<thread, messages, turns, moves, fails, filter, selected, list, listQ, shown, messagesQ,
          draft, put, read, missed>>
script == <<admin, customer, purchase, sell, news, chats, threads, histories, levels,
            run, begun, acts, owed, mixed, overlapped>>
vars == <<part, registration, app, sessions, kyc, chat, script>>

Registration == INSTANCE Registration WITH Submits <- Slots
AppSession == INSTANCE AppSession WITH Jobs <- Slots
PanelSession == INSTANCE PanelSession WITH Tabs <- Slots, Admins <- Accounts
Kyc == INSTANCE Kyc WITH Admins <- Accounts, job <- filing
ChatPanel == INSTANCE ChatPanel WITH Tabs <- Filters, tab <- filter, chat <- messages
Seed == INSTANCE Seed WITH
    Runs <- Slots, MaxStarts <- MaxRuns, MaxTurns <- MaxActs,
    chat <- chats, thread <- threads, prices <- histories, starts <- begun, turns <- acts

(* What the constants have to be.                                          *)
ASSUME ProgressAssumption ==
    /\ Registration!RegistrationAssumption /\ AppSession!SessionAssumption
    /\ PanelSession!PanelSessionAssumption /\ Kyc!KycAssumption /\ ChatPanel!ChatPanelAssumption
    /\ Seed!SeedAssumption /\ IsFiniteSet(Slots)
-----------------------------------------------------------------------------
Init ==
    /\ part \in {"registration", "app", "panel", "kyc", "chat", "script"}
    /\ Registration!Init /\ AppSession!Init /\ PanelSession!Init /\ Kyc!Init /\ ChatPanel!Init
    /\ Seed!Init /\ (part = "script" \/ ~admin)

InRegistration(A) == part = "registration" /\ A /\ UNCHANGED <<part, app, sessions, kyc, chat, script>>
InApp(A) == part = "app" /\ A /\ UNCHANGED <<part, registration, sessions, kyc, chat, script>>
InPanel(A) == part = "panel" /\ A /\ UNCHANGED <<part, registration, app, kyc, chat, script>>
InKyc(A) == part = "kyc" /\ A /\ UNCHANGED <<part, registration, app, sessions, chat, script>>
InChat(A) == part = "chat" /\ A /\ UNCHANGED <<part, registration, app, sessions, kyc, script>>
InScript(A) == part = "script" /\ A /\ UNCHANGED <<part, registration, app, sessions, kyc, chat>>

Next ==
    \/ InRegistration(Registration!Next)
    \/ InApp(AppSession!Next)
    \/ InPanel(PanelSession!Next)
    \/ InKyc(Kyc!Next)
    \/ InChat(ChatPanel!Next)
    \/ InScript(Seed!Next)

(* The fairness the modules state, each for the part that is followed: as  *)
(* one part runs, a condition can stand for an action of every part.       *)
Fairness ==
    /\ \A s \in Slots : /\ WF_vars(InApp(AppSession!Step(s)) \/ InChat(ChatPanel!Write(s))
                               \/ InPanel(PanelSession!Request(s)))
                       /\ WF_vars(InChat(ChatPanel!Done(s)))
                       /\ SF_vars(InPanel(PanelSession!Answered(s)))
    /\ WF_vars(InRegistration(Registration!Retry) \/ InChat(ChatPanel!AskList))
    /\ WF_vars(InRegistration(Registration!FindExisting) \/ InChat(ChatPanel!ReadThreads))
    /\ WF_vars(InRegistration(Registration!CreateUser) \/ InKyc(Kyc!Expire) \/ InChat(ChatPanel!ReadLegacy))
    /\ WF_vars(InRegistration(Registration!CreateWalletRow) \/ InKyc(Kyc!LogIn) \/ InChat(ChatPanel!AnswerList))
    /\ WF_vars(InRegistration(Registration!LoseRequest))
    /\ SF_vars(InRegistration(Registration!TryToRegister))
    /\ SF_vars(InRegistration(Registration!TryToLogIn))
    /\ SF_vars(InRegistration(Registration!LogIn))

Spec == Init /\ [][Next]_vars /\ Fairness
-----------------------------------------------------------------------------
(* The shapes of the rows, the stores and the requests of each part.       *)
TypeOK ==
    CASE part = "registration" -> Registration!TypeOK
      [] part = "app" -> AppSession!TypeOK
      [] part = "panel" -> PanelSession!TypeOK
      [] part = "kyc" -> Kyc!TypeOK
      [] part = "chat" -> ChatPanel!TypeOK
      [] part = "script" -> Seed!TypeOK

(***************************************************************************)
(* Nobody sees or uses what is another's or was used up: the app shows the *)
(* account whose tokens it has and a restart keeps it, a tab of the panel  *)
(* the administrator it acts for; a signature is the file its row names;   *)
(* a code lets one registration in; the script writes its prices and its   *)
(* conversations once, and has all its rows there when it is done.         *)
(***************************************************************************)
OnlyOnesOwn ==
    /\ part = "registration" => Registration!CodeUsedOnce
    /\ part = "app" => AppSession!ShowsItsOwner /\ AppSession!RestartKeepsSession
    /\ part = "panel" => PanelSession!ShowsWhoActs
    /\ part = "kyc" => Kyc!SignatureOfRow
    /\ part = "chat" => ChatPanel!DraftGoesToItsThread /\ ChatPanel!ReadIsShown
    /\ part = "script" => Seed!PricesAreOnce /\ Seed!ConversationIsOnce /\ Seed!CompletedIsThere

(***************************************************************************)
(* Who gets in was let in, and what was granted stays: the app is entered  *)
(* only after an account was made, a restart signs nobody in, a tab that   *)
(* has signed out comes back by a login alone, a verification that was     *)
(* given is not taken back by a submission, and a row that went on since   *)
(* it was seeded not by another run of the script.                         *)
(***************************************************************************)
EntriesAreEarned ==
    /\ Registration!InAfterRegistration
    /\ AppSession!RestartSignsNobodyIn
    /\ PanelSession!SignedOutStaysOut
    /\ Kyc!VerifiedIsKept
    /\ Seed!MovedStays

(***************************************************************************)
(* What has begun gets to its end under the fairness above: a customer who *)
(* keeps trying gets in, a logout ends, also in the other tabs, a customer *)
(* who was verified can buy after another login, and a list that is polled *)
(* becomes what the backend has.                                           *)
(***************************************************************************)
AllGetThere ==
    /\ part = "registration" => Registration!GetsIn
    /\ part = "app" => AppSession!LogoutEnds
    /\ part = "panel" => PanelSession!LogoutReachesTabs
    /\ part = "kyc" => Kyc!VerifiedIsOffered
    /\ part = "chat" => ChatPanel!PollingCatchesUp
=============================================================================
