--------------------------------- MODULE Kyc ---------------------------------
(***************************************************************************)
(* Verification of one user: submitKyc of backend/src/user/user.service.ts,*)
(* the review in the panel's UserDetailDrawer (updateKycStatus), and what  *)
(* the app, which learns the status only when a session is established,    *)
(* offers in the meantime.                                                 *)
(*                                                                         *)
(* submitKyc reads the status, writes the signature file and then the row, *)
(* in three awaited calls; a review may come between any two of them, and  *)
(* the unique register number may refuse the last one.                     *)
(***************************************************************************)
EXTENDS Naturals

CONSTANTS
    Slots,        \* submitKyc handlers that can be in flight together
    MaxDocs,      \* bound: submissions; document d is the d-th
    Admins,       \* administrators, each with a drawer
    MaxReviews,   \* bound: reviews by administrators
    Nil           \* "none"

(* What the constants have to be.                                          *)
KycAssumption == MaxDocs \in Nat /\ MaxReviews \in Nat

VARIABLES
    status,    \* User.kycStatus
    row,       \* the document in the User row (names, register number); 0: none
    file,      \* the document of the file uploads/signatures/<user>.png
    job,       \* job[t]: the submitKyc handler of slot t
    docs,      \* documents submitted so far
    panel,     \* panel[a]: what the drawer shows, status and document; Nil: closed
    reviews,   \* reviews so far
    local,     \* user.kycStatus of the app's store; Nil: logged out
    torn       \* history: a refused or interrupted update left file and row apart

server == <<status, row, file, job, docs, torn>>
desk == <<panel, reviews>>
vars == <<server, desk, local>>

KycStatus == {"PENDING", "VERIFIED", "REJECTED"}
IdleJob == [pc |-> "idle", doc |-> 0, late |-> FALSE]

(* The database's default for a new user is PENDING, with nothing on file. *)
Init ==
    /\ status = "PENDING" /\ row = 0 /\ file = 0
    /\ job = [t \in Slots |-> IdleJob]
    /\ docs = 0 /\ torn = FALSE
    /\ panel = [a \in Admins |-> Nil] /\ reviews = 0
    /\ local = Nil

(***************************************************************************)
(* The app.                                                                *)
(***************************************************************************)

(* MUTANT of LogIn: a user without documents gets a status of the app.     *)
LogInUnsubmitted ==
    /\ local = Nil
    /\ local' = IF row = 0 THEN "NOT_SUBMITTED" ELSE status
    /\ UNCHANGED <<server, desk>>

(* establishSession: the profile's status is the app's from now on.        *)
LogIn ==
    /\ local = Nil
    /\ local' = status
    /\ UNCHANGED <<server, desk>>

(* The access token expires after an hour: the next 401 logs out.          *)
Expire ==
    /\ local # Nil
    /\ local' = Nil
    /\ UNCHANGED <<server, desk>>

(* KycStatusBanner: PENDING shows a text only; the others link to Kyc.     *)
BannerLinks == local = "REJECTED"
CanPurchase == local = "VERIFIED"

(* MUTANT of SubmitKyc: the status is not looked at.                       *)
SubmitKycAlways(t) ==
    /\ job[t].pc = "idle" /\ docs < MaxDocs
    /\ BannerLinks
    /\ docs' = docs + 1
    /\ job' = [job EXCEPT ![t] = [pc |-> "write", doc |-> docs', late |-> status = "VERIFIED"]]
    /\ UNCHANGED <<status, row, file, torn, desk, local>>

(* KycScreen.submit reaches submitKyc up to its first await: a verified    *)
(* user is refused.  late: the user was verified when the handler began.   *)
SubmitKyc(t) ==
    /\ job[t].pc = "idle" /\ docs < MaxDocs
    /\ BannerLinks
    /\ docs' = docs + 1
    /\ IF status = "VERIFIED" THEN UNCHANGED job
       ELSE job' = [job EXCEPT ![t] = [pc |-> "write", doc |-> docs', late |-> FALSE]]
    /\ UNCHANGED <<status, row, file, torn, desk, local>>

WriteSignature(t) ==
    /\ job[t].pc = "write"
    /\ file' = job[t].doc
    /\ job' = [job EXCEPT ![t].pc = "update"]
    /\ UNCHANGED <<status, row, docs, torn, desk, local>>

Overlap == \E t, s \in Slots : t # s /\ job[t].pc # "idle" /\ job[s].pc # "idle"

(* MUTANT of UpdateRow: the register number keeps its first value.         *)
UpdateRowOnce(t) ==
    /\ job[t].pc = "update"
    /\ row' = IF row = 0 THEN job[t].doc ELSE row
    /\ status' = "PENDING"
    /\ local' = IF local = Nil THEN Nil ELSE "PENDING"
    /\ job' = [job EXCEPT ![t] = IdleJob]
    /\ torn' = (torn \/ Overlap)
    /\ UNCHANGED <<file, docs, desk>>

(* The row is written whatever the status has become; the app sets its own *)
(* copy to PENDING with the answer.                                        *)
UpdateRow(t) ==
    /\ job[t].pc = "update"
    /\ row' = job[t].doc
    /\ status' = "PENDING"
    /\ local' = IF local = Nil THEN Nil ELSE "PENDING"
    /\ job' = [job EXCEPT ![t] = IdleJob]
    /\ torn' = (torn \/ Overlap)
    /\ UNCHANGED <<file, docs, desk>>

(* The file is already replaced when the row is refused, or the call lost. *)
FailSubmit(t) ==
    /\ job[t].pc # "idle"
    /\ job' = [job EXCEPT ![t] = IdleJob]
    /\ torn' = (torn \/ job[t].pc = "update")
    /\ UNCHANGED <<status, row, file, docs, desk, local>>

(***************************************************************************)
(* The panel.                                                              *)
(***************************************************************************)

(* useUser: the row as it is now (the select has no signature).            *)
OpenDrawer(a) ==
    /\ panel' = [panel EXCEPT ![a] = [status |-> status, doc |-> row]]
    /\ UNCHANGED <<server, reviews, local>>

(* The buttons are enabled by the status the drawer shows, which another   *)
(* administrator may have changed since; the update does not look at the   *)
(* row's; the drawer refetches.                                            *)
Review(a, s) ==
    /\ panel[a] # Nil /\ panel[a].status = "PENDING"
    /\ reviews < MaxReviews /\ reviews' = reviews + 1
    /\ status' = s
    /\ panel' = [panel EXCEPT ![a] = [status |-> s, doc |-> row]]
    /\ UNCHANGED <<row, file, job, docs, torn, local>>

Next ==
    \/ LogIn \/ Expire
    \/ \E t \in Slots : SubmitKyc(t) \/ WriteSignature(t) \/ UpdateRow(t) \/ FailSubmit(t)
    \/ \E a \in Admins : \/ OpenDrawer(a)
                         \/ Review(a, "VERIFIED") \/ Review(a, "REJECTED")

(* Tokens expire after an hour; the user logs in again.                    *)
LogsInAgain == WF_vars(Expire) /\ WF_vars(LogIn)

Spec == Init /\ [][Next]_vars /\ LogsInAgain

TypeOK ==
    /\ status \in KycStatus
    /\ local \in KycStatus \cup {Nil}
    /\ {row, file} \subseteq 0..docs /\ docs \in 0..MaxDocs
    /\ job \in [Slots -> [pc : {"idle", "write", "update"}, doc : 0..MaxDocs, late : BOOLEAN]]
    /\ \A a \in Admins : panel[a] = Nil \/ (panel[a].status \in KycStatus /\ panel[a].doc \in 0..docs)
    /\ reviews \in 0..MaxReviews

(***************************************************************************)
(* A verification is taken back by a review, or by a submission that was   *)
(* admitted before it; never by one that came after.                       *)
(***************************************************************************)
VerifiedIsKept ==
    [][status = "VERIFIED" /\ status' # "VERIFIED" =>
          \/ reviews' > reviews
          \/ \E t \in Slots : /\ job[t].pc = "update" /\ job'[t].pc = "idle"
                              /\ ~job[t].late]_vars

(***************************************************************************)
(* The signature in the file is the one that was submitted with the names  *)
(* in the row, when no submission is running and none was refused after    *)
(* the file was written or ran beside another (torn).                      *)
(***************************************************************************)
SignatureOfRow ==
    ~torn /\ (\A t \in Slots : job[t].pc # "update") => file = row

(* A user who stays verified is offered the purchase eventually, although  *)
(* the app never asks for the status again within a session.               *)
VerifiedIsOffered == <>[](status = "VERIFIED") => []<>CanPurchase
=============================================================================
