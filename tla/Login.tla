-------------------------------- MODULE Login --------------------------------
(***************************************************************************)
(* backend/src/auth/auth.service.ts, login: the count of failed attempts   *)
(* of a phone number and the block that follows MaxFailures of them.       *)
(*                                                                         *)
(* The record lives in the memory of the process.  Between the check of    *)
(* the block and the count of a failure the handler awaits the lookup of   *)
(* the user and bcrypt.compare, so attempts are in flight together, and    *)
(* several may have passed the check when one of them sets the block.      *)
(***************************************************************************)
EXTENDS Integers, FiniteSets

CONSTANTS
    Phones,        \* normalized phone numbers
    Registered,    \* those that have a User row
    Slots,         \* login requests that can be in flight together
    MaxFailures,   \* MAX_LOGIN_FAILURES
    Block,         \* LOGIN_BLOCK_MS
    MaxTime,       \* bound: ticks of the clock
    MaxRestarts,   \* bound: restarts of the process
    Nil            \* "no phone"

(* What the constants have to be.                                          *)
LoginAssumption ==
    /\ IsFiniteSet(Slots)
    /\ Registered \subseteq Phones
    /\ Nil \notin Phones
    /\ MaxFailures \in Nat \ {0}
    /\ Block \in Nat \ {0}
    /\ MaxTime \in Nat
    /\ MaxRestarts \in Nat

VARIABLES
    now,        \* Date.now()
    attempts,   \* loginAttempts: phone -> [count, until]; until = 0: not blocked
    attempt,    \* attempt[t]: the login handler of slot t
    restarts,   \* restarts so far
    wrong       \* history: failures of a phone since its record was last empty

vars == <<now, attempts, attempt, restarts, wrong>>

NoRecord == [count |-> 0, until |-> 0]
IdleAttempt == [pc |-> "idle", phone |-> Nil]

Init ==
    /\ now = 0
    /\ attempts = [p \in Phones |-> NoRecord]
    /\ attempt = [t \in Slots |-> IdleAttempt]
    /\ restarts = 0
    /\ wrong = [p \in Phones |-> 0]

Blocked(p) == attempts[p].until > now

(* MUTANT of Login: a phone that is blocked is let through.                *)
LoginUnchecked(t, p) ==
    /\ attempt[t].pc = "idle"
    /\ attempt' = [attempt EXCEPT ![t] = [pc |-> "lookup", phone |-> p]]
    /\ UNCHANGED <<now, attempts, restarts, wrong>>

(* login up to its first await: assertNotLoginBlocked drops a record whose *)
(* block has expired, with the failures counted since.                     *)
Login(t, p) ==
    /\ attempt[t].pc = "idle"
    /\ ~Blocked(p)
    /\ attempts' = IF attempts[p].until = 0 THEN attempts
                   ELSE [attempts EXCEPT ![p] = NoRecord]
    /\ wrong' = IF attempts[p].until = 0 THEN wrong ELSE [wrong EXCEPT ![p] = 0]
    /\ attempt' = [attempt EXCEPT ![t] = [pc |-> "lookup", phone |-> p]]
    /\ UNCHANGED <<now, restarts>>

(* MUTANT of Failed: the limit is passed before it blocks.                 *)
FailedLate(rec) ==
    IF rec.count >= MaxFailures THEN [count |-> 0, until |-> now + Block]
    ELSE [rec EXCEPT !.count = @ + 1]

(* MUTANT of Failed: a fresh record for every failure past the limit.      *)
FailedFresh(rec) ==
    IF rec.count + 1 >= MaxFailures THEN [count |-> 0, until |-> now + Block]
    ELSE [count |-> rec.count + 1, until |-> 0]

(* recordLoginFailure's record: a later failure keeps, or extends, a block. *)
Failed(rec) ==
    IF rec.count + 1 >= MaxFailures THEN [count |-> 0, until |-> now + Block]
    ELSE [rec EXCEPT !.count = @ + 1]

(* recordLoginFailure, and the answer 401.                                 *)
Fail(t) ==
    LET p == attempt[t].phone IN
    /\ attempts' = [attempts EXCEPT ![p] = Failed(@)]
    /\ wrong' = [wrong EXCEPT ![p] = @ + 1]
    /\ attempt' = [attempt EXCEPT ![t] = IdleAttempt]
    /\ UNCHANGED <<now, restarts>>

(* findUnique answers: an unknown phone is counted like a wrong password.  *)
Lookup(t) ==
    /\ attempt[t].pc = "lookup"
    /\ IF attempt[t].phone \in Registered
       THEN /\ attempt' = [attempt EXCEPT ![t].pc = "compare"]
            /\ UNCHANGED <<now, attempts, restarts, wrong>>
       ELSE Fail(t)

WrongPassword(t) == attempt[t].pc = "compare" /\ Fail(t)

(* clearLoginFailures: also when other attempts have set the block since,  *)
(* and before the status of the account is looked at.                      *)
RightPassword(t) ==
    LET p == attempt[t].phone IN
    /\ attempt[t].pc = "compare"
    /\ attempts' = [attempts EXCEPT ![p] = NoRecord]
    /\ wrong' = [wrong EXCEPT ![p] = 0]
    /\ attempt' = [attempt EXCEPT ![t] = IdleAttempt]
    /\ UNCHANGED <<now, restarts>>

Tick ==
    /\ now < MaxTime
    /\ now' = now + 1
    /\ UNCHANGED <<attempts, attempt, restarts, wrong>>

(* The process restarts: the records and the requests in flight are lost.  *)
Restart ==
    /\ restarts < MaxRestarts
    /\ restarts' = restarts + 1
    /\ attempts' = [p \in Phones |-> NoRecord]
    /\ attempt' = [t \in Slots |-> IdleAttempt]
    /\ wrong' = [p \in Phones |-> 0]
    /\ UNCHANGED now

Next ==
    \/ \E t \in Slots : \/ \E p \in Phones : Login(t, p)
                        \/ Lookup(t)
                        \/ WrongPassword(t)
                        \/ RightPassword(t)
    \/ Tick
    \/ Restart

Spec == Init /\ [][Next]_vars

TypeOK ==
    /\ now \in 0..MaxTime
    /\ attempts \in [Phones -> [count : 0..MaxFailures - 1, until : 0..MaxTime + Block]]
    /\ attempt \in [Slots -> [pc : {"idle", "lookup", "compare"}, phone : Phones \cup {Nil}]]
    /\ \A t \in Slots : attempt[t].pc = "idle" <=> attempt[t].phone = Nil
    /\ restarts \in 0..MaxRestarts
    /\ wrong \in [Phones -> Nat]

InFlight(p) == {t \in Slots : attempt[t].phone = p}

(***************************************************************************)
(* Between two clearings of a phone's record (a success, an expired block, *)
(* a restart) at most MaxFailures guesses are judged, and one more for     *)
(* every other handler that was past the check when the block was set.     *)
(***************************************************************************)
GuessesBounded ==
    \A p \in Phones : wrong[p] <= MaxFailures + Cardinality(Slots) - 1

(***************************************************************************)
(* A block lasts its whole time: only the right password of an attempt     *)
(* that was already in flight, or a restart, ends it early; later failures *)
(* never shorten it.                                                       *)
(***************************************************************************)
BlockLasts ==
    [][\A p \in Phones : Blocked(p) =>
          \/ attempts'[p].until >= attempts[p].until
          \/ restarts' > restarts
          \/ \E t \in InFlight(p) : attempt[t].pc = "compare" /\ attempt'[t].pc = "idle"
                                    /\ attempts'[p] = NoRecord]_vars
=============================================================================
