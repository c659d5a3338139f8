------------------------------ MODULE QpayToken ------------------------------
(***************************************************************************)
(* The access token QpayService keeps for all its requests: taken while it *)
(* is fresh by the backend's own clock, asked for otherwise, by every      *)
(* request for itself. QPay, outside, gives tokens and may withdraw them.  *)
(***************************************************************************)
EXTENDS Integers, Sequences

CONSTANTS
    Calls,       \* requests under way at once
    Cache,       \* how long a token is kept (55 minutes)
    Timeout,     \* how long an answer of QPay may take (axios: 15 s)
    Life,        \* external: how long QPay takes a token
    MaxTime,     \* bound: ticks of the clock
    MaxTokens    \* bound: tokens QPay gives

(* A kept token is tried at most one answer's time after it was looked at. *)
QpayAssumption == /\ {Cache, Timeout, Life, MaxTime, MaxTokens} \subseteq Nat
                  /\ Cache + Timeout <= Life

VARIABLES
    now,
    token, tokenExpiresAt,   \* the service's two fields; token 0 is none
    given,       \* given[k]: when QPay gave its k-th token
    withdrawn,   \* the token numbers up to which QPay takes none any more
    withdrawnAt,
    call,        \* call[c]: a request, its token, since when it waits
    refused      \* history: when QPay last refused a token, or -1

vars == <<now, token, tokenExpiresAt, given, withdrawn, withdrawnAt, call, refused>>

Tokens == Len(given)
Free == [pc |-> "idle", token |-> 0, since |-> 0]

Init ==
    /\ now = 0 /\ token = 0 /\ tokenExpiresAt = 0
    /\ given = <<>> /\ withdrawn = 0 /\ withdrawnAt = 0
    /\ call = [c \in Calls |-> Free] /\ refused = -1
-----------------------------------------------------------------------------
(* MUTANT of Fresh: a token is kept for good.                              *)
FreshAlways == token # 0

Fresh == token # 0 /\ now < tokenExpiresAt

(* login() of createInvoice or checkPayment: what is kept, or a question.  *)
Login(c) ==
    /\ call[c].pc = "idle"
    /\ call' = [call EXCEPT ![c] = IF Fresh THEN [pc |-> "use", token |-> token, since |-> 0]
                                   ELSE [pc |-> "ask", token |-> 0, since |-> now]]
    /\ UNCHANGED <<now, token, tokenExpiresAt, given, withdrawn, withdrawnAt, refused>>

(* QPay makes the token; its answer is on the way.                         *)
Give(c) ==
    /\ call[c].pc = "ask" /\ Tokens < MaxTokens
    /\ given' = Append(given, now)
    /\ call' = [call EXCEPT ![c] = [pc |-> "answer", token |-> Tokens + 1, since |-> call[c].since]]
    /\ UNCHANGED <<now, token, tokenExpiresAt, withdrawn, withdrawnAt, refused>>

(* MUTANT of Expiry: 60 minutes and more.                                  *)
ExpiryLong == now + Life + Timeout

Expiry == now + Cache

(* MUTANT of Keep: the first token that was asked for stays.               *)
KeepFirst(k) ==
    /\ token' = (IF token = 0 THEN k ELSE token) /\ tokenExpiresAt' = Expiry

(* The answer: kept from now on, also when a later one was kept before.    *)
Keep(k) == token' = k /\ tokenExpiresAt' = Expiry

Take(c) ==
    /\ call[c].pc = "answer" /\ Keep(call[c].token)
    /\ call' = [call EXCEPT ![c] = [pc |-> "use", token |-> call[c].token, since |-> 0]]
    /\ UNCHANGED <<now, given, withdrawn, withdrawnAt, refused>>

(* The request itself, with the token it has; a refusal ends only the      *)
(* request: the token stays where it is.                                   *)
Taken(k) == k > withdrawn /\ now <= given[k] + Life
Use(c) ==
    /\ call[c].pc = "use" /\ call' = [call EXCEPT ![c] = Free]
    /\ refused' = IF Taken(call[c].token) THEN refused ELSE now
    /\ UNCHANGED <<now, token, tokenExpiresAt, given, withdrawn, withdrawnAt>>

(* QPay refuses, or does not answer: the request ends with an error.       *)
Fail(c) ==
    /\ call[c].pc # "idle" /\ call' = [call EXCEPT ![c] = Free]
    /\ UNCHANGED <<now, token, tokenExpiresAt, given, withdrawn, withdrawnAt, refused>>

(* QPay withdraws what it gave so far.                                     *)
Withdraw ==
    /\ withdrawn < Tokens /\ withdrawn' = Tokens /\ withdrawnAt' = now
    /\ UNCHANGED <<now, token, tokenExpiresAt, given, call, refused>>

(* Time: no answer is waited for longer than the timeout, and a token that *)
(* is in hand is sent within the tick.                                     *)
Tick ==
    /\ now < MaxTime /\ now' = now + 1
    /\ \A c \in Calls : /\ call[c].pc # "use"
                        /\ call[c].pc \in {"ask", "answer"} => now < call[c].since + Timeout
    /\ UNCHANGED <<token, tokenExpiresAt, given, withdrawn, withdrawnAt, call, refused>>

Next ==
    \/ \E c \in Calls : Login(c) \/ Give(c) \/ Take(c) \/ Use(c) \/ Fail(c)
    \/ Withdraw \/ Tick

Spec == Init /\ [][Next]_vars
-----------------------------------------------------------------------------
(* Tokens, times and requests are of their types, and the token that is    *)
(* kept was given no longer ago than it may be kept.                       *)
TypeOK ==
    /\ now \in 0..MaxTime /\ Tokens <= MaxTokens /\ given \in Seq(0..now)
    /\ token \in 0..Tokens /\ tokenExpiresAt \in 0..(MaxTime + Cache) /\ withdrawn \in 0..Tokens /\ withdrawnAt \in 0..now
    /\ call \in [Calls -> [pc : {"idle", "ask", "answer", "use"}, token : 0..Tokens, since : 0..now]]
    /\ refused \in -1..now
    /\ token # 0 => tokenExpiresAt <= given[token] + Timeout + Cache

(* While QPay withdraws nothing, no request is sent with a token that has  *)
(* run out: not by one that waited, nor by one whose login was overtaken.  *)
SentTokensAreTaken == withdrawn = 0 => refused = -1

(* After a withdrawal nothing clears the token, but it is not tried longer *)
(* than it is kept: from then on the requests go through again.            *)
RefusalsEnd == refused # -1 => refused <= withdrawnAt + Timeout + Cache
=============================================================================
