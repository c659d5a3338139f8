-------------------------------- MODULE Chat --------------------------------
(***************************************************************************)
(* The support chat of the backend: the sockets of chat.gateway.ts, whose  *)
(* customer is looked up once, when they connect; the messages they send,  *)
(* stored first and put on their thread after; and the administrators who  *)
(* answer, read, close and ban by chat.service.ts.                         *)
(***************************************************************************)
EXTENDS Naturals, FiniteSets

CONSTANTS
    Users, Sockets, Slots,
    MaxMessages,  \* bound: messages stored
    MaxTurns,     \* bound: what the administrators and the wallet do
    Nil

(* What the constants have to be.                                          *)
ChatAssumption ==
    /\ IsFiniteSet(Slots) /\ MaxMessages \in Nat /\ MaxTurns \in Nat
    /\ Nil \notin Users \cup [u : Users, from : {"USER", "ADMIN"}]

VARIABLES
    banned,       \* isChatBanned
    gold,         \* the customers who own gold
    thread,       \* thread[u]: the ChatThread row: status, last message, unread
    message,      \* message[i]: the i-th message stored: whose, from whom, or Nil
    stored,       \* how many were stored
    socket,       \* socket[k]: the link, the handler of its connection, its customer
    clients,      \* connectedClients: the sockets that may send
    call,         \* call[c]: a message under way
    turns,
    unbanned,     \* history: sockets looked up while their customer was not banned
    early,        \* history: sockets that were gone before they were looked up
    crossed,      \* history: customers whose messages overlapped, failed halfway or were deleted
    emitted       \* history: the messages sent to every socket

vars == <<banned, gold, thread, message, stored, socket, clients, call, turns, unbanned, early, crossed, emitted>>
rows == <<banned, gold, thread, message, stored>>
links == <<socket, clients>>
history == <<unbanned, early, crossed, emitted>>

NoThread == [status |-> "NONE", last |-> 0, unread |-> 0]
NoCall == [pc |-> "idle", u |-> Nil, from |-> "USER", id |-> 0]

Init ==
    /\ banned = {} /\ gold \in SUBSET Users
    /\ thread = [u \in Users |-> NoThread] /\ message = <<>> /\ stored = 0
    /\ socket = [k \in Sockets |-> [link |-> "new", pc |-> "idle", u |-> Nil]] /\ clients = {}
    /\ call = [c \in Slots |-> NoCall] /\ turns = 0
    /\ unbanned = {} /\ early = {} /\ crossed = {} /\ emitted = {}
-----------------------------------------------------------------------------
(* handleConnection: the token is verified, the customer is looked up,     *)
(* and only then the socket is registered.                                 *)
Connect(k, u) ==
    /\ socket[k].link = "new"
    /\ socket' = [socket EXCEPT ![k] = [link |-> "up", pc |-> "find", u |-> u]]
    /\ UNCHANGED <<clients, call, turns>> /\ UNCHANGED rows /\ UNCHANGED history

Admitted(u) == u \notin banned /\ u \in gold

(* The customer of the moment decides; the handler goes on after it.       *)
LookUp(k) ==
    /\ socket[k].pc = "find"
    /\ IF Admitted(socket[k].u)
       THEN socket' = [socket EXCEPT ![k].pc = "set"]
       ELSE socket' = [socket EXCEPT ![k] = [link |-> "down", pc |-> "idle", u |-> @.u]]
    /\ unbanned' = IF socket[k].u \in banned THEN unbanned ELSE unbanned \cup {k}
    /\ UNCHANGED <<clients, call, turns, early, crossed, emitted>> /\ UNCHANGED rows

Register(k) ==
    /\ socket[k].pc = "set"
    /\ socket' = [socket EXCEPT ![k].pc = "idle"] /\ clients' = clients \cup {k}
    /\ early' = IF socket[k].link = "down" THEN early \cup {k} ELSE early
    /\ UNCHANGED <<call, turns, unbanned, crossed, emitted>> /\ UNCHANGED rows

(* MUTANT of Forgotten: the entry stays.                                   *)
ForgottenNot(k) == clients

(* handleDisconnect, whether or not the socket is registered by now.       *)
Forgotten(k) == clients \ {k}

Disconnect(k) ==
    /\ socket[k].link = "up" /\ socket' = [socket EXCEPT ![k].link = "down"]
    /\ clients' = Forgotten(k)
    /\ UNCHANGED <<call, turns>> /\ UNCHANGED rows /\ UNCHANGED history
-----------------------------------------------------------------------------
Busy(u) == \E c \in Slots : call[c].pc # "idle" /\ call[c].u = u
Starts(c, u, from) ==
    /\ call[c].pc = "idle" /\ call' = [call EXCEPT ![c] = [pc |-> "create", u |-> u, from |-> from, id |-> 0]]
    /\ crossed' = IF Busy(u) THEN crossed \cup {u} ELSE crossed

(* sendMessage of a registered socket; the ban is not looked at again.     *)
Send(c, k) ==
    /\ socket[k].link = "up" /\ k \in clients /\ Starts(c, socket[k].u, "USER")
    /\ UNCHANGED <<turns, unbanned, early, emitted>> /\ UNCHANGED rows /\ UNCHANGED links

(* sendAdminMessage: only whether the customer exists.                     *)
AdminSend(c, u) ==
    /\ turns < MaxTurns /\ turns' = turns + 1 /\ Starts(c, u, "ADMIN")
    /\ UNCHANGED <<unbanned, early, emitted>> /\ UNCHANGED rows /\ UNCHANGED links

(* MUTANT of Create: the next number is given before the message is stored. *)
CreateEarly(c) ==
    /\ call[c].pc = "create" /\ stored < MaxMessages /\ stored' = stored
    /\ call' = [call EXCEPT ![c].pc = "touch", ![c].id = stored + 1]
    /\ UNCHANGED <<banned, gold, thread, message, turns>> /\ UNCHANGED links /\ UNCHANGED history

Create(c) ==
    /\ call[c].pc = "create" /\ stored < MaxMessages /\ stored' = stored + 1
    /\ message' = [i \in 1..stored' |-> IF i <= stored THEN message[i] ELSE [u |-> call[c].u, from |-> call[c].from]]
    /\ call' = [call EXCEPT ![c] = [pc |-> "touch", u |-> @.u, from |-> @.from, id |-> stored']]
    /\ UNCHANGED <<banned, gold, thread, turns>> /\ UNCHANGED links /\ UNCHANGED history

(* MUTANT of Touched: an answer leaves the number of unread messages.      *)
TouchedAnswer(t, from, id) == [status |-> "OPEN", last |-> id, unread |-> t.unread + 1]

(* The upsert of touchThreadOnUserMessage or sendAdminMessage.             *)
Touched(t, from, id) ==
    [status |-> "OPEN", last |-> id, unread |-> IF from = "ADMIN" THEN 0 ELSE t.unread + 1]

Touch(c) ==
    /\ call[c].pc = "touch"
    /\ thread' = [thread EXCEPT ![call[c].u] = Touched(@, call[c].from, call[c].id)]
    /\ call' = [call EXCEPT ![c] = IF @.from = "ADMIN" THEN NoCall
                                 ELSE [pc |-> "emit", u |-> @.u, from |-> @.from, id |-> @.id]]
    /\ UNCHANGED <<banned, gold, message, stored, turns>> /\ UNCHANGED links /\ UNCHANGED history

(* server.emit("newMessage"): of customers' messages, never of an answer.  *)
Emit(c) ==
    /\ call[c].pc = "emit" /\ call' = [call EXCEPT ![c] = NoCall]
    /\ emitted' = emitted \cup {call[c].id}
    /\ UNCHANGED <<turns, unbanned, early, crossed>> /\ UNCHANGED rows /\ UNCHANGED links

(* The database refuses a step, or the backend stops.                      *)
Fail(c) ==
    /\ call[c].pc \in {"create", "touch"} /\ call' = [call EXCEPT ![c] = NoCall]
    /\ crossed' = IF call[c].pc = "touch" THEN crossed \cup {call[c].u} ELSE crossed
    /\ UNCHANGED <<turns, unbanned, early, emitted>> /\ UNCHANGED rows /\ UNCHANGED links
-----------------------------------------------------------------------------
Turn == turns < MaxTurns /\ turns' = turns + 1 /\ UNCHANGED <<stored, call>> /\ UNCHANGED links

(* markThreadRead: of a thread that there is.                              *)
MarkRead(u) ==
    /\ thread[u].status # "NONE" /\ Turn
    /\ thread' = [thread EXCEPT ![u].unread = 0]
    /\ UNCHANGED <<banned, gold, message>> /\ UNCHANGED history

(* setThreadStatus makes the thread when there is none.                    *)
SetStatus(u, status) ==
    /\ Turn /\ thread' = [thread EXCEPT ![u].status = status]
    /\ UNCHANGED <<banned, gold, message>> /\ UNCHANGED history

SetBan(u, ban) ==
    /\ Turn /\ banned' = IF ban THEN banned \cup {u} ELSE banned \ {u}
    /\ UNCHANGED <<gold, thread, message>> /\ UNCHANGED history

(* DELETE admin/chat/messages/:id leaves the thread as it is.              *)
DeleteMessage(i) ==
    /\ Turn /\ message[i] # Nil /\ message' = [message EXCEPT ![i] = Nil]
    /\ crossed' = crossed \cup {message[i].u}
    /\ UNCHANGED <<banned, gold, thread, unbanned, early, emitted>>

(* A purchase is completed or the last gold is sold.                       *)
GoldChanges(u) ==
    /\ Turn /\ gold' = IF u \in gold THEN gold \ {u} ELSE gold \cup {u}
    /\ UNCHANGED <<banned, thread, message>> /\ UNCHANGED history

Next ==
    \/ \E k \in Sockets : LookUp(k) \/ Register(k) \/ Disconnect(k) \/ \E u \in Users : Connect(k, u)
    \/ \E c \in Slots : \/ Create(c) \/ Touch(c) \/ Emit(c) \/ Fail(c)
                        \/ \E k \in Sockets : Send(c, k)
                        \/ \E u \in Users : AdminSend(c, u)
    \/ \E u \in Users : \/ MarkRead(u) \/ GoldChanges(u)
                        \/ \E s \in {"OPEN", "CLOSED"} : SetStatus(u, s)
                        \/ \E b \in BOOLEAN : SetBan(u, b)
    \/ \E i \in 1..stored : DeleteMessage(i)

Spec == Init /\ [][Next]_vars
-----------------------------------------------------------------------------
TypeOK ==
    /\ banned \subseteq Users /\ gold \subseteq Users /\ clients \subseteq Sockets
    /\ stored \in 0..MaxMessages /\ turns \in 0..MaxTurns
    /\ \A u \in Users : /\ thread[u].status \in {"NONE", "OPEN", "CLOSED"}
                        /\ thread[u].last \in 0..stored /\ thread[u].unread \in 0..stored
    /\ \A c \in Slots : call[c].pc \in {"idle", "create", "touch", "emit"} /\ call[c].id \in 0..stored

(***************************************************************************)
(* connectedClients keeps the sockets that are there, and none that its    *)
(* customer connected while banned.  A socket that is gone before it has   *)
(* been looked up is put in afterwards, and stays for good.                *)
(***************************************************************************)
ClientsAreThere == \A k \in clients : k \in unbanned /\ (socket[k].link = "up" \/ k \in early)

(***************************************************************************)
(* The message is stored and the thread is brought up to date in two       *)
(* steps.  When none is under way, the thread's last message is the last   *)
(* of its customer, its unread ones are not more than came since the last  *)
(* answer, and every message of a customer was sent to the sockets; unless *)
(* messages of that customer overlapped, failed halfway or were deleted.   *)
(***************************************************************************)
Of(u) == {i \in 1..stored : message[i] # Nil /\ message[i].u = u}
Answers(u) == {i \in Of(u) : message[i].from = "ADMIN"}
SinceAnswer(u) == {i \in Of(u) : \A a \in Answers(u) : a < i}

ThreadIsUpToDate ==
    \A u \in Users \ crossed : ~Busy(u) =>
        /\ IF Of(u) = {} THEN thread[u].last = 0 ELSE thread[u].last \in Of(u) /\ \A i \in Of(u) : i <= thread[u].last
        /\ thread[u].unread <= Cardinality(SinceAnswer(u))
        /\ Of(u) \ Answers(u) \subseteq emitted
=============================================================================
