------------------------------ MODULE ChatPanel ------------------------------
(***************************************************************************)
(* The panel's chat page: the list of threads it polls, per tab, with the  *)
(* messages to fall back on when there are none; the thread in the window; *)
(* the draft; and the requests that reading, answering and closing send.   *)
(***************************************************************************)
EXTENDS Naturals, FiniteSets

CONSTANTS
    Users, Slots,
    Tabs,         \* bound: the tabs used
    MaxTurns,     \* bound: what happens without this administrator
    MaxMoves,     \* bound: what this administrator does
    MaxFails,     \* bound: requests lost
    Nil

(* What the constants have to be.                                          *)
ChatPanelAssumption ==
    /\ MaxTurns \in Nat /\ MaxMoves \in Nat /\ MaxFails \in Nat
    /\ Tabs \subseteq {"all", "OPEN", "CLOSED", "unread"} /\ "all" \in Tabs

VARIABLES
    thread,       \* thread[u]: its row at the backend: status, unread
    chat,         \* chat[u]: its messages: how many, how many of the customer's at the end
    turns, moves, fails,
    tab, selected,
    list,         \* list[t]: the threads last got for tab t
    listQ,        \* the list under way: step, tab, answer
    shown,        \* shown[u]: how many messages of u were last got
    messagesQ,    \* the messages under way
    draft,        \* the customer the text in the composer was typed for
    put,          \* put[s]: a request under way
    read,         \* history: read[u]: the messages an own request marked as read
    missed        \* history: customers a request about whom was lost

vars == <<thread, chat, turns, moves, fails, tab, selected, list, listQ, shown, messagesQ, draft, put, read, missed>>
server == <<thread, chat>>
page == <<tab, selected, draft>>
queries == <<list, listQ, shown, messagesQ>>
bounds == <<turns, moves, fails>>

NoQuery == [pc |-> "idle", key |-> Nil, data |-> Nil]
NoPut == [pc |-> "idle", kind |-> "read", u |-> Nil, typed |-> Nil]

Init ==
    /\ thread = [u \in Users |-> [status |-> "NONE", unread |-> 0]] /\ chat = [u \in Users |-> [n |-> 0, tail |-> 0]]
    /\ turns = 0 /\ moves = 0 /\ fails = 0
    /\ tab = "all" /\ selected = Nil /\ draft = Nil
    /\ list = [t \in Tabs |-> Nil] /\ listQ = [pc |-> "threads", key |-> "all", data |-> Nil]
    /\ shown = [u \in Users |-> Nil] /\ messagesQ = NoQuery
    /\ put = [s \in Slots |-> NoPut] /\ read = [u \in Users |-> 0] /\ missed = {}
-----------------------------------------------------------------------------
(* The backend: a customer writes; another administrator reads or closes.  *)
Turn ==
    /\ turns < MaxTurns /\ turns' = turns + 1
    /\ UNCHANGED <<moves, fails, put, read, missed>> /\ UNCHANGED page /\ UNCHANGED queries

CustomerWrites(u) ==
    /\ thread' = [thread EXCEPT ![u] = [status |-> "OPEN", unread |-> @.unread + 1]]
    /\ chat' = [chat EXCEPT ![u] = [n |-> @.n + 1, tail |-> @.tail + 1]] /\ Turn

OtherReads(u) ==
    /\ thread[u].unread > 0 /\ thread' = [thread EXCEPT ![u].unread = 0] /\ UNCHANGED chat /\ Turn

OtherCloses(u) ==
    /\ thread[u].status = "OPEN" /\ thread' = [thread EXCEPT ![u].status = "CLOSED"] /\ UNCHANGED chat /\ Turn

(* filterThreadsClient, and listThreads' own filter.                       *)
Matches(row, t) ==
    /\ row.status # "NONE"
    /\ t \in {"OPEN", "CLOSED"} => row.status = t
    /\ t = "unread" => row.unread > 0

Filtered(all, t) == [u \in Users |-> IF Matches(all[u], t) THEN all[u] ELSE Nil]

(* buildThreadsFromLegacyMessages: all open; unread is what came after the *)
(* last answer.                                                            *)
Legacy == [u \in Users |-> [status |-> IF chat[u].n = 0 THEN "NONE" ELSE "OPEN", unread |-> chat[u].tail]]
-----------------------------------------------------------------------------
(* The thread in the window: the selected one, as long as the list has it. *)
WindowOf(sel, rows) == IF sel = Nil \/ rows = Nil THEN Nil ELSE IF rows[sel] = Nil THEN Nil ELSE sel
Window == WindowOf(selected, list[tab])

(* MUTANT of Draft: the text stays when the window changes.                *)
DraftStays(w) == draft

(* The effect on userId empties the composer.                              *)
Draft(w) == IF w = Window THEN draft ELSE Nil

(* Its other effect marks the thread that comes into the window as read,   *)
(* whoever brought it there, and its messages are got.                     *)
Brings(w) ==
    /\ draft' = Draft(w)
    /\ IF w \in {Nil, Window} THEN UNCHANGED <<put, messagesQ>>
       ELSE /\ \E s \in Slots :
                  /\ put[s].pc = "idle"
                  /\ put' = [put EXCEPT ![s] = [pc |-> "write", kind |-> "read", u |-> w, typed |-> Nil]]
            /\ messagesQ' = [pc |-> "ask", key |-> w, data |-> Nil]

Move == moves < MaxMoves /\ moves' = moves + 1 /\ UNCHANGED <<turns, fails, read, missed>> /\ UNCHANGED server

Select(u) ==
    /\ list[tab] # Nil /\ list[tab][u] # Nil /\ selected # u /\ Move
    /\ selected' = u /\ Brings(u)
    /\ UNCHANGED <<tab, list, listQ, shown>>

(* MUTANT of SetTab: the list under way goes on as the new tab's.          *)
SetTabKeeps(t) ==
    /\ t # tab /\ Move /\ tab' = t
    /\ Brings(WindowOf(selected, list[t]))
    /\ UNCHANGED <<selected, list, listQ, shown>>

(* Each tab is a query of its own; what it got before is shown meanwhile.  *)
SetTab(t) ==
    /\ t # tab /\ Move
    /\ tab' = t /\ listQ' = [pc |-> "threads", key |-> t, data |-> Nil]
    /\ Brings(WindowOf(selected, list[t]))
    /\ UNCHANGED <<selected, list, shown>>

Busy == \E s \in Slots : put[s].pc # "idle"
Writable == Window # Nil /\ ~Busy /\ list[tab][Window].status # "CLOSED"

Type ==
    /\ Writable /\ draft # Window /\ Move /\ draft' = Window
    /\ UNCHANGED <<tab, selected, put>> /\ UNCHANGED queries

(* Send; Close chat or open it again, by the status the row shows.         *)
Click(s, kind) ==
    /\ Window # Nil /\ ~Busy /\ Move
    /\ CASE kind = "send" -> Writable /\ draft # Nil
         [] kind = "close" -> list[tab][Window].status = "OPEN"
         [] kind = "open" -> list[tab][Window].status = "CLOSED"
    /\ put' = [put EXCEPT ![s] = [pc |-> "write", kind |-> kind, u |-> Window, typed |-> draft]]
    /\ UNCHANGED page /\ UNCHANGED queries
-----------------------------------------------------------------------------
Write(s) ==
    LET u == put[s].u IN
    /\ put[s].pc = "write" /\ put' = [put EXCEPT ![s].pc = "done"]
    /\ thread' = [thread EXCEPT ![u] =
                     CASE put[s].kind = "read" -> [@ EXCEPT !.unread = 0]
                       [] put[s].kind = "send" -> [status |-> "OPEN", unread |-> 0]
                       [] put[s].kind = "close" -> [@ EXCEPT !.status = "CLOSED"]
                       [] put[s].kind = "open" -> [@ EXCEPT !.status = "OPEN"]]
    /\ chat' = IF put[s].kind = "send" THEN [chat EXCEPT ![u] = [n |-> @.n + 1, tail |-> 0]] ELSE chat
    /\ read' = IF put[s].kind = "read" THEN [read EXCEPT ![u] = chat[u].n] ELSE read
    /\ UNCHANGED <<missed>> /\ UNCHANGED bounds /\ UNCHANGED page /\ UNCHANGED queries

(* MUTANT of Invalidated: only the list.                                   *)
InvalidatedList == messagesQ

(* invalidateChat: the messages of the window are asked for again.         *)
Invalidated == IF Window = Nil THEN messagesQ ELSE [pc |-> "ask", key |-> Window, data |-> Nil]

Done(s) ==
    /\ put[s].pc = "done" /\ put' = [put EXCEPT ![s] = NoPut]
    /\ draft' = IF put[s].kind = "send" THEN Nil ELSE draft
    /\ listQ' = [pc |-> "threads", key |-> tab, data |-> Nil] /\ messagesQ' = Invalidated
    /\ UNCHANGED <<tab, selected, list, shown, read, missed>> /\ UNCHANGED server /\ UNCHANGED bounds

Lost == fails < MaxFails /\ fails' = fails + 1 /\ UNCHANGED <<turns, moves, read>> /\ UNCHANGED server

PutFails(s) ==
    /\ put[s].pc # "idle" /\ Lost /\ put' = [put EXCEPT ![s] = NoPut] /\ missed' = missed \cup {put[s].u}
    /\ UNCHANGED page /\ UNCHANGED queries
-----------------------------------------------------------------------------
(* MUTANT of Poll: the list is asked for only once.                        *)
PollOnce == listQ.pc = "idle" /\ list[tab] = Nil

(* Every 15 seconds, unless one is under way.                              *)
Poll == listQ.pc = "idle"

AskList ==
    /\ Poll /\ listQ' = [pc |-> "threads", key |-> tab, data |-> Nil]
    /\ UNCHANGED <<list, shown, messagesQ, put, read, missed>> /\ UNCHANGED server /\ UNCHANGED bounds /\ UNCHANGED page

(* fetchChatThreads: no thread in the answer, or no answer, and it builds  *)
(* the threads from the messages, which it asks for then.                  *)
ReadThreads ==
    LET got == Filtered(thread, listQ.key) IN
    /\ listQ.pc = "threads"
    /\ listQ' = IF \E u \in Users : got[u] # Nil THEN [pc |-> "answer", key |-> listQ.key, data |-> got]
                ELSE [listQ EXCEPT !.pc = "legacy"]
    /\ UNCHANGED <<list, shown, messagesQ, put, read, missed>> /\ UNCHANGED server /\ UNCHANGED bounds /\ UNCHANGED page

ThreadsFail ==
    /\ listQ.pc = "threads" /\ Lost /\ listQ' = [listQ EXCEPT !.pc = "legacy"]
    /\ UNCHANGED <<list, shown, messagesQ, put, missed>> /\ UNCHANGED page

ReadLegacy ==
    /\ listQ.pc = "legacy" /\ listQ' = [pc |-> "answer", key |-> listQ.key, data |-> Filtered(Legacy, listQ.key)]
    /\ UNCHANGED <<list, shown, messagesQ, put, read, missed>> /\ UNCHANGED server /\ UNCHANGED bounds /\ UNCHANGED page

(* The list got may take the window's thread away, or bring it back.       *)
AnswerList ==
    /\ listQ.pc = "answer" /\ listQ' = NoQuery
    /\ list' = [list EXCEPT ![listQ.key] = listQ.data]
    /\ Brings(WindowOf(selected, listQ.data))
    /\ UNCHANGED <<tab, selected, shown, read, missed>> /\ UNCHANGED server /\ UNCHANGED bounds

AskMessages ==
    /\ Window # Nil /\ messagesQ.pc = "idle" /\ messagesQ' = [pc |-> "ask", key |-> Window, data |-> Nil]
    /\ UNCHANGED <<list, listQ, shown, put, read, missed>> /\ UNCHANGED server /\ UNCHANGED bounds /\ UNCHANGED page

ReadMessages ==
    /\ messagesQ.pc = "ask" /\ messagesQ' = [pc |-> "answer", key |-> messagesQ.key, data |-> chat[messagesQ.key].n]
    /\ UNCHANGED <<list, listQ, shown, put, read, missed>> /\ UNCHANGED server /\ UNCHANGED bounds /\ UNCHANGED page

AnswerMessages ==
    /\ messagesQ.pc = "answer" /\ messagesQ' = NoQuery
    /\ shown' = [shown EXCEPT ![messagesQ.key] = messagesQ.data]
    /\ UNCHANGED <<list, listQ, put, read, missed>> /\ UNCHANGED server /\ UNCHANGED bounds /\ UNCHANGED page

MessagesFail ==
    /\ messagesQ.pc = "ask" /\ Lost /\ messagesQ' = NoQuery /\ missed' = missed \cup {messagesQ.key}
    /\ UNCHANGED <<list, listQ, shown, put>> /\ UNCHANGED page

Next ==
    \/ \E u \in Users : CustomerWrites(u) \/ OtherReads(u) \/ OtherCloses(u) \/ Select(u)
    \/ \E t \in Tabs : SetTab(t)
    \/ \E s \in Slots : \/ Write(s) \/ Done(s) \/ PutFails(s)
                        \/ \E kind \in {"send", "close", "open"} : Click(s, kind)
    \/ Type \/ AskList \/ AskMessages \/ ThreadsFail \/ MessagesFail
    \/ ReadThreads \/ ReadLegacy \/ AnswerList \/ ReadMessages \/ AnswerMessages

Spec == Init /\ [][Next]_vars

(* The page polls, and a request that is not lost is answered.             *)
FairSpec == /\ Spec /\ WF_vars(AskList) /\ WF_vars(ReadThreads) /\ WF_vars(ReadLegacy) /\ WF_vars(AnswerList)
            /\ \A s \in Slots : WF_vars(Write(s)) /\ WF_vars(Done(s))
-----------------------------------------------------------------------------
TypeOK ==
    /\ tab \in Tabs /\ selected \in Users \cup {Nil} /\ draft \in Users \cup {Nil}
    /\ listQ.pc # "idle" => listQ.key = tab
    /\ \A u \in Users : /\ thread[u].unread \in 0..chat[u].n /\ chat[u].tail \in 0..chat[u].n
                        /\ shown[u] \in 0..chat[u].n \cup {Nil}

(***************************************************************************)
(* The list can take the window's thread away and bring it back, and the   *)
(* administrator goes from one to another: what is sent to a customer was  *)
(* typed for that customer.                                                *)
(***************************************************************************)
DraftGoesToItsThread == \A s \in Slots : (put[s].pc # "idle" /\ put[s].kind = "send") => put[s].u = put[s].typed

(***************************************************************************)
(* Messages are marked as read by a request of its own, at the same time   *)
(* as they are got.  What was marked is in the window once nothing is      *)
(* under way any more, unless a request about that customer was lost.      *)
(***************************************************************************)
ReadIsShown ==
    (Window \notin missed \cup {Nil} /\ ~Busy /\ messagesQ.pc = "idle" /\ shown[Window] # Nil) =>
        read[Window] <= shown[Window]

(***************************************************************************)
(* As long as the administrator stays on the tab of all threads, the list  *)
(* is in the end what the backend has, however requests were lost.         *)
(***************************************************************************)
PollingCatchesUp == <>[](tab = "all") => <>[](list["all"] = Filtered(thread, "all"))
=============================================================================
