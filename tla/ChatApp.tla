------------------------------- MODULE ChatApp -------------------------------
(***************************************************************************)
(* The chat of the app, useChat.ts and ChatScreen.tsx, at a socket of the  *)
(* gateway: what the app emits, how the gateway answers, and what of it    *)
(* the app listens for.                                                    *)
(***************************************************************************)
EXTENDS Naturals, Sequences, SequencesExt

CONSTANTS
    Texts,         \* lengths of what is typed
    MaxMessages,   \* bound: messages of others
    MaxSends,      \* bound: messages of this app
    MaxDrops       \* bound: how often the connection is lost

(* What the constants have to be.                                          *)
ChatAppAssumption == Texts \subseteq Nat /\ MaxMessages \in Nat /\ MaxSends \in Nat /\ MaxDrops \in Nat

VARIABLES
    link, drops,   \* isConnected; how often it was lost
    listeners,     \* how many handlers of newMessage the socket has
    asked,         \* getHistory is under way
    loading,       \* isLoading
    messages,      \* what the screen shows, newest first
    others,        \* how many messages others have sent
    sent, outbox,  \* this app's messages: how many; the text under way, or none
    came           \* history: the messages that came in, oldest first

vars == <<link, drops, listeners, asked, loading, messages, others, sent, outbox, came>>
screen == <<loading, messages, others, came>>

Nothing == [text |-> FALSE]

Init ==
    /\ link = FALSE /\ drops = 0 /\ listeners = 1 /\ asked = FALSE /\ loading = TRUE /\ messages = <<>>
    /\ others = 0 /\ sent = 0 /\ outbox = Nothing /\ came = <<>>

(* MUTANT of Listening: the handler is added on every connection.          *)
ListeningAgain == listeners + 1

(* The handlers are set in the effect of the socket, not on its connection. *)
Listening == listeners

(* "connect", the first time and after each loss; history is asked for.    *)
Connect ==
    /\ ~link /\ link' = TRUE /\ asked' = TRUE
    /\ listeners' = IF drops = 0 THEN listeners ELSE Listening
    /\ UNCHANGED <<drops, sent, outbox>> /\ UNCHANGED screen

Drop ==
    /\ link /\ drops < MaxDrops /\ drops' = drops + 1
    /\ link' = FALSE /\ asked' = FALSE /\ outbox' = Nothing
    /\ UNCHANGED <<listeners, sent>> /\ UNCHANGED screen

(* loadMoreMessages.                                                       *)
LoadMore ==
    /\ link /\ asked' = TRUE
    /\ UNCHANGED <<link, drops, listeners, sent, outbox>> /\ UNCHANGED screen

(* getHistory returns the rows: they go to the acknowledgement of the      *)
(* emit.  The app gives none and listens for an event "history".           *)
HistoryReturned ==
    /\ asked /\ asked' = FALSE
    /\ UNCHANGED <<link, drops, listeners, sent, outbox>> /\ UNCHANGED screen

(* server.emit("newMessage") of somebody's message.                        *)
NewMessage ==
    /\ others < MaxMessages /\ others' = others + 1
    /\ IF link THEN /\ messages' = [i \in 1..listeners |-> others'] \o messages
                    /\ came' = Append(came, others')
       ELSE UNCHANGED <<messages, came>>
    /\ UNCHANGED <<link, drops, listeners, asked, loading, sent, outbox>>

(* The composer emits the trimmed text, a string, and is emptied.          *)
Send(n) ==
    /\ link /\ n > 0 /\ outbox = Nothing /\ sent < MaxSends /\ sent' = sent + 1
    /\ outbox' = [text |-> TRUE, length |-> n]
    /\ UNCHANGED <<link, drops, listeners, asked>> /\ UNCHANGED screen

(* The gateway reads body.message, which a string does not have, finds it  *)
(* empty and refuses it.                                                   *)
SendHandled ==
    /\ outbox.text /\ outbox' = Nothing
    /\ UNCHANGED <<link, drops, listeners, asked, sent>> /\ UNCHANGED screen

Next ==
    \/ Connect \/ Drop \/ LoadMore \/ HistoryReturned \/ NewMessage \/ SendHandled
    \/ \E n \in Texts : Send(n)

Spec == Init /\ [][Next]_vars
-----------------------------------------------------------------------------
TypeOK ==
    /\ loading \in BOOLEAN /\ others \in 0..MaxMessages /\ Len(messages) <= others
    /\ outbox # Nothing => outbox.length \in Texts

(***************************************************************************)
(* However often the connection is lost and made again, the screen shows   *)
(* each message that came while it was there exactly once, newest first.   *)
(***************************************************************************)
ShownAsTheyCame == messages = Reverse(came)
=============================================================================
