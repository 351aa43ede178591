---------------------------- MODULE ManagedChat ----------------------------
(***************************************************************************)
(* Managed chat (managed_chat.py): a mailbox between devices.  A message is *)
(* kept until its recipient's receipt says delivered; it is pushed over the *)
(* recipient's registered WebSocket, drained when a socket connects, or     *)
(* fetched.                                                                 *)
(*                                                                          *)
(* Everything here runs on one event loop with blocking database calls, so  *)
(* a handler is interrupted only where it awaits: closing a replaced socket,*)
(* writing to a socket, and sending a response.  Each action is what runs   *)
(* between two such points.  Conversations are direct ones, the only kind   *)
(* the code creates: a message has one recipient and one receipt, and is    *)
(* purged in the transaction that marks it delivered.                       *)
(***************************************************************************)
EXTENDS Naturals, FiniteSets

CONSTANTS
  Members,       \* approved devices
  Messages,
  Sockets,       \* WebSocket connections, each used once
  NoSocket,
  MaxChatFaults  \* connections cut or replaced, responses lost, failed drains and acknowledgments,
                 \* restarts

ASSUME ChatAssumption == NoSocket \notin Sockets /\ MaxChatFaults \in Nat

VARIABLES
  conversations, \* chat_conversations: pairs of devices
  message,       \* chat_messages with their receipt
  got,           \* how often the recipient's client has received a message
  pushing,       \* send_message: the socket it is writing each message to
  socket,        \* WebSocket handlers and the state of their connections
  connection,    \* ConnectionManager._connections
  fetched,       \* get_messages: messages of a response on its way
  chatFaults

chatVars == <<conversations, message, got, pushing, socket, connection, fetched, chatFaults>>

\* "delivered" and "aged" messages are purged rows.
MessageRow == [st : {"unsent", "waiting", "delivered", "aged"},
               from : Members \cup {NoSocket}, to : Members \cup {NoSocket}]

\* link: "dead" is a connection that is down without the server knowing yet.
SocketRow == [pc : {"free", "accepted", "closing", "draining", "open", "ended"},
              dev : Members \cup {NoSocket}, link : {"up", "dead", "closed"},
              batch : SUBSET Messages, sent : SUBSET Messages]

ChatTypeOK ==
  /\ conversations \subseteq {{d, e} : d, e \in Members}
  /\ message \in [Messages -> MessageRow]
  /\ got \in [Messages -> Nat]
  /\ pushing \in [Messages -> Sockets \cup {NoSocket}]
  /\ socket \in [Sockets -> SocketRow]
  /\ connection \in [Members -> Sockets \cup {NoSocket}]
  /\ fetched \in [Members -> SUBSET Messages]
  /\ chatFaults \in 0..MaxChatFaults

ChatInit ==
  /\ conversations = {}
  /\ message = [m \in Messages |-> [st |-> "unsent", from |-> NoSocket, to |-> NoSocket]]
  /\ got = [m \in Messages |-> 0]
  /\ pushing = [m \in Messages |-> NoSocket]
  /\ socket = [s \in Sockets |-> [pc |-> "free", dev |-> NoSocket, link |-> "closed",
                                  batch |-> {}, sent |-> {}]]
  /\ connection = [d \in Members |-> NoSocket]
  /\ fetched = [d \in Members |-> {}]
  /\ chatFaults = 0

-----------------------------------------------------------------------------
Up(s) == s # NoSocket /\ socket[s].link = "up"

ChatFault == chatFaults < MaxChatFaults /\ chatFaults' = chatFaults + 1

\* disconnect: forgets the socket only if it is still the registered one.
Forgotten(d, s) == IF connection[d] = s THEN NoSocket ELSE connection[d]

\* What a write to socket s of device d may come to: the client has it, the
\* write raises and push forgets the socket, or, on a connection that is dead
\* without the server's knowledge, it is taken for sent.
WriteOutcomes(s) ==
  CASE s = NoSocket -> {"none"}
    [] Up(s) -> {"arrives"}
    [] s # NoSocket /\ socket[s].link = "dead" -> {"raises", "vanishes"}
    [] OTHER -> {"raises"}

AfterWrite(d, s, outcome) ==
  connection' = [connection EXCEPT ![d] = IF outcome = "raises" THEN Forgotten(d, s) ELSE @]

\* _notify_senders_delivered: writes to the senders' sockets, of which only a
\* failure leaves a trace.
NotifySenders(ms) ==
  \E raises \in SUBSET {d \in {message[m].from : m \in ms} :
                          connection[d] # NoSocket /\ "raises" \in WriteOutcomes(connection[d])} :
    /\ \A d \in {message[m].from : m \in ms} \ raises :
         WriteOutcomes(connection[d]) # {"raises"}
    /\ connection' = [d \in Members |-> IF d \in raises THEN NoSocket ELSE connection[d]]

\* _fetch_and_ack_pending: everything that waits for d is marked delivered
\* and purged.
Pending(d) == {m \in Messages : message[m].st = "waiting" /\ message[m].to = d}

Acknowledged(ms) ==
  message' = [m \in Messages |-> IF m \in ms /\ message[m].st = "waiting"
                                 THEN [message[m] EXCEPT !.st = "delivered"] ELSE message[m]]

-----------------------------------------------------------------------------
\* start_conversation: the unique index keeps one conversation per pair.
StartConversation(d, e) ==
  /\ d # e
  /\ conversations' = conversations \cup {{d, e}}
  /\ UNCHANGED <<message, got, pushing, socket, connection, fetched, chatFaults>>

\* A message for a device with a socket counts as delivered before it is written.
SendTakenForDelivered(m, d, e) ==
  /\ d # e /\ {d, e} \in conversations
  /\ message[m].st = "unsent"
  /\ message' = [message EXCEPT ![m] =
       [st |-> IF connection[e] = NoSocket THEN "waiting" ELSE "delivered", from |-> d, to |-> e]]
  /\ pushing' = [pushing EXCEPT ![m] = connection[e]]
  /\ UNCHANGED <<conversations, got, socket, connection, fetched, chatFaults>>

\* send_message up to the write: the message and its receipt are committed,
\* and the recipient's socket, if there is one, is looked up at once.
SendMessage(m, d, e) ==
  /\ d # e /\ {d, e} \in conversations
  /\ message[m].st = "unsent"
  /\ message' = [message EXCEPT ![m] = [st |-> "waiting", from |-> d, to |-> e]]
  /\ pushing' = [pushing EXCEPT ![m] = connection[e]]
  /\ UNCHANGED <<conversations, got, socket, connection, fetched, chatFaults>>

\* The write ends.  A successful one is acknowledged in a transaction of its
\* own; if that fails, the request ends in an error and the message waits on.
PushEnds(m) ==
  /\ pushing[m] # NoSocket
  /\ \E outcome \in WriteOutcomes(pushing[m]) :
       /\ got' = [got EXCEPT ![m] = IF outcome = "arrives" THEN @ + 1 ELSE @]
       /\ AfterWrite(message[m].to, pushing[m], outcome)
       /\ \/ Acknowledged(IF outcome = "raises" THEN {} ELSE {m}) /\ UNCHANGED chatFaults
          \/ outcome # "raises" /\ ChatFault /\ UNCHANGED message
  /\ pushing' = [pushing EXCEPT ![m] = NoSocket]
  /\ UNCHANGED <<conversations, socket, fetched>>

-----------------------------------------------------------------------------
\* chat_websocket: the credential is accepted, then the handshake.
AcceptSocket(s, d) ==
  /\ socket[s].pc = "free"
  /\ socket' = [socket EXCEPT ![s].pc = "accepted", ![s].dev = d, ![s].link = "up"]
  /\ UNCHANGED <<conversations, message, got, pushing, connection, fetched, chatFaults>>

\* The mailbox is drained first and the socket registered after an await.
DrainBeforeRegister(s) ==
  LET d == socket[s].dev
  IN  /\ \/ /\ socket[s].pc = "accepted"
            /\ Acknowledged(Pending(d))
            /\ socket' = [socket EXCEPT ![s].pc = "closing", ![s].batch = Pending(d)]
            /\ UNCHANGED connection
         \/ /\ socket[s].pc = "closing"
            /\ connection' = [connection EXCEPT ![d] = s]
            /\ socket' = [socket EXCEPT ![s].pc = "draining"]
            /\ UNCHANGED message
      /\ UNCHANGED <<conversations, got, pushing, fetched>>

\* The socket is registered and, before anything else runs, the mailbox drained.
RegisterAndDrain(s) ==
  LET d == socket[s].dev
  IN  /\ connection' = [connection EXCEPT ![d] = s]
      /\ Acknowledged(Pending(d))
      /\ socket' = [socket EXCEPT ![s].pc = "draining", ![s].batch = Pending(d)]
      /\ UNCHANGED <<conversations, got, pushing, fetched>>

\* ConnectionManager.connect: without an earlier socket it registers at once.
ConnectFirst(s) ==
  /\ socket[s].pc = "accepted"
  /\ connection[socket[s].dev] = NoSocket
  /\ RegisterAndDrain(s)
  /\ UNCHANGED chatFaults

\* With an earlier socket, it first closes that one, and waits for it.
CloseReplaced(s) ==
  /\ socket[s].pc = "accepted"
  /\ LET old == connection[socket[s].dev]
     IN  /\ old # NoSocket
         /\ socket' = [socket EXCEPT ![s].pc = "closing", ![old].link = "closed"]
         /\ IF Up(old) THEN ChatFault ELSE UNCHANGED chatFaults
  /\ UNCHANGED <<conversations, message, got, pushing, connection, fetched>>

ConnectReplacing(s) ==
  /\ socket[s].pc = "closing"
  /\ RegisterAndDrain(s)
  /\ UNCHANGED chatFaults

\* The drain raises: the handler ends before the part that would disconnect.
DrainFails(s) ==
  /\ \/ socket[s].pc = "accepted" /\ connection[socket[s].dev] = NoSocket
     \/ socket[s].pc = "closing"
  /\ ChatFault
  /\ connection' = [connection EXCEPT ![socket[s].dev] = s]
  /\ socket' = [socket EXCEPT ![s].pc = "ended", ![s].link = "closed"]
  /\ UNCHANGED <<conversations, message, got, pushing, fetched>>

\* The drained messages are written to whatever socket the device has now;
\* they are acknowledged already, and a failed write is not looked at.
PushDrained(s, m) ==
  /\ socket[s].pc = "draining" /\ m \in socket[s].batch
  /\ LET d == socket[s].dev
     IN  \E outcome \in WriteOutcomes(connection[d]) :
           /\ got' = [got EXCEPT ![m] = IF outcome = "arrives" THEN @ + 1 ELSE @]
           /\ AfterWrite(d, connection[d], outcome)
  /\ socket' = [socket EXCEPT ![s].batch = @ \ {m}, ![s].sent = @ \cup {m}]
  /\ UNCHANGED <<conversations, message, pushing, fetched, chatFaults>>

\* The senders are told, and the handler starts to listen.
DrainEnds(s) ==
  /\ socket[s].pc = "draining" /\ socket[s].batch = {}
  /\ NotifySenders(socket[s].sent)
  /\ socket' = [socket EXCEPT ![s].pc = "open", ![s].sent = {}]
  /\ UNCHANGED <<conversations, message, got, pushing, fetched, chatFaults>>

\* The client closes its connection or the network loses it.
LinkLost(s) ==
  /\ Up(s) /\ socket[s].pc # "free"
  /\ ChatFault
  /\ \E how \in {"dead", "closed"} : socket' = [socket EXCEPT ![s].link = how]
  /\ UNCHANGED <<conversations, message, got, pushing, connection, fetched>>

\* receive_text raises, and the handler disconnects.
HandlerEnds(s) ==
  /\ socket[s].pc = "open" /\ ~Up(s)
  /\ connection' = [connection EXCEPT ![socket[s].dev] = Forgotten(socket[s].dev, s)]
  /\ socket' = [socket EXCEPT ![s].pc = "ended", ![s].link = "closed"]
  /\ UNCHANGED <<conversations, message, got, pushing, fetched, chatFaults>>

-----------------------------------------------------------------------------
\* get_messages: drains one conversation; the response is still to be sent.
GetMessages(d, e) ==
  /\ fetched[d] = {}
  /\ LET drained == {m \in Pending(d) : message[m].from = e}
     IN  /\ drained # {}
         /\ fetched' = [fetched EXCEPT ![d] = drained]
         /\ Acknowledged(drained)
  /\ UNCHANGED <<conversations, got, pushing, socket, connection, chatFaults>>

\* The senders are told and the response arrives, or is lost on its way.
ResponseEnds(d) ==
  /\ fetched[d] # {}
  /\ NotifySenders(fetched[d])
  /\ \/ /\ got' = [m \in Messages |-> IF m \in fetched[d] THEN got[m] + 1 ELSE got[m]]
        /\ UNCHANGED chatFaults
     \/ ChatFault /\ UNCHANGED got
  /\ fetched' = [fetched EXCEPT ![d] = {}]
  /\ UNCHANGED <<conversations, message, pushing, socket>>

\* _sweep_stale_messages: 30 days after it was sent, a message is deleted.
AgeOut(m) ==
  /\ message[m].st = "waiting"
  /\ message' = [message EXCEPT ![m].st = "aged"]
  /\ UNCHANGED <<conversations, got, pushing, socket, connection, fetched, chatFaults>>

\* The API restarts: handlers, sockets and the registry are lost.
ChatRestart ==
  /\ ChatFault
  /\ pushing' = [m \in Messages |-> NoSocket]
  /\ socket' = [s \in Sockets |->
       IF socket[s].pc = "free" THEN socket[s]
       ELSE [socket[s] EXCEPT !.pc = "ended", !.link = "closed", !.batch = {}, !.sent = {}]]
  /\ connection' = [d \in Members |-> NoSocket]
  /\ fetched' = [d \in Members |-> {}]
  /\ UNCHANGED <<conversations, message, got>>

-----------------------------------------------------------------------------
HandlerGoesOn(s) ==
  \/ ConnectFirst(s) \/ CloseReplaced(s) \/ ConnectReplacing(s)
  \/ \E m \in Messages : PushDrained(s, m)
  \/ DrainEnds(s) \/ HandlerEnds(s)

ChatNext ==
  \/ \E d, e \in Members : StartConversation(d, e)
  \/ \E m \in Messages : AgeOut(m) \/ PushEnds(m) \/ \E d, e \in Members : SendMessage(m, d, e)
  \/ \E s \in Sockets : HandlerGoesOn(s) \/ DrainFails(s) \/ LinkLost(s)
                        \/ \E d \in Members : AcceptSocket(s, d)
  \/ \E d \in Members : ResponseEnds(d) \/ \E e \in Members : GetMessages(d, e)
  \/ ChatRestart

ChatSpec == ChatInit /\ [][ChatNext]_chatVars

-----------------------------------------------------------------------------
RecipientConnected(m) == message[m].st # "unsent" /\ Up(connection[message[m].to])

\* No gap between connecting and draining: a message that its recipient has
\* never received waits for a device whose registered connection is up only
\* while send_message is still writing it.  A message sent around a
\* (re)connection is either found by the drain or finds the socket, whatever
\* connection is lost and whichever transaction fails; what still waits after a
\* failed acknowledgment is a message that has arrived.
NoGap ==
  \A m \in Messages :
    message[m].st = "waiting" /\ RecipientConnected(m) => pushing[m] # NoSocket \/ got[m] > 0

\* As long as no connection is cut or replaced and nothing fails, a message
\* that is marked delivered has reached its recipient or is being written to it.
ReliableDelivery ==
  \A m \in Messages :
    chatFaults = 0 /\ message[m].st = "delivered"
      => \/ got[m] > 0
         \/ \E d \in Members : m \in fetched[d]
         \/ \E s \in Sockets : m \in socket[s].batch

=============================================================================
