------------------------- MODULE ManagedChatProofs -------------------------
(***************************************************************************)
(* What holds of ManagedChat for any number of devices, messages, sockets   *)
(* and faults.                                                              *)
(*                                                                          *)
(* NoGap is not inductive: a write to a socket that was replaced may fail   *)
(* while the new socket is up.  PushesToRegistered says why no message is   *)
(* then left behind: a message that waits for a connected device has        *)
(* arrived, or is being written to the very socket that is registered,      *)
(* because registering another one drains the mailbox.  ReliableDelivery    *)
(* rests on FaultFree: until the first fault a handler that drains owns the *)
(* registered socket of its device, and that socket is up.                  *)
(***************************************************************************)
EXTENDS ManagedChat, TLAPS

\* Senders, recipients and the devices of sockets are known, and what is
\* registered or written to is a socket in use.
InUse ==
  /\ \A m \in Messages : message[m].st # "unsent" => message[m].from \in Members /\ message[m].to \in Members
  /\ \A s \in Sockets : socket[s].pc # "free" => socket[s].dev \in Members
  /\ \A d \in Members : connection[d] # NoSocket => socket[connection[d]].pc # "free"
  /\ \A m \in Messages : pushing[m] # NoSocket
                           => message[m].st # "unsent" /\ socket[pushing[m]].pc # "free"

\* A message that waits for a connected device has arrived (and could not be
\* acknowledged), or is being written to the socket that is registered.
PushesToRegistered ==
  \A m \in Messages :
    message[m].st = "waiting" /\ Up(connection[message[m].to])
      => pushing[m] = connection[message[m].to] \/ got[m] > 0

\* Until the first fault: no socket was cut or replaced, and a handler past its
\* registration owns the registered socket of its device.
FaultFree ==
  chatFaults = 0 =>
    \A s \in Sockets : socket[s].pc # "free"
      => /\ socket[s].link = "up"
         /\ socket[s].pc \in {"accepted", "draining", "open"}
         /\ socket[s].pc \in {"draining", "open"} => connection[socket[s].dev] = s

\* There is no batch before the drain.
NoBatchYet ==
  \A s \in Sockets : socket[s].pc \in {"free", "accepted", "closing"} => socket[s].batch = {}

ChatInv ==
  ChatTypeOK /\ InUse /\ PushesToRegistered /\ FaultFree /\ NoBatchYet /\ ReliableDelivery

-----------------------------------------------------------------------------
(* Writes, acknowledgements and the registry                                 *)

LEMMA FaultCounted ==
  ASSUME ChatTypeOK, ChatFault
  PROVE  chatFaults' \in 0..MaxChatFaults /\ chatFaults' # 0
BY ChatAssumption DEF ChatAssumption, ChatTypeOK, ChatFault

LEMMA Outcomes ==
  ASSUME ChatTypeOK, NEW s \in Sockets, NEW o \in WriteOutcomes(s)
  PROVE  /\ o = "arrives" <=> socket[s].link = "up"
         /\ o = "vanishes" => socket[s].link = "dead"
         /\ o \in {"arrives", "raises", "vanishes"}
<1>1. s # NoSocket
  BY ChatAssumption DEF ChatAssumption
<1>2. CASE socket[s].link = "up"
  BY <1>1, <1>2 DEF WriteOutcomes, Up
<1>3. CASE socket[s].link = "dead"
  BY <1>1, <1>3 DEF WriteOutcomes, Up
<1>4. CASE socket[s].link \notin {"up", "dead"}
  BY <1>1, <1>4 DEF WriteOutcomes, Up
<1> QED BY <1>2, <1>3, <1>4

LEMMA Acked ==
  ASSUME ChatTypeOK, NEW ms, Acknowledged(ms)
  PROVE  /\ message' \in [Messages -> MessageRow]
         /\ \A m \in Messages :
              /\ message'[m].from = message[m].from /\ message'[m].to = message[m].to
              /\ m \in ms /\ message[m].st = "waiting" => message'[m].st = "delivered"
              /\ ~(m \in ms /\ message[m].st = "waiting") => message'[m] = message[m]
<1>1. ASSUME NEW m \in Messages
      PROVE  /\ message'[m] \in MessageRow
             /\ message'[m].from = message[m].from /\ message'[m].to = message[m].to
             /\ m \in ms /\ message[m].st = "waiting" => message'[m].st = "delivered"
             /\ ~(m \in ms /\ message[m].st = "waiting") => message'[m] = message[m]
  BY DEF Acknowledged, ChatTypeOK, MessageRow
<1> QED BY <1>1 DEF Acknowledged

\* The registry after a write: a socket is forgotten only if writing raised.
LEMMA AfterWriteShrinks ==
  ASSUME ChatTypeOK, NEW d \in Members, NEW s, NEW o, AfterWrite(d, s, o)
  PROVE  /\ connection' \in [Members -> Sockets \cup {NoSocket}]
         /\ \A e \in Members : connection'[e] \in {connection[e], NoSocket}
         /\ o = "raises" /\ connection[d] = s => connection'[d] = NoSocket
         /\ o # "raises" => connection' = connection
BY DEF AfterWrite, Forgotten, ChatTypeOK

\* Telling the senders forgets sockets, but none before the first fault.
LEMMA NotifyShrinks ==
  ASSUME ChatTypeOK, InUse, FaultFree, NEW ms, NotifySenders(ms)
  PROVE  /\ connection' \in [Members -> Sockets \cup {NoSocket}]
         /\ \A e \in Members : connection'[e] \in {connection[e], NoSocket}
         /\ chatFaults = 0 => connection' = connection
<1>1. PICK raises :
        /\ \A d \in raises : connection[d] # NoSocket /\ "raises" \in WriteOutcomes(connection[d])
        /\ connection' = [d \in Members |-> IF d \in raises THEN NoSocket ELSE connection[d]]
  BY DEF NotifySenders
<1>2. /\ connection' \in [Members -> Sockets \cup {NoSocket}]
      /\ \A e \in Members : connection'[e] \in {connection[e], NoSocket}
  BY <1>1 DEF ChatTypeOK
<1>3. ASSUME chatFaults = 0, NEW d \in Members, d \in raises PROVE FALSE
  <2>1. /\ connection[d] \in Sockets /\ "raises" \in WriteOutcomes(connection[d])
        /\ socket[connection[d]].pc # "free"
    BY <1>1, <1>3 DEF ChatTypeOK, InUse
  <2>2. socket[connection[d]].link = "up"
    BY <1>3, <2>1 DEF FaultFree
  <2> QED BY <2>1, <2>2, Outcomes
<1>4. chatFaults = 0 => connection' = connection
  BY <1>1, <1>2, <1>3 DEF ChatTypeOK
<1> QED BY <1>2, <1>4

\* A registry that only forgets, links that do not come up again and messages
\* that do not start to wait leave no gap.
LEMMA GapKept ==
  ASSUME ChatTypeOK, InUse, PushesToRegistered,
         \A d \in Members : connection'[d] \in {connection[d], NoSocket},
         \A s \in Sockets : socket[s].pc # "free" /\ socket'[s].link = "up" => socket[s].link = "up",
         \A m \in Messages : got[m] > 0 => got'[m] > 0,
         \A m \in Messages :
           message'[m].st = "waiting"
             => /\ message[m].st = "waiting" /\ message'[m].to = message[m].to
                /\ pushing'[m] = pushing[m] \/ ~Up(connection[message[m].to])
                     \/ connection'[message[m].to] = NoSocket \/ got'[m] > 0
  PROVE  PushesToRegistered'
<1> SUFFICES ASSUME NEW m \in Messages, message'[m].st = "waiting", Up(connection[message[m].to])'
             PROVE  pushing'[m] = connection'[message'[m].to] \/ got'[m] > 0
  BY DEF PushesToRegistered
<1> DEFINE d == message[m].to
<1>1. /\ message[m].st = "waiting" /\ message'[m].to = d /\ d \in Members
      /\ pushing'[m] = pushing[m] \/ ~Up(connection[d]) \/ connection'[d] = NoSocket \/ got'[m] > 0
  BY DEF InUse
<1>2. connection'[d] # NoSocket /\ socket'[connection'[d]].link = "up" /\ connection'[d] = connection[d]
  BY <1>1 DEF Up
<1>3. connection[d] \in Sockets /\ socket[connection[d]].pc # "free"
  BY <1>1, <1>2 DEF ChatTypeOK, InUse
<1>4. Up(connection[d])
  BY <1>2, <1>3 DEF Up
<1> QED BY <1>1, <1>2, <1>4 DEF PushesToRegistered

-----------------------------------------------------------------------------
(* Messages                                                                  *)

LEMMA SendStep ==
  ASSUME ChatInv, NEW m \in Messages, NEW d \in Members, NEW e \in Members, SendMessage(m, d, e)
  PROVE  ChatInv'
<1> DEFINE r == [st |-> "waiting", from |-> d, to |-> e]
<1>1. /\ message' = [message EXCEPT ![m] = r] /\ message[m].st = "unsent"
      /\ pushing' = [pushing EXCEPT ![m] = connection[e]]
      /\ UNCHANGED <<conversations, got, socket, connection, fetched, chatFaults>>
  BY DEF SendMessage
<1>2. r \in MessageRow /\ r.st = "waiting" /\ r.from = d /\ r.to = e
  BY DEF MessageRow
<1> HIDE DEF r
<1>3. /\ message' \in [Messages -> MessageRow] /\ message'[m] = r
      /\ \A n \in Messages : n # m => message'[n] = message[n]
      /\ pushing' \in [Messages -> Sockets \cup {NoSocket}] /\ pushing'[m] = connection[e]
      /\ \A n \in Messages : n # m => pushing'[n] = pushing[n]
  BY <1>1, <1>2 DEF ChatInv, ChatTypeOK
<1>4. ChatTypeOK'
  BY <1>1, <1>3 DEF ChatInv, ChatTypeOK
<1>5. InUse'
  BY <1>1, <1>2, <1>3 DEF ChatInv, InUse
<1>6. PushesToRegistered'
  BY <1>1, <1>2, <1>3 DEF ChatInv, PushesToRegistered, Up
<1>7. FaultFree' /\ NoBatchYet'
  BY <1>1 DEF ChatInv, FaultFree, NoBatchYet
<1>8. ReliableDelivery'
  BY <1>1, <1>2, <1>3 DEF ChatInv, ReliableDelivery
<1> QED BY <1>4, <1>5, <1>6, <1>7, <1>8 DEF ChatInv

\* A write that does not raise is acknowledged, unless that fails; before the
\* first fault it arrives.
LEMMA ChatPushStep ==
  ASSUME ChatInv, NEW m \in Messages, PushEnds(m)
  PROVE  ChatInv'
<1> DEFINE s == pushing[m]
           d == message[m].to
<1>1. /\ s # NoSocket /\ pushing' = [pushing EXCEPT ![m] = NoSocket]
      /\ UNCHANGED <<conversations, socket, fetched>>
  BY DEF PushEnds
<1>2. PICK o \in WriteOutcomes(s) :
        /\ got' = [got EXCEPT ![m] = IF o = "arrives" THEN @ + 1 ELSE @]
        /\ AfterWrite(d, s, o)
        /\ \/ Acknowledged(IF o = "raises" THEN {} ELSE {m}) /\ UNCHANGED chatFaults
           \/ o # "raises" /\ ChatFault /\ UNCHANGED message
  BY DEF PushEnds
<1>3. s \in Sockets /\ d \in Members /\ socket[s].pc # "free"
  BY <1>1 DEF ChatInv, ChatTypeOK, InUse
<1> HIDE DEF s, d
<1>4. /\ o = "arrives" <=> socket[s].link = "up"
      /\ o = "vanishes" => socket[s].link = "dead"
      /\ o \in {"arrives", "raises", "vanishes"}
  BY <1>2, <1>3, Outcomes DEF ChatInv
<1>5. /\ connection' \in [Members -> Sockets \cup {NoSocket}]
      /\ \A e \in Members : connection'[e] \in {connection[e], NoSocket}
      /\ o = "raises" /\ connection[d] = s => connection'[d] = NoSocket
      /\ o # "raises" => connection' = connection
  BY <1>2, <1>3, AfterWriteShrinks DEF ChatInv
<1>6. /\ message' \in [Messages -> MessageRow] /\ chatFaults' \in 0..MaxChatFaults
      /\ \A n \in Messages :
           /\ message'[n].from = message[n].from /\ message'[n].to = message[n].to
           /\ n # m \/ message[n].st # "waiting" => message'[n] = message[n]
           /\ message'[n].st = "waiting" => message[n].st = "waiting"
           /\ message'[n].st = "unsent" <=> message[n].st = "unsent"
      /\ chatFaults' = 0 => chatFaults = 0
  <2> DEFINE ms == IF o = "raises" THEN {} ELSE {m}
  <2>1. CASE Acknowledged(ms) /\ UNCHANGED chatFaults
    <3>1. \A n : n \in ms => n = m
      OBVIOUS
    <3> HIDE DEF ms
    <3>2. chatFaults \in 0..MaxChatFaults /\ UNCHANGED chatFaults
      BY <2>1 DEF ChatInv, ChatTypeOK
    <3>3. /\ message' \in [Messages -> MessageRow]
          /\ \A n \in Messages :
               /\ message'[n].from = message[n].from /\ message'[n].to = message[n].to
               /\ n \in ms /\ message[n].st = "waiting" => message'[n].st = "delivered"
               /\ ~(n \in ms /\ message[n].st = "waiting") => message'[n] = message[n]
      BY <2>1, Acked DEF ChatInv
    <3> QED BY <3>1, <3>2, <3>3
  <2>2. CASE ChatFault /\ UNCHANGED message
    BY <2>2, FaultCounted DEF ChatInv, ChatTypeOK
  <2> QED BY <1>2, <2>1, <2>2
<1>7. /\ got' \in [Messages -> Nat]
      /\ \A n \in Messages : got[n] > 0 => got'[n] > 0
      /\ o = "arrives" => got'[m] > 0
  BY <1>2 DEF ChatInv, ChatTypeOK
<1>8. /\ pushing' \in [Messages -> Sockets \cup {NoSocket}] /\ pushing'[m] = NoSocket
      /\ \A n \in Messages : n # m => pushing'[n] = pushing[n]
  BY <1>1 DEF ChatInv, ChatTypeOK
<1>9. ChatTypeOK'
  BY <1>1, <1>5, <1>6, <1>7, <1>8 DEF ChatInv, ChatTypeOK
<1>10. InUse'
  BY <1>1, <1>5, <1>6, <1>8 DEF ChatInv, InUse
<1>11. chatFaults = 0 => o = "arrives"
  BY <1>3, <1>4 DEF ChatInv, FaultFree
<1>12. PushesToRegistered'
  <2>1. ASSUME message[m].st = "waiting", Up(connection[d])
        PROVE  connection'[d] = NoSocket \/ got'[m] > 0
    <3>1. s = connection[d] \/ got'[m] > 0
      BY <1>7, <2>1 DEF s, d, ChatInv, PushesToRegistered
    <3>2. s = connection[d] => o = "arrives"
      BY <1>4, <2>1 DEF Up
    <3> QED BY <1>7, <3>1, <3>2
  <2>2. \A n \in Messages :
          message'[n].st = "waiting"
            => /\ message[n].st = "waiting" /\ message'[n].to = message[n].to
               /\ pushing'[n] = pushing[n] \/ ~Up(connection[message[n].to])
                    \/ connection'[message[n].to] = NoSocket \/ got'[n] > 0
    <3> SUFFICES ASSUME NEW n \in Messages, message'[n].st = "waiting"
                 PROVE  /\ message[n].st = "waiting" /\ message'[n].to = message[n].to
                        /\ pushing'[n] = pushing[n] \/ ~Up(connection[message[n].to])
                             \/ connection'[message[n].to] = NoSocket \/ got'[n] > 0
      OBVIOUS
    <3>1. message[n].st = "waiting" /\ message'[n].to = message[n].to
      BY <1>6
    <3>2. CASE n # m
      BY <1>8, <3>1, <3>2
    <3>3. CASE n = m
      BY <2>1, <3>1, <3>3 DEF d
    <3> QED BY <3>1, <3>2, <3>3
  <2> QED BY <1>1, <1>5, <1>7, <2>2, GapKept DEF ChatInv
<1>13. FaultFree' /\ NoBatchYet'
  BY <1>1, <1>5, <1>6, <1>11 DEF ChatInv, FaultFree, NoBatchYet
<1>14. ReliableDelivery'
  BY <1>1, <1>6, <1>7, <1>11 DEF ChatInv, ReliableDelivery
<1> QED BY <1>9, <1>10, <1>12, <1>13, <1>14 DEF ChatInv

LEMMA AgeStep ==
  ASSUME ChatInv, NEW m \in Messages, AgeOut(m)
  PROVE  ChatInv'
<1>1. /\ message[m].st = "waiting" /\ message' = [message EXCEPT ![m].st = "aged"]
      /\ UNCHANGED <<conversations, got, pushing, socket, connection, fetched, chatFaults>>
  BY DEF AgeOut
<1>2. /\ message' \in [Messages -> MessageRow] /\ message'[m].st = "aged"
      /\ \A n \in Messages : /\ n # m => message'[n] = message[n]
                             /\ message'[n].from = message[n].from /\ message'[n].to = message[n].to
  BY <1>1 DEF ChatInv, ChatTypeOK, MessageRow
<1>3. ChatTypeOK'
  BY <1>1, <1>2 DEF ChatInv, ChatTypeOK
<1>4. InUse'
  BY <1>1, <1>2 DEF ChatInv, InUse
<1>5. PushesToRegistered'
  BY <1>1, <1>2 DEF ChatInv, PushesToRegistered, Up
<1>6. FaultFree' /\ NoBatchYet'
  BY <1>1 DEF ChatInv, FaultFree, NoBatchYet
<1>7. ReliableDelivery'
  BY <1>1, <1>2 DEF ChatInv, ReliableDelivery
<1> QED BY <1>3, <1>4, <1>5, <1>6, <1>7 DEF ChatInv

LEMMA StartStep ==
  ASSUME ChatInv, NEW d \in Members, NEW e \in Members, StartConversation(d, e)
  PROVE  ChatInv'
<1>1. /\ conversations' = conversations \cup {{d, e}}
      /\ UNCHANGED <<message, got, pushing, socket, connection, fetched, chatFaults>>
  BY DEF StartConversation
<1>2. ChatTypeOK'
  BY <1>1 DEF ChatInv, ChatTypeOK
<1> QED
  BY <1>1, <1>2 DEF ChatInv, InUse, PushesToRegistered, FaultFree, NoBatchYet, ReliableDelivery, Up

-----------------------------------------------------------------------------
(* Sockets                                                                   *)

LEMMA AcceptStep ==
  ASSUME ChatInv, NEW s \in Sockets, NEW d \in Members, AcceptSocket(s, d)
  PROVE  ChatInv'
<1>1. /\ socket[s].pc = "free"
      /\ socket' = [socket EXCEPT ![s].pc = "accepted", ![s].dev = d, ![s].link = "up"]
      /\ UNCHANGED <<conversations, message, got, pushing, connection, fetched, chatFaults>>
  BY DEF AcceptSocket
<1>2. /\ socket' \in [Sockets -> SocketRow]
      /\ socket'[s].pc = "accepted" /\ socket'[s].dev = d /\ socket'[s].link = "up"
      /\ socket'[s].batch = socket[s].batch
      /\ \A t \in Sockets : t # s => socket'[t] = socket[t]
  <2>1. socket \in [Sockets -> SocketRow] /\ socket[s] \in SocketRow
    BY DEF ChatInv, ChatTypeOK
  <2>2. socket'[s] \in SocketRow
    BY <1>1, <2>1 DEF SocketRow
  <2>3. \A t \in Sockets : t # s => socket'[t] = socket[t]
    BY <1>1, <2>1
  <2>4. socket' \in [Sockets -> SocketRow]
    BY <1>1, <2>1, <2>2, <2>3
  <2>5. /\ socket'[s].pc = "accepted" /\ socket'[s].dev = d /\ socket'[s].link = "up"
        /\ socket'[s].batch = socket[s].batch
    BY <1>1, <2>1 DEF SocketRow
  <2> QED BY <2>3, <2>4, <2>5
<1>3. ChatTypeOK'
  BY <1>1, <1>2 DEF ChatInv, ChatTypeOK
<1>4. InUse'
  BY <1>1, <1>2 DEF ChatInv, ChatTypeOK, InUse
<1>5. PushesToRegistered'
  BY <1>1, <1>2, GapKept DEF ChatInv
<1>6. FaultFree' /\ NoBatchYet'
  BY <1>1, <1>2 DEF ChatInv, FaultFree, NoBatchYet
<1>7. ReliableDelivery'
  BY <1>1, <1>2 DEF ChatInv, ReliableDelivery
<1> QED BY <1>3, <1>4, <1>5, <1>6, <1>7 DEF ChatInv

\* Registering and draining: what waited for the device is now in the batch.
LEMMA ConnectStep ==
  ASSUME ChatInv, NEW s \in Sockets,
         (socket[s].pc = "accepted" /\ connection[socket[s].dev] = NoSocket) \/ socket[s].pc = "closing",
         RegisterAndDrain(s), UNCHANGED chatFaults
  PROVE  ChatInv'
<1> DEFINE d == socket[s].dev
           P == Pending(d)
<1>1. /\ connection' = [connection EXCEPT ![d] = s]
      /\ Acknowledged(P)
      /\ socket' = [socket EXCEPT ![s].pc = "draining", ![s].batch = P]
      /\ UNCHANGED <<conversations, got, pushing, fetched, chatFaults>>
  BY DEF RegisterAndDrain
<1>2. d \in Members /\ s # NoSocket
  BY ChatAssumption DEF ChatAssumption, ChatInv, InUse
<1>3. P \subseteq Messages /\ \A m \in Messages : m \in P <=> message[m].st = "waiting" /\ message[m].to = d
  BY DEF Pending
<1>4. (socket[s].pc = "accepted" /\ connection[d] = NoSocket) \/ socket[s].pc = "closing"
  OBVIOUS
<1>0. socket'[s].dev = d
  BY <1>1 DEF ChatInv, ChatTypeOK, SocketRow
<1> HIDE DEF d, P
<1>5. /\ socket' \in [Sockets -> SocketRow]
      /\ socket'[s].pc = "draining" /\ socket'[s].batch = P /\ socket'[s].link = socket[s].link
      /\ \A t \in Sockets : t # s => socket'[t] = socket[t]
  <2>1. socket \in [Sockets -> SocketRow] /\ socket[s] \in SocketRow
    BY DEF ChatInv, ChatTypeOK
  <2>2. socket'[s] \in SocketRow
    BY <1>1, <1>3, <2>1 DEF SocketRow
  <2>3. \A t \in Sockets : t # s => socket'[t] = socket[t]
    BY <1>1, <2>1
  <2>4. socket' \in [Sockets -> SocketRow]
    BY <1>1, <2>1, <2>2, <2>3
  <2>5. socket'[s].pc = "draining" /\ socket'[s].batch = P /\ socket'[s].link = socket[s].link
    BY <1>1, <2>1 DEF SocketRow
  <2> QED BY <2>3, <2>4, <2>5
<1>6. /\ message' \in [Messages -> MessageRow]
      /\ \A m \in Messages :
           /\ message'[m].from = message[m].from /\ message'[m].to = message[m].to
           /\ m \in P => message'[m].st = "delivered"
           /\ m \notin P => message'[m] = message[m]
  BY <1>1, <1>3, Acked DEF ChatInv
<1>7. /\ connection' \in [Members -> Sockets \cup {NoSocket}] /\ connection'[d] = s
      /\ \A e \in Members : e # d => connection'[e] = connection[e]
  BY <1>1, <1>2 DEF ChatInv, ChatTypeOK
<1>8. ChatTypeOK'
  BY <1>1, <1>5, <1>6, <1>7 DEF ChatInv, ChatTypeOK
<1>9. InUse'
  <2>1. \A m \in Messages : message'[m].st # "unsent" => message'[m].from \in Members /\ message'[m].to \in Members
    BY <1>3, <1>6 DEF ChatInv, InUse
  <2>2. \A t \in Sockets : socket'[t].pc # "free" => socket'[t].dev \in Members
    BY <1>0, <1>2, <1>5 DEF ChatInv, InUse
  <2>3. \A t \in Sockets : socket[t].pc # "free" => socket'[t].pc # "free"
    BY <1>5
  <2>4. \A e \in Members : connection'[e] # NoSocket => socket'[connection'[e]].pc # "free"
    BY <1>5, <1>7, <2>3 DEF ChatInv, ChatTypeOK, InUse
  <2>5. \A m \in Messages : pushing'[m] # NoSocket => message'[m].st # "unsent" /\ socket'[pushing'[m]].pc # "free"
    BY <1>1, <1>6, <2>3 DEF ChatInv, ChatTypeOK, InUse
  <2> QED BY <2>1, <2>2, <2>4, <2>5 DEF InUse
<1>10. PushesToRegistered'
  <2> SUFFICES ASSUME NEW m \in Messages, message'[m].st = "waiting", Up(connection[message[m].to])'
               PROVE  pushing'[m] = connection'[message'[m].to] \/ got'[m] > 0
    BY DEF PushesToRegistered
  <2>1. message'[m] = message[m] /\ m \notin P
    BY <1>6
  <2>2. message[m].st = "waiting" /\ message[m].to # d /\ message[m].to \in Members
    BY <1>3, <2>1 DEF ChatInv, InUse
  <2>3. connection'[message[m].to] = connection[message[m].to]
    BY <1>7, <2>2
  <2>4. Up(connection[message[m].to])
    BY <1>5, <2>1, <2>2, <2>3 DEF Up, ChatInv, ChatTypeOK
  <2> QED BY <1>1, <2>1, <2>2, <2>3, <2>4 DEF ChatInv, PushesToRegistered
<1>11. FaultFree'
  <2> SUFFICES ASSUME chatFaults = 0, NEW t \in Sockets, socket'[t].pc # "free"
               PROVE  /\ socket'[t].link = "up"
                      /\ socket'[t].pc \in {"accepted", "draining", "open"}
                      /\ socket'[t].pc \in {"draining", "open"} => connection'[socket'[t].dev] = t
    BY <1>1 DEF FaultFree
  <2>1. socket[s].pc = "accepted" /\ connection[d] = NoSocket /\ socket[s].link = "up"
    BY <1>4 DEF ChatInv, FaultFree
  <2>2. CASE t = s
    BY <1>0, <1>5, <1>7, <2>1, <2>2
  <2>3. CASE t # s
    <3>1. /\ socket'[t] = socket[t] /\ socket[t].dev \in Members
          /\ socket[t].link = "up" /\ socket[t].pc \in {"accepted", "draining", "open"}
          /\ socket[t].pc \in {"draining", "open"} => connection[socket[t].dev] = t
      BY <1>5, <2>3 DEF ChatInv, FaultFree, InUse
    <3>2. socket[t].pc \in {"draining", "open"} => socket[t].dev # d
      BY <2>1, <3>1, ChatAssumption DEF ChatAssumption
    <3> QED BY <1>7, <3>1, <3>2
  <2> QED BY <2>2, <2>3
<1>12. NoBatchYet'
  BY <1>5 DEF ChatInv, NoBatchYet
<1>13. ReliableDelivery'
  <2> SUFFICES ASSUME NEW m \in Messages, chatFaults = 0, message'[m].st = "delivered"
               PROVE  \/ got[m] > 0
                      \/ \E e \in Members : m \in fetched[e]
                      \/ \E t \in Sockets : m \in socket'[t].batch
    BY <1>1 DEF ReliableDelivery
  <2>1. CASE m \in P
    BY <1>5, <2>1
  <2>2. CASE m \notin P
    <3>1. \/ got[m] > 0
          \/ \E e \in Members : m \in fetched[e]
          \/ \E t \in Sockets : m \in socket[t].batch
      BY <1>6, <2>2 DEF ChatInv, ReliableDelivery
    <3>2. socket[s].batch = {}
      BY <1>4 DEF ChatInv, NoBatchYet
    <3> QED BY <1>5, <3>1, <3>2
  <2> QED BY <2>1, <2>2
<1> QED BY <1>8, <1>9, <1>10, <1>11, <1>12, <1>13 DEF ChatInv

\* Closing the earlier socket is a fault if that one was up.
LEMMA CloseStep ==
  ASSUME ChatInv, NEW s \in Sockets, CloseReplaced(s)
  PROVE  ChatInv'
<1> DEFINE old == connection[socket[s].dev]
<1>1. /\ socket[s].pc = "accepted" /\ old # NoSocket
      /\ socket' = [socket EXCEPT ![s].pc = "closing", ![old].link = "closed"]
      /\ IF Up(old) THEN ChatFault ELSE UNCHANGED chatFaults
      /\ UNCHANGED <<conversations, message, got, pushing, connection, fetched>>
  BY DEF CloseReplaced
<1>2. old \in Sockets /\ socket[old].pc # "free"
  BY <1>1 DEF ChatInv, ChatTypeOK, InUse
<1>3. chatFaults' \in 0..MaxChatFaults /\ chatFaults' # 0
  <2>1. CASE Up(old)
    BY <1>1, <2>1, FaultCounted DEF ChatInv
  <2>2. CASE ~Up(old)
    <3>1. chatFaults # 0
      BY <1>1, <1>2, <2>2 DEF ChatInv, FaultFree, Up
    <3> QED BY <1>1, <2>2, <3>1 DEF ChatInv, ChatTypeOK
  <2> QED BY <2>1, <2>2
<1> HIDE DEF old
<1>4. /\ socket' \in [Sockets -> SocketRow]
      /\ \A t \in Sockets :
           /\ socket'[t].batch = socket[t].batch /\ socket'[t].dev = socket[t].dev
           /\ socket'[t].link = "up" => socket[t].link = "up"
           /\ t # s => socket'[t].pc = socket[t].pc
      /\ socket'[s].pc = "closing"
  <2>1. socket \in [Sockets -> SocketRow]
    BY DEF ChatInv, ChatTypeOK
  <2>2. DOMAIN socket' = Sockets
    BY <1>1, <2>1
  <2>3. ASSUME NEW t \in Sockets
        PROVE  /\ socket'[t] \in SocketRow
               /\ socket'[t].batch = socket[t].batch /\ socket'[t].dev = socket[t].dev
               /\ socket'[t].link = "up" => socket[t].link = "up"
               /\ t # s => socket'[t].pc = socket[t].pc
               /\ t = s => socket'[t].pc = "closing"
    <3>1. socket[t] \in SocketRow
      BY <2>1
    <3>2. CASE t # s /\ t # old
      BY <1>1, <1>2, <2>1, <3>1, <3>2 DEF SocketRow
    <3>3. CASE t = s /\ t # old
      BY <1>1, <1>2, <2>1, <3>1, <3>3 DEF SocketRow
    <3>4. CASE t # s /\ t = old
      BY <1>1, <1>2, <2>1, <3>1, <3>4 DEF SocketRow
    <3>5. CASE t = s /\ t = old
      BY <1>1, <1>2, <2>1, <3>1, <3>5 DEF SocketRow
    <3> QED BY <3>2, <3>3, <3>4, <3>5
  <2>4. socket' \in [Sockets -> SocketRow]
    BY <1>1, <2>1, <2>2, <2>3
  <2> QED BY <2>3, <2>4
<1>5. ChatTypeOK'
  BY <1>1, <1>3, <1>4 DEF ChatInv, ChatTypeOK
<1>6. InUse'
  BY <1>1, <1>4 DEF ChatInv, ChatTypeOK, InUse
<1>7. PushesToRegistered'
  BY <1>1, <1>4, GapKept DEF ChatInv
<1>8. NoBatchYet'
  BY <1>1, <1>4 DEF ChatInv, NoBatchYet
<1>9. FaultFree' /\ ReliableDelivery'
  BY <1>3 DEF FaultFree, ReliableDelivery
<1> QED BY <1>5, <1>6, <1>7, <1>8, <1>9 DEF ChatInv

\* A handler that ends, with or without its drain: the socket is closed, and
\* the registry forgets it or, when the drain failed, keeps it.
LEMMA HandlerEndStep ==
  ASSUME ChatInv, NEW s \in Sockets, DrainFails(s) \/ HandlerEnds(s)
  PROVE  ChatInv'
<1> DEFINE d == socket[s].dev
<1>1. /\ socket' = [socket EXCEPT ![s].pc = "ended", ![s].link = "closed"]
      /\ socket[s].pc # "free"
      /\ UNCHANGED <<conversations, message, got, pushing, fetched>>
  BY DEF DrainFails, HandlerEnds
<1>2. d \in Members
  BY <1>1 DEF ChatInv, InUse
<1>3. chatFaults' \in 0..MaxChatFaults /\ chatFaults' # 0
  <2>1. CASE DrainFails(s)
    BY <2>1, FaultCounted DEF ChatInv, DrainFails
  <2>2. CASE HandlerEnds(s)
    <3>1. socket[s].link # "up" /\ UNCHANGED chatFaults
      BY <2>2, ChatAssumption DEF ChatAssumption, HandlerEnds, Up
    <3> QED BY <1>1, <3>1 DEF ChatInv, ChatTypeOK, FaultFree
  <2> QED BY <2>1, <2>2
<1>4. /\ connection' \in [Members -> Sockets \cup {NoSocket}]
      /\ \A e \in Members : connection'[e] \in {connection[e], NoSocket, s}
  <2>1. CASE DrainFails(s)
    BY <1>2, <2>1 DEF ChatInv, ChatTypeOK, DrainFails
  <2>2. CASE HandlerEnds(s)
    BY <1>2, <2>2 DEF ChatInv, ChatTypeOK, HandlerEnds, Forgotten
  <2> QED BY <2>1, <2>2
<1> HIDE DEF d
<1>5. /\ socket' \in [Sockets -> SocketRow]
      /\ \A t \in Sockets : t # s => socket'[t] = socket[t]
      /\ socket'[s].pc = "ended" /\ socket'[s].link = "closed" /\ socket'[s].dev = socket[s].dev
  <2>1. socket \in [Sockets -> SocketRow] /\ socket[s] \in SocketRow
    BY DEF ChatInv, ChatTypeOK
  <2>2. socket'[s] \in SocketRow
    BY <1>1, <2>1 DEF SocketRow
  <2>3. \A t \in Sockets : t # s => socket'[t] = socket[t]
    BY <1>1, <2>1
  <2>4. socket' \in [Sockets -> SocketRow]
    BY <1>1, <2>1, <2>2, <2>3
  <2>5. socket'[s].pc = "ended" /\ socket'[s].link = "closed" /\ socket'[s].dev = socket[s].dev
    BY <1>1, <2>1 DEF SocketRow
  <2> QED BY <2>3, <2>4, <2>5
<1>6. ChatTypeOK'
  BY <1>1, <1>3, <1>4, <1>5 DEF ChatInv, ChatTypeOK
<1>7. InUse'
  <2>1. \A t \in Sockets : socket[t].pc # "free" <=> socket'[t].pc # "free"
    BY <1>1, <1>5
  <2>2. \A e \in Members : connection'[e] # NoSocket => socket'[connection'[e]].pc # "free"
    BY <1>1, <1>4, <1>5, <2>1 DEF ChatInv, ChatTypeOK, InUse
  <2>3. \A t \in Sockets : socket'[t].pc # "free" => socket'[t].dev \in Members
    BY <1>1, <1>5, <2>1 DEF ChatInv, InUse
  <2>4. \A m \in Messages : pushing[m] # NoSocket => message[m].st # "unsent" /\ socket'[pushing[m]].pc # "free"
    BY <2>1 DEF ChatInv, ChatTypeOK, InUse
  <2>5. \A m \in Messages : message[m].st # "unsent" => message[m].from \in Members /\ message[m].to \in Members
    BY DEF ChatInv, InUse
  <2> QED BY <1>1, <2>2, <2>3, <2>4, <2>5 DEF InUse
<1>8. PushesToRegistered'
  <2> SUFFICES ASSUME NEW m \in Messages, message[m].st = "waiting",
                      connection'[message[m].to] # NoSocket,
                      socket'[connection'[message[m].to]].link = "up"
               PROVE  pushing[m] = connection'[message[m].to] \/ got[m] > 0
    BY <1>1 DEF PushesToRegistered, Up
  <2>1. message[m].to \in Members
    BY DEF ChatInv, InUse
  <2>2. connection'[message[m].to] # s /\ connection'[message[m].to] = connection[message[m].to]
    BY <1>4, <1>5, <2>1
  <2>3. Up(connection[message[m].to])
    BY <1>5, <2>1, <2>2 DEF Up, ChatInv, ChatTypeOK
  <2> QED BY <2>2, <2>3 DEF ChatInv, PushesToRegistered
<1>9. NoBatchYet'
  BY <1>1, <1>5 DEF ChatInv, NoBatchYet
<1>10. FaultFree' /\ ReliableDelivery'
  BY <1>3 DEF FaultFree, ReliableDelivery
<1> QED BY <1>6, <1>7, <1>8, <1>9, <1>10 DEF ChatInv

\* A drained message is written to the registered socket; before the first
\* fault that is the handler's own, and the client has it.
LEMMA PushDrainedStep ==
  ASSUME ChatInv, NEW s \in Sockets, NEW m \in Messages, PushDrained(s, m)
  PROVE  ChatInv'
<1> DEFINE d == socket[s].dev
           c == connection[d]
<1>1. /\ socket[s].pc = "draining" /\ m \in socket[s].batch
      /\ socket' = [socket EXCEPT ![s].batch = @ \ {m}, ![s].sent = @ \cup {m}]
      /\ UNCHANGED <<conversations, message, pushing, fetched, chatFaults>>
  BY DEF PushDrained
<1>2. PICK o \in WriteOutcomes(c) :
        /\ got' = [got EXCEPT ![m] = IF o = "arrives" THEN @ + 1 ELSE @]
        /\ AfterWrite(d, c, o)
  BY DEF PushDrained
<1>3. d \in Members
  BY <1>1 DEF ChatInv, InUse
<1>4. chatFaults = 0 => c = s /\ socket[s].link = "up"
  BY <1>1 DEF ChatInv, FaultFree
<1> HIDE DEF c, d
<1>5. chatFaults = 0 => o = "arrives"
  BY <1>2, <1>4, Outcomes DEF ChatInv
<1>6. /\ connection' \in [Members -> Sockets \cup {NoSocket}]
      /\ \A e \in Members : connection'[e] \in {connection[e], NoSocket}
      /\ chatFaults = 0 => connection' = connection
  BY <1>2, <1>3, <1>5, AfterWriteShrinks DEF ChatInv
<1>7. /\ got' \in [Messages -> Nat]
      /\ \A n \in Messages : got[n] > 0 => got'[n] > 0
      /\ o = "arrives" => got'[m] > 0
  BY <1>2 DEF ChatInv, ChatTypeOK
<1>8. /\ socket' \in [Sockets -> SocketRow]
      /\ \A t \in Sockets : t # s => socket'[t] = socket[t]
      /\ socket'[s].pc = "draining" /\ socket'[s].link = socket[s].link /\ socket'[s].dev = socket[s].dev
      /\ socket'[s].batch = socket[s].batch \ {m}
  <2>1. socket \in [Sockets -> SocketRow] /\ socket[s] \in SocketRow
    BY DEF ChatInv, ChatTypeOK
  <2>2. socket'[s] \in SocketRow
    BY <1>1, <2>1 DEF SocketRow
  <2>3. \A t \in Sockets : t # s => socket'[t] = socket[t]
    BY <1>1, <2>1
  <2>4. socket' \in [Sockets -> SocketRow]
    BY <1>1, <2>1, <2>2, <2>3
  <2>5. /\ socket'[s].pc = "draining" /\ socket'[s].link = socket[s].link /\ socket'[s].dev = socket[s].dev
        /\ socket'[s].batch = socket[s].batch \ {m}
    BY <1>1, <2>1 DEF SocketRow
  <2> QED BY <2>3, <2>4, <2>5
<1>9. ChatTypeOK'
  BY <1>1, <1>6, <1>7, <1>8 DEF ChatInv, ChatTypeOK
<1>10. \A t \in Sockets : /\ socket'[t].pc = socket[t].pc /\ socket'[t].dev = socket[t].dev
                          /\ socket'[t].link = socket[t].link
  BY <1>1, <1>8
<1>11. InUse'
  BY <1>1, <1>6, <1>10 DEF ChatInv, ChatTypeOK, InUse
<1>12. PushesToRegistered'
  BY <1>1, <1>6, <1>7, <1>10, GapKept DEF ChatInv
<1>13. FaultFree'
  <2> SUFFICES ASSUME chatFaults = 0
               PROVE  \A t \in Sockets : socket'[t].pc # "free"
                        => /\ socket'[t].link = "up"
                           /\ socket'[t].pc \in {"accepted", "draining", "open"}
                           /\ socket'[t].pc \in {"draining", "open"} => connection'[socket'[t].dev] = t
    BY <1>1 DEF FaultFree
  <2>1. connection' = connection
    BY <1>6
  <2> QED BY <1>10, <2>1 DEF ChatInv, FaultFree
<1>14. NoBatchYet'
  BY <1>8 DEF ChatInv, NoBatchYet
<1>15. ReliableDelivery'
  BY <1>1, <1>5, <1>7, <1>8 DEF ChatInv, ReliableDelivery
<1> QED BY <1>9, <1>11, <1>12, <1>13, <1>14, <1>15 DEF ChatInv

LEMMA DrainEndsStep ==
  ASSUME ChatInv, NEW s \in Sockets, DrainEnds(s)
  PROVE  ChatInv'
<1>1. /\ socket[s].pc = "draining" /\ socket[s].batch = {}
      /\ NotifySenders(socket[s].sent)
      /\ socket' = [socket EXCEPT ![s].pc = "open", ![s].sent = {}]
      /\ UNCHANGED <<conversations, message, got, pushing, fetched, chatFaults>>
  BY DEF DrainEnds
<1>2. /\ connection' \in [Members -> Sockets \cup {NoSocket}]
      /\ \A e \in Members : connection'[e] \in {connection[e], NoSocket}
      /\ chatFaults = 0 => connection' = connection
  BY <1>1, NotifyShrinks DEF ChatInv
<1>3. /\ socket' \in [Sockets -> SocketRow]
      /\ \A t \in Sockets : t # s => socket'[t] = socket[t]
      /\ socket'[s].pc = "open" /\ socket'[s].link = socket[s].link /\ socket'[s].dev = socket[s].dev
      /\ socket'[s].batch = socket[s].batch
  <2>1. socket \in [Sockets -> SocketRow] /\ socket[s] \in SocketRow
    BY DEF ChatInv, ChatTypeOK
  <2>2. socket'[s] \in SocketRow
    BY <1>1, <2>1 DEF SocketRow
  <2>3. \A t \in Sockets : t # s => socket'[t] = socket[t]
    BY <1>1, <2>1
  <2>4. socket' \in [Sockets -> SocketRow]
    BY <1>1, <2>1, <2>2, <2>3
  <2>5. /\ socket'[s].pc = "open" /\ socket'[s].link = socket[s].link /\ socket'[s].dev = socket[s].dev
        /\ socket'[s].batch = socket[s].batch
    BY <1>1, <2>1 DEF SocketRow
  <2> QED BY <2>3, <2>4, <2>5
<1>4. ChatTypeOK'
  BY <1>1, <1>2, <1>3 DEF ChatInv, ChatTypeOK
<1>5. \A t \in Sockets :
        /\ socket'[t].pc # "free" <=> socket[t].pc # "free"
        /\ socket'[t].pc \in {"draining", "open"} <=> socket[t].pc \in {"draining", "open"}
        /\ socket'[t].pc \in {"accepted", "draining", "open"} <=> socket[t].pc \in {"accepted", "draining", "open"}
        /\ socket'[t].dev = socket[t].dev /\ socket'[t].link = socket[t].link
        /\ socket'[t].batch = socket[t].batch
  BY <1>1, <1>3
<1>6. InUse'
  BY <1>1, <1>2, <1>5 DEF ChatInv, ChatTypeOK, InUse
<1>7. PushesToRegistered'
  BY <1>1, <1>2, <1>5, GapKept DEF ChatInv
<1>8. FaultFree'
  <2> SUFFICES ASSUME chatFaults = 0
               PROVE  \A t \in Sockets : socket'[t].pc # "free"
                        => /\ socket'[t].link = "up"
                           /\ socket'[t].pc \in {"accepted", "draining", "open"}
                           /\ socket'[t].pc \in {"draining", "open"} => connection'[socket'[t].dev] = t
    BY <1>1 DEF FaultFree
  <2>1. connection' = connection
    BY <1>2
  <2> QED BY <1>5, <2>1 DEF ChatInv, FaultFree
<1>9. NoBatchYet'
  BY <1>3 DEF ChatInv, NoBatchYet
<1>10. ReliableDelivery'
  BY <1>1, <1>5 DEF ChatInv, ReliableDelivery
<1> QED BY <1>4, <1>6, <1>7, <1>8, <1>9, <1>10 DEF ChatInv

LEMMA LinkLostStep ==
  ASSUME ChatInv, NEW s \in Sockets, LinkLost(s)
  PROVE  ChatInv'
<1>1. PICK how \in {"dead", "closed"} : socket' = [socket EXCEPT ![s].link = how]
  BY DEF LinkLost
<1>2. /\ chatFaults' \in 0..MaxChatFaults /\ chatFaults' # 0
      /\ UNCHANGED <<conversations, message, got, pushing, connection, fetched>>
  BY FaultCounted DEF LinkLost, ChatInv
<1>3. /\ socket' \in [Sockets -> SocketRow]
      /\ \A t \in Sockets : /\ socket'[t].pc = socket[t].pc /\ socket'[t].dev = socket[t].dev
                            /\ socket'[t].batch = socket[t].batch
                            /\ socket'[t].link = "up" => socket[t].link = "up"
  BY <1>1 DEF ChatInv, ChatTypeOK, SocketRow
<1>4. ChatTypeOK'
  BY <1>2, <1>3 DEF ChatInv, ChatTypeOK
<1>5. InUse'
  BY <1>2, <1>3 DEF ChatInv, ChatTypeOK, InUse
<1>6. PushesToRegistered'
  BY <1>2, <1>3, GapKept DEF ChatInv
<1>7. NoBatchYet'
  BY <1>3 DEF ChatInv, NoBatchYet
<1>8. FaultFree' /\ ReliableDelivery'
  BY <1>2 DEF FaultFree, ReliableDelivery
<1> QED BY <1>4, <1>5, <1>6, <1>7, <1>8 DEF ChatInv

-----------------------------------------------------------------------------
(* Fetching, and the restart                                                 *)

LEMMA GetStep ==
  ASSUME ChatInv, NEW d \in Members, NEW e \in Members, GetMessages(d, e)
  PROVE  ChatInv'
<1> DEFINE drained == {m \in Pending(d) : message[m].from = e}
<1>1. /\ fetched[d] = {} /\ fetched' = [fetched EXCEPT ![d] = drained] /\ Acknowledged(drained)
      /\ UNCHANGED <<conversations, got, pushing, socket, connection, chatFaults>>
  BY DEF GetMessages
<1>2. drained \subseteq Messages /\ \A m \in drained : message[m].st = "waiting"
  BY DEF Pending
<1> HIDE DEF drained
<1>3. /\ message' \in [Messages -> MessageRow]
      /\ \A m \in Messages :
           /\ message'[m].from = message[m].from /\ message'[m].to = message[m].to
           /\ m \in drained => message'[m].st = "delivered"
           /\ m \notin drained => message'[m] = message[m]
  BY <1>1, <1>2, Acked DEF ChatInv
<1>4. /\ fetched' \in [Members -> SUBSET Messages] /\ fetched'[d] = drained
      /\ \A f \in Members : f # d => fetched'[f] = fetched[f]
  BY <1>1, <1>2 DEF ChatInv, ChatTypeOK
<1>5. ChatTypeOK'
  BY <1>1, <1>3, <1>4 DEF ChatInv, ChatTypeOK
<1>6. InUse'
  BY <1>1, <1>2, <1>3 DEF ChatInv, InUse
<1>7. PushesToRegistered'
  BY <1>1, <1>3, GapKept DEF ChatInv
<1>8. FaultFree' /\ NoBatchYet'
  BY <1>1 DEF ChatInv, FaultFree, NoBatchYet
<1>9. ReliableDelivery'
  BY <1>1, <1>3, <1>4 DEF ChatInv, ReliableDelivery
<1> QED BY <1>5, <1>6, <1>7, <1>8, <1>9 DEF ChatInv

\* The response arrives, or its loss is a fault.
LEMMA ResponseStep ==
  ASSUME ChatInv, NEW d \in Members, ResponseEnds(d)
  PROVE  ChatInv'
<1>1. /\ fetched' = [fetched EXCEPT ![d] = {}] /\ NotifySenders(fetched[d])
      /\ UNCHANGED <<conversations, message, pushing, socket>>
  BY DEF ResponseEnds
<1>2. /\ connection' \in [Members -> Sockets \cup {NoSocket}]
      /\ \A e \in Members : connection'[e] \in {connection[e], NoSocket}
      /\ chatFaults = 0 => connection' = connection
  BY <1>1, NotifyShrinks DEF ChatInv
<1>3. /\ fetched' \in [Members -> SUBSET Messages]
      /\ \A f \in Members : f # d => fetched'[f] = fetched[f]
  BY <1>1 DEF ChatInv, ChatTypeOK
<1>4. /\ chatFaults' \in 0..MaxChatFaults
      /\ got' \in [Messages -> Nat]
      /\ \A m \in Messages : got[m] > 0 => got'[m] > 0
      /\ chatFaults' = 0 => chatFaults = 0 /\ \A m \in Messages : m \in fetched[d] => got'[m] > 0
  <2>1. CASE ChatFault /\ UNCHANGED got
    BY <2>1, FaultCounted DEF ChatInv, ChatTypeOK
  <2>2. CASE /\ got' = [m \in Messages |-> IF m \in fetched[d] THEN got[m] + 1 ELSE got[m]]
             /\ UNCHANGED chatFaults
    BY <2>2 DEF ChatInv, ChatTypeOK
  <2> QED BY <2>1, <2>2 DEF ResponseEnds
<1>5. ChatTypeOK'
  BY <1>1, <1>2, <1>3, <1>4 DEF ChatInv, ChatTypeOK
<1>6. InUse'
  BY <1>1, <1>2 DEF ChatInv, InUse
<1>7. PushesToRegistered'
  BY <1>1, <1>2, <1>4, GapKept DEF ChatInv
<1>8. FaultFree' /\ NoBatchYet'
  BY <1>1, <1>2, <1>4 DEF ChatInv, FaultFree, NoBatchYet
<1>9. ReliableDelivery'
  BY <1>1, <1>3, <1>4 DEF ChatInv, ReliableDelivery
<1> QED BY <1>5, <1>6, <1>7, <1>8, <1>9 DEF ChatInv

LEMMA ChatRestartStep ==
  ASSUME ChatInv, ChatRestart
  PROVE  ChatInv'
<1>1. /\ pushing' = [m \in Messages |-> NoSocket]
      /\ socket' = [s \in Sockets |->
           IF socket[s].pc = "free" THEN socket[s]
           ELSE [socket[s] EXCEPT !.pc = "ended", !.link = "closed", !.batch = {}, !.sent = {}]]
      /\ connection' = [d \in Members |-> NoSocket]
      /\ fetched' = [d \in Members |-> {}]
      /\ UNCHANGED <<conversations, message, got>>
  BY DEF ChatRestart
<1>2. chatFaults' \in 0..MaxChatFaults /\ chatFaults' # 0
  BY FaultCounted DEF ChatRestart, ChatInv
<1>3. ASSUME NEW s \in Sockets
      PROVE  /\ socket'[s] \in SocketRow
             /\ socket[s].pc = "free" => socket'[s] = socket[s]
             /\ socket[s].pc # "free" => socket'[s].pc = "ended" /\ socket'[s].dev = socket[s].dev
  <2>1. socket[s] \in SocketRow
    BY DEF ChatInv, ChatTypeOK
  <2> QED BY <1>1, <2>1 DEF SocketRow
<1>4. ChatTypeOK'
  <2>1. socket' \in [Sockets -> SocketRow]
    BY <1>1, <1>3
  <2>2. /\ pushing' \in [Messages -> Sockets \cup {NoSocket}]
        /\ connection' \in [Members -> Sockets \cup {NoSocket}]
        /\ fetched' \in [Members -> SUBSET Messages]
    BY <1>1
  <2>3. UNCHANGED <<conversations, message, got>>
    BY <1>1
  <2> QED BY <1>2, <2>1, <2>2, <2>3 DEF ChatInv, ChatTypeOK
<1>5. InUse'
  BY <1>1, <1>3 DEF ChatInv, InUse
<1>6. PushesToRegistered'
  BY <1>1, <1>3 DEF ChatInv, InUse, PushesToRegistered, Up
<1>7. NoBatchYet'
  BY <1>3 DEF ChatInv, NoBatchYet
<1>8. FaultFree' /\ ReliableDelivery'
  BY <1>2 DEF FaultFree, ReliableDelivery
<1> QED BY <1>4, <1>5, <1>6, <1>7, <1>8 DEF ChatInv

-----------------------------------------------------------------------------
(* The invariant                                                             *)

LEMMA ChatStarts == ChatInit => ChatInv
<1> SUFFICES ASSUME ChatInit PROVE ChatInv
  OBVIOUS
<1>1. ChatTypeOK
  BY ChatAssumption DEF ChatAssumption, ChatInit, ChatTypeOK, MessageRow, SocketRow
<1>2. InUse /\ PushesToRegistered
  BY DEF ChatInit, InUse, PushesToRegistered
<1>3. FaultFree /\ NoBatchYet /\ ReliableDelivery
  BY DEF ChatInit, FaultFree, NoBatchYet, ReliableDelivery
<1> QED BY <1>1, <1>2, <1>3 DEF ChatInv

LEMMA ChatKept == ChatInv /\ [ChatNext]_chatVars => ChatInv'
<1> SUFFICES ASSUME ChatInv, [ChatNext]_chatVars PROVE ChatInv'
  OBVIOUS
<1>1. CASE UNCHANGED chatVars
  <2>1. ChatTypeOK' /\ InUse'
    BY <1>1 DEF ChatInv, chatVars, ChatTypeOK, InUse
  <2>2. PushesToRegistered' /\ FaultFree' /\ NoBatchYet' /\ ReliableDelivery'
    BY <1>1 DEF ChatInv, chatVars, PushesToRegistered, Up, FaultFree, NoBatchYet, ReliableDelivery
  <2> QED BY <2>1, <2>2 DEF ChatInv
<1>2. CASE \E d, e \in Members : StartConversation(d, e)
  BY <1>2, StartStep
<1>3. CASE \E m \in Messages : AgeOut(m) \/ PushEnds(m) \/ \E d, e \in Members : SendMessage(m, d, e)
  BY <1>3, AgeStep, ChatPushStep, SendStep
<1>4. ASSUME NEW s \in Sockets,
             HandlerGoesOn(s) \/ DrainFails(s) \/ LinkLost(s) \/ \E d \in Members : AcceptSocket(s, d)
      PROVE  ChatInv'
  <2>1. CASE ConnectFirst(s) \/ ConnectReplacing(s)
    BY <2>1, ConnectStep DEF ConnectFirst, ConnectReplacing
  <2>2. CASE CloseReplaced(s)
    BY <2>2, CloseStep
  <2>3. CASE \E m \in Messages : PushDrained(s, m)
    BY <2>3, PushDrainedStep
  <2>4. CASE DrainEnds(s)
    BY <2>4, DrainEndsStep
  <2>5. CASE DrainFails(s) \/ HandlerEnds(s)
    BY <2>5, HandlerEndStep
  <2>6. CASE LinkLost(s)
    BY <2>6, LinkLostStep
  <2>7. CASE \E d \in Members : AcceptSocket(s, d)
    BY <2>7, AcceptStep
  <2> QED BY <1>4, <2>1, <2>2, <2>3, <2>4, <2>5, <2>6, <2>7 DEF HandlerGoesOn
<1>5. CASE \E d \in Members : ResponseEnds(d) \/ \E e \in Members : GetMessages(d, e)
  BY <1>5, ResponseStep, GetStep
<1>6. CASE ChatRestart
  BY <1>6, ChatRestartStep
<1> QED BY <1>1, <1>2, <1>3, <1>4, <1>5, <1>6 DEF ChatNext

LEMMA ChatAlways == ChatSpec => []ChatInv
BY ChatStarts, ChatKept, PTL DEF ChatSpec

\* However sends, connections, replacements, writes and acknowledgments that
\* fail and restarts interleave, a message its recipient has not received waits
\* for a device whose registered connection is up only while send_message is
\* writing it (managed_chat.py, connect and _fetch_and_ack_pending run without
\* an await in between).
THEOREM NoMessageLeftBehind == ChatSpec => []NoGap
<1>1. ChatInv => NoGap
  BY DEF ChatInv, InUse, PushesToRegistered, NoGap, RecipientConnected, Up
<1> QED BY <1>1, ChatAlways, PTL

\* Until the first fault, a message marked delivered, which is to say purged
\* from chat_messages, has reached its recipient or is on its way to it.
THEOREM PurgedWasDelivered == ChatSpec => []ReliableDelivery
<1>1. ChatInv => ReliableDelivery
  BY DEF ChatInv
<1> QED BY <1>1, ChatAlways, PTL
=============================================================================
