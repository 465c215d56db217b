---------------------------- MODULE ChannelProofs ----------------------------
(***************************************************************************)
(* For every set of calls and every number of connections: the invariants  *)
(* of module Channel that the runs check on a small instance, and that the *)
(* channel implements RequestReply.                                        *)
(*                                                                         *)
(* Each lemma XStep shows that one part X of the inductive invariant IInv  *)
(* is preserved, with one step per action that touches its variables and   *)
(* one for all the others of a kind.                                       *)
(***************************************************************************)
EXTENDS ChannelInvariant, TLAPS, FiniteSetTheorems

\* Channels are the dialer's and those of the connections, which are not 0.
LEMMA DomainFacts ==
  Channels = Conns \cup {0} /\ 0 \notin Conns /\ Conns \subseteq Int /\ Conns # {}
BY ChannelAssumption DEF Channels, Conns

\* The initial states satisfy every part of the invariant.
LEMMA InitIInv ==
  ASSUME Init
  PROVE  IInv
<1> USE DomainFacts, ChannelAssumption DEF Init, Dialer, NoSock, NoChan, Nothing, Frame
<1>1. Nothing \in Frames /\ Nothing.kind \in Replies /\ Nothing.kind # "ok" /\ Nothing.id = NoCall
  BY DEF Frames, Replies
<1>2. NetTypes /\ ChanTypes /\ CallTypes /\ WorkTypes
  BY DEF NetTypes, ChanTypes, CallTypes, WorkTypes, CallStates, Replies
<1>3. RecvTypes
  BY <1>1 DEF RecvTypes, RecvStates
<1>4. NotOpenedYet /\ SocketHasReader /\ PendingIsCallers /\ SomeoneWakes /\ LiveIsRegistered
  BY DEF NotOpenedYet, SocketHasReader, PendingIsCallers, SomeoneWakes, LiveIsRegistered
<1>5. RequestsAreFresh /\ AnswersAreHandlers
  BY <1>1 DEF RequestsAreFresh, AnswersAreHandlers
<1> QED
  BY <1>2, <1>3, <1>4, <1>5 DEF IInv, TypeOK

-----------------------------------------------------------------------------
\* Frames S, fit for connection k, are put on it.
Added(k, S) ==
  /\ \A f \in S : f \in Frames /\ f.to \in {Dialer, k} /\ (f.kind = "ping" <=> f.id = NoCall)
  /\ wire' = [wire EXCEPT ![k] = @ \cup S]
  /\ UNCHANGED <<conn, link, reg>>

\* Sending keeps the frames on the wire well typed.
LEMMA AddedTypes ==
  ASSUME NetTypes, NEW k \in Conns, NEW S, Added(k, S)
  PROVE  NetTypes'
<1>1. wire' \in [Conns -> SUBSET Frames] /\ \A j \in Conns : wire'[j] \subseteq wire[j] \cup (IF j = k THEN S ELSE {})
  BY DEF Added, NetTypes
<1> QED
  BY <1>1 DEF Added, NetTypes

\* Types.  The frames sent are addressed to an end of their connection.
LEMMA NetTypesStep ==
  ASSUME TypeOK, NotOpenedYet, SocketHasReader, [Next]_vars
  PROVE  NetTypes'
<1>a. NetTypes /\ ChanTypes
  BY DEF TypeOK
<1>b. Channels = Conns \cup {0} /\ 0 \notin Conns /\ Conns \subseteq Int
  BY DomainFacts
<1>c. /\ at \in [Channels -> RecvStates] /\ pc \in [Calls -> CallStates] /\ chan \in [Calls -> Channels]
      /\ csock \in [Calls -> Channels] /\ \A c \in Calls : pc[c] = "sending" => csock[c] # NoSock
  BY DEF TypeOK, RecvTypes, CallTypes
<1>d. Calls \cap {NoCall} = {}
  BY ChannelAssumption
<1>e. reply \in [Calls -> {"none"} \cup Replies] /\ worker \in [Calls -> Channels]
  BY DEF TypeOK, WorkTypes
<1> USE DEF Dialer, NoSock, NoChan, NetTypes, ChanTypes, Frames, Frame, Replies, NotOpenedYet,
            Sock, Peer, netVars, chanVars, recvVars, callVars, workVars
<1>1. CASE UNCHANGED vars
  BY <1>1, <1>a DEF vars
<1>2. CASE Hello
  <2>1. conn + 1 \in Conns
    BY <1>2, ChannelAssumption, <1>a DEF Hello, Channels, Conns
  <2> QED
    BY <1>2, <2>1, <1>a, <1>b DEF Hello
<1>3. CASE ConnectFail
  BY <1>3, <1>a DEF ConnectFail
<1>4. CASE LoopTop \/ Connected
  BY <1>4, <1>a DEF LoopTop, Connected
<1>5. ASSUME NEW k \in Conns, Attach(k)
      PROVE  NetTypes'
  BY <1>5, <1>a, <1>b DEF Attach
<1>6. ASSUME NEW k \in Conns, Break(k)
      PROVE  NetTypes'
  BY <1>6, <1>a DEF Break
<1>7. ASSUME NEW k \in Conns, Reject(k)
      PROVE  NetTypes'
  BY <1>7, <1>a DEF Reject
<1>8. ASSUME NEW i \in Channels, Close(i)
      PROVE  NetTypes'
  BY <1>8, <1>a, <1>b DEF Close
<1>9. ASSUME NEW i \in Channels, Ping(i)
      PROVE  NetTypes'
  <2>1. ws[i] \in Conns /\ Peer(i, ws[i]) \in {Dialer, ws[i]}
    BY <1>9, <1>a, <1>b DEF Ping
  <2>2. Added(ws[i], Sent(ws[i], Frame("ping", NoCall, Peer(i, ws[i]))))
    BY <1>9, <2>1, <1>b DEF Ping, Added, Sent
  <2> QED
    BY <2>1, <2>2, <1>a, AddedTypes
<1>10. ASSUME NEW i \in Channels, Deliver(i)
      PROVE  NetTypes'
  BY <1>10, <1>a DEF Deliver, Crash
<1>11. ASSUME NEW i \in Channels, Drop(i)
      PROVE  NetTypes'
  <2>1. Sock(i) \in Conns
    BY <1>11, <1>a, <1>b DEF Drop
  <2>2. wire' = [wire EXCEPT ![Sock(i)] = {f \in @ : f.to # i}] /\ link' = [link EXCEPT ![Sock(i)] = "down"]
    BY <1>11 DEF Drop
  <2>3. wire' \in [Conns -> SUBSET Frames] /\ \A k \in Conns : wire'[k] \subseteq wire[k]
    BY <2>2, <1>a
  <2>4. link' \in [Conns -> {"none", "up", "down"}] /\ conn' = conn /\ reg' = reg
    BY <1>11, <2>2, <1>a DEF Drop
  <2> QED
    BY <2>3, <2>4, <1>a
<1>12. ASSUME NEW i \in Channels, WakeRaises(i)
      PROVE  NetTypes'
  BY <1>12, <1>a DEF WakeRaises, Crash
<1>13. ASSUME NEW i \in Channels, LoopEnds(i)
      PROVE  NetTypes'
  BY <1>13, <1>a, <1>b DEF LoopEnds
<1>14. ASSUME NEW i \in Channels, PingRaises(i) \/ RecvFails(i)
      PROVE  NetTypes'
  BY <1>14, <1>a DEF PingRaises, RecvFails
<1>15. ASSUME NEW i \in Channels, NEW c \in Calls, WakeOne(i, c)
      PROVE  NetTypes'
  BY <1>15, <1>a DEF WakeOne
<1>16. ASSUME NEW k \in Conns, NEW f \in wire[k], Match(f.to, f)
      PROVE  NetTypes'
  BY <1>16, <1>a, <1>b, <1>c, <1>d, <1>e DEF Match, Takes, Without
<1>17. ASSUME NEW k \in Conns, NEW f \in wire[k], Request(f.to, f)
      PROVE  NetTypes'
  BY <1>17, <1>a, <1>b DEF Request, Takes, Without, Crash
<1>18. ASSUME NEW k \in Conns, NEW f \in wire[k], Stray(f.to, f)
      PROVE  NetTypes'
  BY <1>18, <1>a DEF Stray, Without, Answer, Crash
<1>19. ASSUME NEW k \in Conns, NEW f \in wire[k], Pinged(f.to, f)
      PROVE  NetTypes'
  BY <1>19, <1>a DEF Pinged, Without, Answer, Crash
<1>20. ASSUME NEW c \in Calls, Send(c)
      PROVE  NetTypes'
  <2>1. csock[c] \in Conns /\ Peer(chan[c], csock[c]) \in {Dialer, csock[c]}
    BY <1>20, <1>b, <1>c DEF Send
  <2>2. Added(csock[c], Sent(csock[c], Frame("request", c, Peer(chan[c], csock[c]))))
    BY <1>20, <2>1, <1>b, ChannelAssumption DEF Send, Added, Sent
  <2> QED
    BY <2>1, <2>2, <1>a, AddedTypes
<1>21. ASSUME NEW c \in Calls, SendReply(c)
      PROVE  NetTypes'
  <2> DEFINE k == ws[worker[c]]
  <2>1. k \in Conns /\ Peer(worker[c], k) \in {Dialer, k}
    <3>1. worker[c] \in Channels
      BY <1>e
    <3>2. k \in Channels /\ k # NoSock
      BY <1>21, <3>1, <1>a DEF SendReply
    <3> QED
      BY <3>2, <1>b
  <2>3. reply[c] \in Replies
    BY <1>21, <1>e DEF SendReply
  <2>2. Added(k, Sent(k, Frame(reply[c], c, Peer(worker[c], k))))
    BY <1>21, <2>1, <2>3, <1>b, ChannelAssumption DEF SendReply, Added, Sent
  <2> QED
    BY <2>1, <2>2, <1>a, AddedTypes
<1>22. ASSUME NEW c \in Calls,
              \/ GetChannel(c) \/ Register(c) \/ ReadSocket(c) \/ SendRaises(c)
              \/ Return(c) \/ Handle(c) \/ ReplyRaises(c)
      PROVE  NetTypes'
  BY <1>22, <1>a DEF GetChannel, Register, ReadSocket, SendRaises, Return, Handle, ReplyRaises
<1> QED
  BY <1>1, <1>2, <1>3, <1>4, <1>5, <1>6, <1>7, <1>8, <1>9, <1>10, <1>11, <1>12, <1>13, <1>14,
     <1>15, <1>16, <1>17, <1>18, <1>19, <1>20, <1>21, <1>22
     DEF Next

\* Types of the channels: an accepted channel has its own connection's socket.
LEMMA ChanTypesStep ==
  ASSUME TypeOK, NotOpenedYet, SocketHasReader, [Next]_vars
  PROVE  ChanTypes'
<1>a. NetTypes /\ ChanTypes
  BY DEF TypeOK
<1>b. Channels = Conns \cup {0} /\ 0 \notin Conns /\ Conns \subseteq Int
  BY DomainFacts
<1>c. at \in [Channels -> RecvStates] /\ chan \in [Calls -> Channels] /\ worker \in [Calls -> Channels]
  BY DEF TypeOK, RecvTypes, CallTypes, WorkTypes
<1> USE DEF Dialer, NoSock, NetTypes, ChanTypes, netVars, chanVars, recvVars, callVars, workVars
<1>1. CASE UNCHANGED vars
  BY <1>1, <1>a DEF vars
<1>2. CASE Connected
  BY <1>2, <1>a, <1>b DEF Connected
<1>3. CASE LoopTop \/ Hello \/ ConnectFail
  BY <1>3, <1>a DEF LoopTop, Hello, ConnectFail
<1>4. ASSUME NEW k \in Conns, Attach(k)
      PROVE  ChanTypes'
  <2>1. CASE reg = NoChan
    BY <1>4, <2>1, <1>a, <1>b DEF Attach
  <2>2. CASE reg # NoChan
    <3>1. /\ ws' = [ws EXCEPT ![reg] = NoSock, ![k] = k]
          /\ running' = [running EXCEPT ![reg] = FALSE] /\ event' = [event EXCEPT ![k] = TRUE]
      BY <1>4, <2>2 DEF Attach
    <3>2. \A j \in Channels : ws'[j] = IF j = k THEN k ELSE IF j = reg THEN NoSock ELSE ws[j]
      BY <3>1, <1>a
    <3>3. ws' \in [Channels -> Channels]
      BY <3>1, <1>a, <1>b
    <3> QED
      BY <3>1, <3>2, <3>3, <1>a, <1>b
  <2> QED
    BY <2>1, <2>2
<1>5. ASSUME NEW k \in Conns, Reject(k) \/ Break(k)
      PROVE  ChanTypes'
  BY <1>5, <1>a DEF Reject, Break
<1>6. ASSUME NEW i \in Channels, Close(i)
      PROVE  ChanTypes'
  BY <1>6, <1>a, <1>b DEF Close
<1>7. ASSUME NEW i \in Channels, PingRaises(i)
      PROVE  ChanTypes'
  BY <1>7, <1>a, <1>b DEF PingRaises
<1>8. ASSUME NEW i \in Channels, Drop(i)
      PROVE  ChanTypes'
  BY <1>8, <1>a, <1>b DEF Drop
<1>9. ASSUME NEW i \in Channels,
             \/ Ping(i) \/ Deliver(i) \/ RecvFails(i) \/ WakeRaises(i)
             \/ LoopEnds(i)
      PROVE  ChanTypes'
  BY <1>9, <1>a DEF Ping, Deliver, RecvFails, WakeRaises, LoopEnds
<1>10. ASSUME NEW i \in Channels, NEW c \in Calls, WakeOne(i, c)
      PROVE  ChanTypes'
  BY <1>10, <1>a DEF WakeOne
<1>11. ASSUME NEW k \in Conns, NEW f \in wire[k], Stray(f.to, f)
      PROVE  ChanTypes'
  BY <1>11, <1>a, <1>b DEF Stray, Answer
<1>12. ASSUME NEW k \in Conns, NEW f \in wire[k], Pinged(f.to, f)
      PROVE  ChanTypes'
  BY <1>12, <1>a, <1>b DEF Pinged, Answer
<1>13. ASSUME NEW k \in Conns, NEW f \in wire[k], Match(f.to, f) \/ Request(f.to, f)
      PROVE  ChanTypes'
  BY <1>13, <1>a DEF Match, Request
<1>14. ASSUME NEW c \in Calls, SendRaises(c)
      PROVE  ChanTypes'
  BY <1>14, <1>a, <1>b DEF SendRaises
<1>15. ASSUME NEW c \in Calls, ReplyRaises(c)
      PROVE  ChanTypes'
  BY <1>15, <1>a, <1>b DEF ReplyRaises
<1>16. ASSUME NEW c \in Calls,
              \/ GetChannel(c) \/ Register(c) \/ ReadSocket(c) \/ Send(c)
              \/ Return(c) \/ Handle(c) \/ SendReply(c)
      PROVE  ChanTypes'
  BY <1>16, <1>a DEF GetChannel, Register, ReadSocket, Send, Return, Handle, SendReply
<1> QED
  BY <1>1, <1>2, <1>3, <1>4, <1>5, <1>6, <1>7, <1>8, <1>9, <1>10, <1>11, <1>12, <1>13, <1>14,
     <1>15, <1>16
     DEF Next

\* Types of the receive threads.  A frame that matches _pending is a reply: the
\* request of a call never comes back to the side that made it.
LEMMA RecvTypesStep ==
  ASSUME TypeOK, NotOpenedYet, PendingIsCallers, RequestsAreFresh, [Next]_vars
  PROVE  RecvTypes'
<1>a. RecvTypes
  BY DEF TypeOK
<1>b. Channels = Conns \cup {0} /\ 0 \notin Conns /\ Conns \subseteq Int
  BY DomainFacts
<1>c. conn \in Channels /\ reg \in Channels /\ running \in [Channels -> BOOLEAN] /\ ws \in [Channels -> Channels]
  BY DEF TypeOK, NetTypes, ChanTypes
<1>d. wire \in [Conns -> SUBSET Frames] /\ \A k \in Conns : \A f \in wire[k] : f.to \in {Dialer, k} /\ (f.kind = "ping" <=> f.id = NoCall)
  BY DEF TypeOK, NetTypes
<1>e. pending \in [Channels -> SUBSET Calls]
  BY DEF TypeOK, CallTypes
<1> USE DEF Dialer, RecvTypes, RecvStates, netVars, chanVars, recvVars, callVars, workVars
<1>1. CASE UNCHANGED vars
  BY <1>1, <1>a DEF vars
<1>2. CASE LoopTop
  BY <1>2, <1>a DEF LoopTop
<1>3. CASE Hello
  BY <1>3, <1>a DEF Hello
<1>4. CASE ConnectFail
  BY <1>4, <1>a DEF ConnectFail
<1>5. CASE Connected
  BY <1>5, <1>a DEF Connected
<1>6. ASSUME NEW k \in Conns, Attach(k)
      PROVE  RecvTypes'
  BY <1>6, <1>a DEF Attach
<1>7. ASSUME NEW k \in Conns, Reject(k)
      PROVE  RecvTypes'
  BY <1>7, <1>a DEF Reject
<1>8. ASSUME NEW k \in Conns, Break(k)
      PROVE  RecvTypes'
  BY <1>8, <1>a DEF Break
<1>9. ASSUME NEW i \in Channels, Deliver(i)
      PROVE  RecvTypes'
  <2>1. at' \in [Channels -> RecvStates]
    BY <1>9, <1>a DEF Deliver, Crash, LoopNext
  <2>2. held' = [held EXCEPT ![i] = Nothing] /\ woken' = woken /\ size' = size
    BY <1>9 DEF Deliver
  <2>3. Nothing \in Frames /\ Nothing.kind \in Replies
    BY <1>b DEF Nothing, Frame, Frames, Replies
  <2> QED
    BY <2>1, <2>2, <2>3, <1>a
<1>10. ASSUME NEW i \in Channels, RecvFails(i)
      PROVE  RecvTypes'
  BY <1>10, <1>a DEF RecvFails
<1>11. ASSUME NEW i \in Channels, Drop(i)
      PROVE  RecvTypes'
  <2>1. size' \in [Channels -> Nat]
    <3>1. IsFiniteSet(pending[i]) /\ Cardinality(pending[i]) \in Nat
      BY <1>e, ChannelAssumption, FS_Subset, FS_CardinalityType
    <3> QED
      BY <1>11, <3>1, <1>a DEF Drop
  <2> QED
    BY <1>11, <2>1, <1>a DEF Drop
<1>12. ASSUME NEW i \in Channels, WakeRaises(i)
      PROVE  RecvTypes'
  BY <1>12, <1>a DEF WakeRaises, Crash
<1>13. ASSUME NEW i \in Channels, LoopEnds(i)
      PROVE  RecvTypes'
  BY <1>13, <1>a DEF LoopEnds
<1>14. ASSUME NEW i \in Channels, Close(i) \/ Ping(i) \/ PingRaises(i)
      PROVE  RecvTypes'
  BY <1>14, <1>a DEF Close, Ping, PingRaises
<1>15. ASSUME NEW i \in Channels, NEW c \in Calls, WakeOne(i, c)
      PROVE  RecvTypes'
  BY <1>15, <1>a DEF WakeOne
<1>16. ASSUME NEW k \in Conns, NEW f \in wire[k], Match(f.to, f)
      PROVE  RecvTypes'
  <2>1. f \in Frames /\ f.to \in Channels /\ f.id \in Calls /\ f.kind # "ping"
    BY <1>16, <1>b, <1>d, <1>e, ChannelAssumption DEF Match
  <2>2. f.kind # "request"
    BY <1>16, <2>1, <1>b DEF Match, PendingIsCallers, RequestsAreFresh, Peer
  <2>3. f.kind \in Replies
    BY <2>1, <2>2 DEF Frames, Replies
  <2> QED
    BY <1>16, <2>1, <2>3, <1>a DEF Match
<1>17. ASSUME NEW k \in Conns, NEW f \in wire[k], Request(f.to, f)
      PROVE  RecvTypes'
  BY <1>17, <1>a DEF Request, Crash, LoopNext
<1>18. ASSUME NEW k \in Conns, NEW f \in wire[k], Stray(f.to, f)
      PROVE  RecvTypes'
  BY <1>18, <1>a DEF Stray, Answer, Crash, LoopNext
<1>19. ASSUME NEW k \in Conns, NEW f \in wire[k], Pinged(f.to, f)
      PROVE  RecvTypes'
  BY <1>19, <1>a DEF Pinged, Answer, Crash, LoopNext
<1>20. ASSUME NEW c \in Calls,
              \/ GetChannel(c) \/ Register(c) \/ ReadSocket(c) \/ Send(c)
              \/ SendRaises(c) \/ Return(c) \/ Handle(c) \/ SendReply(c)
              \/ ReplyRaises(c)
      PROVE  RecvTypes'
  BY <1>20, <1>a
     DEF GetChannel, Register, ReadSocket, Send, SendRaises, Return, Handle, SendReply,
         ReplyRaises
<1> QED
  BY <1>1, <1>2, <1>3, <1>4, <1>5, <1>6, <1>7, <1>8, <1>9, <1>10, <1>11, <1>12, <1>13, <1>14,
     <1>15, <1>16, <1>17, <1>18, <1>19, <1>20
     DEF Next

\* Types of the calls: a caller that sends has read a socket.
LEMMA CallTypesStep ==
  ASSUME TypeOK, [Next]_vars
  PROVE  CallTypes'
<1>a. CallTypes
  BY DEF TypeOK
<1>b. reg \in Channels /\ ws \in [Channels -> Channels] /\ \A i \in Channels : held[i].kind \in Replies
  BY DEF TypeOK, NetTypes, ChanTypes, RecvTypes
<1>c. Dialer \in Channels
  BY DomainFacts DEF Dialer
<1> USE DEF CallTypes, CallStates, netVars, chanVars, recvVars, callVars, workVars
<1>1. CASE UNCHANGED vars
  BY <1>1, <1>a DEF vars
<1>2. CASE LoopTop \/ Hello \/ ConnectFail \/ Connected
  BY <1>2, <1>a DEF LoopTop, Hello, ConnectFail, Connected
<1>3. ASSUME NEW k \in Conns, Attach(k) \/ Reject(k) \/ Break(k)
      PROVE  CallTypes'
  BY <1>3, <1>a DEF Attach, Reject, Break
<1>4. ASSUME NEW i \in Channels, Deliver(i)
      PROVE  CallTypes'
  BY <1>4, <1>a, <1>b DEF Deliver
<1>5. ASSUME NEW i \in Channels,
             \/ Close(i) \/ Ping(i) \/ PingRaises(i) \/ RecvFails(i)
             \/ Drop(i) \/ WakeRaises(i) \/ LoopEnds(i)
      PROVE  CallTypes'
  BY <1>5, <1>a DEF Close, Ping, PingRaises, RecvFails, Drop, WakeRaises, LoopEnds
<1>6. ASSUME NEW i \in Channels, NEW c \in Calls, WakeOne(i, c)
      PROVE  CallTypes'
  BY <1>6, <1>a DEF WakeOne
<1>7. ASSUME NEW k \in Conns, NEW f \in wire[k],
             \/ Match(f.to, f) \/ Request(f.to, f) \/ Stray(f.to, f) \/ Pinged(f.to, f)
      PROVE  CallTypes'
  BY <1>7, <1>a DEF Match, Request, Stray, Answer, Pinged
<1>8. ASSUME NEW c \in Calls, GetChannel(c)
      PROVE  CallTypes'
  BY <1>8, <1>a, <1>b, <1>c DEF GetChannel, Caller
<1>9. ASSUME NEW c \in Calls, Register(c)
      PROVE  CallTypes'
  BY <1>9, <1>a DEF Register
<1>10. ASSUME NEW c \in Calls, ReadSocket(c)
      PROVE  CallTypes'
  BY <1>10, <1>a, <1>b DEF ReadSocket
<1>11. ASSUME NEW c \in Calls, Send(c)
      PROVE  CallTypes'
  BY <1>11, <1>a DEF Send
<1>12. ASSUME NEW c \in Calls, SendRaises(c)
      PROVE  CallTypes'
  BY <1>12, <1>a DEF SendRaises
<1>13. ASSUME NEW c \in Calls, Return(c)
      PROVE  CallTypes'
  BY <1>13, <1>a DEF Return
<1>14. ASSUME NEW c \in Calls, Handle(c) \/ SendReply(c) \/ ReplyRaises(c)
      PROVE  CallTypes'
  BY <1>14, <1>a DEF Handle, SendReply, ReplyRaises
<1> QED
  BY <1>1, <1>2, <1>3, <1>4, <1>5, <1>6, <1>7, <1>8, <1>9, <1>10, <1>11, <1>12, <1>13, <1>14
     DEF Next

\* Types of the executors.
LEMMA WorkTypesStep ==
  ASSUME TypeOK, [Next]_vars
  PROVE  WorkTypes'
<1>a. WorkTypes
  BY DEF TypeOK
<1>b. \A k \in Conns : \A f \in wire[k] : f \in Frames /\ f.to \in {Dialer, k}
  BY DEF TypeOK, NetTypes
<1>c. Channels = Conns \cup {Dialer}
  BY DomainFacts DEF Dialer
<1> USE DEF WorkTypes, Replies, netVars, chanVars, recvVars, callVars, workVars
<1>1. CASE UNCHANGED vars
  BY <1>1, <1>a DEF vars
<1>2. CASE LoopTop \/ Hello \/ ConnectFail \/ Connected
  BY <1>2, <1>a DEF LoopTop, Hello, ConnectFail, Connected
<1>3. ASSUME NEW k \in Conns, Attach(k) \/ Reject(k) \/ Break(k)
      PROVE  WorkTypes'
  BY <1>3, <1>a DEF Attach, Reject, Break
<1>4. ASSUME NEW i \in Channels,
             \/ Close(i) \/ Ping(i) \/ PingRaises(i) \/ Deliver(i)
             \/ RecvFails(i) \/ Drop(i) \/ WakeRaises(i) \/ LoopEnds(i)
      PROVE  WorkTypes'
  BY <1>4, <1>a DEF Close, Ping, PingRaises, Deliver, RecvFails, Drop, WakeRaises, LoopEnds
<1>5. ASSUME NEW i \in Channels, NEW c \in Calls, WakeOne(i, c)
      PROVE  WorkTypes'
  BY <1>5, <1>a DEF WakeOne
<1>6. ASSUME NEW k \in Conns, NEW f \in wire[k], Request(f.to, f)
      PROVE  WorkTypes'
  BY <1>6, <1>a, <1>b, <1>c DEF Request
<1>7. ASSUME NEW k \in Conns, NEW f \in wire[k], Match(f.to, f) \/ Stray(f.to, f) \/ Pinged(f.to, f)
      PROVE  WorkTypes'
  BY <1>7, <1>a DEF Match, Stray, Answer, Pinged
<1>8. ASSUME NEW c \in Calls, Handle(c)
      PROVE  WorkTypes'
  BY <1>8, <1>a DEF Handle
<1>9. ASSUME NEW c \in Calls, SendReply(c)
      PROVE  WorkTypes'
  BY <1>9, <1>a DEF SendReply
<1>10. ASSUME NEW c \in Calls, ReplyRaises(c)
      PROVE  WorkTypes'
  BY <1>10, <1>a DEF ReplyRaises
<1>11. ASSUME NEW c \in Calls,
              \/ GetChannel(c) \/ Register(c) \/ ReadSocket(c) \/ Send(c)
              \/ SendRaises(c) \/ Return(c)
      PROVE  WorkTypes'
  BY <1>11, <1>a DEF GetChannel, Register, ReadSocket, Send, SendRaises, Return
<1> QED
  BY <1>1, <1>2, <1>3, <1>4, <1>5, <1>6, <1>7, <1>8, <1>9, <1>10, <1>11 DEF Next

\* The receive threads follow the connections.
LEMMA NotOpenedYetStep ==
  ASSUME TypeOK, NotOpenedYet, [Next]_vars
  PROVE  NotOpenedYet'
<1>a. Channels = Conns \cup {0} /\ 0 \notin Conns /\ Conns \subseteq Int
  BY DomainFacts
<1>b. conn \in Channels /\ at \in [Channels -> RecvStates]
  BY DEF TypeOK, NetTypes, RecvTypes
<1>c. \A k \in Conns : \A f \in wire[k] : f \in Frames /\ f.to \in {0, k}
  BY DEF TypeOK, NetTypes, Dialer
<1> USE DEF Dialer, NotOpenedYet, netVars, chanVars, recvVars, callVars, workVars
<1>1. CASE UNCHANGED vars
  BY <1>1 DEF vars
<1>2. CASE LoopTop
  BY <1>2 DEF LoopTop
<1>3. CASE Hello
  <2>1. conn + 1 \in Conns
    BY <1>3, ChannelAssumption, <1>b DEF Hello, Channels, Conns
  <2> QED
    BY <1>3, <2>1, <1>a, <1>b DEF Hello
<1>4. CASE ConnectFail
  BY <1>4 DEF ConnectFail
<1>5. CASE Connected
  BY <1>5 DEF Connected
<1>6. ASSUME NEW k \in Conns, Attach(k)
      PROVE  NotOpenedYet'
  BY <1>6 DEF Attach
<1>7. ASSUME NEW k \in Conns, Reject(k)
      PROVE  NotOpenedYet'
  BY <1>7 DEF Reject
<1>8. ASSUME NEW k \in Conns, Break(k)
      PROVE  NotOpenedYet'
  BY <1>8 DEF Break
<1>9. ASSUME NEW i \in Channels, Deliver(i)
      PROVE  NotOpenedYet'
  BY <1>9, <1>a, <1>b DEF Deliver, Crash
<1>10. ASSUME NEW i \in Channels, RecvFails(i)
      PROVE  NotOpenedYet'
  BY <1>10 DEF RecvFails
<1>11. ASSUME NEW i \in Channels, Drop(i)
      PROVE  NotOpenedYet'
  BY <1>11 DEF Drop
<1>12. ASSUME NEW i \in Channels, WakeRaises(i)
      PROVE  NotOpenedYet'
  BY <1>12 DEF WakeRaises, Crash
<1>13. ASSUME NEW i \in Channels, LoopEnds(i)
      PROVE  NotOpenedYet'
  BY <1>13 DEF LoopEnds
<1>14. ASSUME NEW i \in Channels, Close(i) \/ Ping(i) \/ PingRaises(i)
      PROVE  NotOpenedYet'
  BY <1>14 DEF Close, Ping, PingRaises
<1>15. ASSUME NEW i \in Channels, NEW c \in Calls, WakeOne(i, c)
      PROVE  NotOpenedYet'
  BY <1>15 DEF WakeOne
<1>16. ASSUME NEW k \in Conns, NEW f \in wire[k], Match(f.to, f)
      PROVE  NotOpenedYet'
  BY <1>16 DEF Match, Takes
<1>17. ASSUME NEW k \in Conns, NEW f \in wire[k], Request(f.to, f)
      PROVE  NotOpenedYet'
  BY <1>17, <1>a, <1>b DEF Request, Takes, Crash
<1>18. ASSUME NEW k \in Conns, NEW f \in wire[k], Stray(f.to, f)
      PROVE  NotOpenedYet'
  BY <1>18, <1>a, <1>b DEF Stray, Takes, Answer, Crash
<1>19. ASSUME NEW k \in Conns, NEW f \in wire[k], Pinged(f.to, f)
      PROVE  NotOpenedYet'
  BY <1>19, <1>a, <1>b DEF Pinged, Takes, Answer, Crash
<1>20. ASSUME NEW c \in Calls,
              \/ GetChannel(c) \/ Register(c) \/ ReadSocket(c) \/ Send(c)
              \/ SendRaises(c) \/ Return(c) \/ Handle(c) \/ SendReply(c)
              \/ ReplyRaises(c)
      PROVE  NotOpenedYet'
  BY <1>20
     DEF GetChannel, Register, ReadSocket, Send, SendRaises, Return, Handle, SendReply,
         ReplyRaises
<1> QED
  BY <1>1, <1>2, <1>3, <1>4, <1>5, <1>6, <1>7, <1>8, <1>9, <1>10, <1>11, <1>12, <1>13, <1>14,
     <1>15, <1>16, <1>17, <1>18, <1>19, <1>20
     DEF Next

\* A socket is dropped by the thread that stops reading it.
LEMMA SocketHasReaderStep ==
  ASSUME TypeOK, NotOpenedYet, SocketHasReader, [Next]_vars
  PROVE  SocketHasReader'
<1>a. Channels = Conns \cup {0} /\ 0 \notin Conns /\ Conns \subseteq Int
  BY DomainFacts
<1>b. conn \in Channels /\ at \in [Channels -> RecvStates] /\ ws \in [Channels -> Channels] /\ reg \in Channels
  BY DEF TypeOK, NetTypes, ChanTypes, RecvTypes
<1>c. \A k \in Conns : \A f \in wire[k] : f \in Frames /\ f.to \in {0, k}
  BY DEF TypeOK, NetTypes, Dialer
<1>d. chan \in [Calls -> Channels] /\ worker \in [Calls -> Channels]
  BY DEF TypeOK, CallTypes, WorkTypes
<1> USE DEF Dialer, NoSock, SocketHasReader, NotOpenedYet, Sock, netVars, chanVars, recvVars,
            callVars, workVars
<1>1. CASE UNCHANGED vars
  BY <1>1 DEF vars
<1>2. CASE LoopTop
  BY <1>2 DEF LoopTop
<1>3. CASE Hello
  <2>1. conn + 1 \in Conns
    BY <1>3, ChannelAssumption, <1>b DEF Hello, Channels, Conns
  <2> QED
    BY <1>3, <2>1, <1>a, <1>b DEF Hello
<1>4. CASE ConnectFail
  BY <1>4 DEF ConnectFail
<1>5. CASE Connected
  BY <1>5, <1>b DEF Connected
<1>6. ASSUME NEW k \in Conns, Attach(k)
      PROVE  SocketHasReader'
  BY <1>6, <1>b DEF Attach
<1>7. ASSUME NEW k \in Conns, Reject(k)
      PROVE  SocketHasReader'
  BY <1>7 DEF Reject
<1>8. ASSUME NEW k \in Conns, Break(k)
      PROVE  SocketHasReader'
  BY <1>8 DEF Break
<1>9. ASSUME NEW i \in Channels, Close(i)
      PROVE  SocketHasReader'
  BY <1>9 DEF Close
<1>10. ASSUME NEW i \in Channels, PingRaises(i)
      PROVE  SocketHasReader'
  BY <1>10 DEF PingRaises
<1>11. ASSUME NEW i \in Channels, Deliver(i)
      PROVE  SocketHasReader'
  BY <1>11, <1>b DEF Deliver, Crash, LoopNext
<1>12. ASSUME NEW i \in Channels, RecvFails(i)
      PROVE  SocketHasReader'
  BY <1>12 DEF RecvFails
<1>13. ASSUME NEW i \in Channels, Drop(i)
      PROVE  SocketHasReader'
  BY <1>13, <1>b DEF Drop
<1>14. ASSUME NEW i \in Channels, WakeRaises(i)
      PROVE  SocketHasReader'
  BY <1>14 DEF WakeRaises, Crash
<1>15. ASSUME NEW i \in Channels, LoopEnds(i)
      PROVE  SocketHasReader'
  BY <1>15 DEF LoopEnds
<1>16. ASSUME NEW i \in Channels, Ping(i)
      PROVE  SocketHasReader'
  BY <1>16 DEF Ping
<1>17. ASSUME NEW i \in Channels, NEW c \in Calls, WakeOne(i, c)
      PROVE  SocketHasReader'
  BY <1>17 DEF WakeOne
<1>18. ASSUME NEW k \in Conns, NEW f \in wire[k], Match(f.to, f)
      PROVE  SocketHasReader'
  BY <1>18 DEF Match
<1>19. ASSUME NEW k \in Conns, NEW f \in wire[k], Request(f.to, f)
      PROVE  SocketHasReader'
  BY <1>19, <1>b DEF Request, Crash, LoopNext
<1>20. ASSUME NEW k \in Conns, NEW f \in wire[k], Stray(f.to, f)
      PROVE  SocketHasReader'
  BY <1>20, <1>b DEF Stray, Answer, Crash, LoopNext
<1>21. ASSUME NEW k \in Conns, NEW f \in wire[k], Pinged(f.to, f)
      PROVE  SocketHasReader'
  BY <1>21, <1>b DEF Pinged, Answer, Crash, LoopNext
<1>22. ASSUME NEW c \in Calls, SendRaises(c)
      PROVE  SocketHasReader'
  BY <1>22 DEF SendRaises
<1>23. ASSUME NEW c \in Calls, ReplyRaises(c)
      PROVE  SocketHasReader'
  BY <1>23 DEF ReplyRaises
<1>24. ASSUME NEW c \in Calls,
              \/ GetChannel(c) \/ Register(c) \/ ReadSocket(c) \/ Send(c)
              \/ Return(c) \/ Handle(c) \/ SendReply(c)
      PROVE  SocketHasReader'
  BY <1>24 DEF GetChannel, Register, ReadSocket, Send, Return, Handle, SendReply
<1> QED
  BY <1>1, <1>2, <1>3, <1>4, <1>5, <1>6, <1>7, <1>8, <1>9, <1>10, <1>11, <1>12, <1>13, <1>14,
     <1>15, <1>16, <1>17, <1>18, <1>19, <1>20, <1>21, <1>22, <1>23, <1>24
     DEF Next

\* _pending changes at the hands of the callers only.
LEMMA PendingIsCallersStep ==
  ASSUME TypeOK, PendingIsCallers, [Next]_vars
  PROVE  PendingIsCallers'
<1>a. Channels = Conns \cup {0} /\ 0 \notin Conns /\ Conns \subseteq Int
  BY DomainFacts
<1>b. /\ pending \in [Channels -> SUBSET Calls] /\ pc \in [Calls -> CallStates]
      /\ chan \in [Calls -> Channels] /\ reg \in Channels
  BY DEF TypeOK, NetTypes, CallTypes
<1> USE DEF PendingIsCallers, netVars, chanVars, recvVars, callVars, workVars
<1>1. CASE UNCHANGED vars
  BY <1>1 DEF vars
<1>2. CASE LoopTop \/ Hello \/ ConnectFail \/ Connected
  BY <1>2 DEF LoopTop, Hello, ConnectFail, Connected
<1>3. ASSUME NEW k \in Conns, Attach(k) \/ Reject(k) \/ Break(k)
      PROVE  PendingIsCallers'
  BY <1>3 DEF Attach, Reject, Break
<1>4. ASSUME NEW i \in Channels,
             \/ Close(i) \/ Ping(i) \/ PingRaises(i) \/ Deliver(i)
             \/ RecvFails(i) \/ Drop(i) \/ WakeRaises(i) \/ LoopEnds(i)
      PROVE  PendingIsCallers'
  BY <1>4 DEF Close, Ping, PingRaises, Deliver, RecvFails, Drop, WakeRaises, LoopEnds
<1>5. ASSUME NEW i \in Channels, NEW c \in Calls, WakeOne(i, c)
      PROVE  PendingIsCallers'
  BY <1>5 DEF WakeOne
<1>6. ASSUME NEW k \in Conns, NEW f \in wire[k],
             \/ Match(f.to, f) \/ Request(f.to, f) \/ Stray(f.to, f) \/ Pinged(f.to, f)
      PROVE  PendingIsCallers'
  BY <1>6 DEF Match, Request, Stray, Answer, Pinged
<1>7. ASSUME NEW c \in Calls, GetChannel(c)
      PROVE  PendingIsCallers'
  BY <1>7 DEF GetChannel
<1>8. ASSUME NEW c \in Calls, Register(c)
      PROVE  PendingIsCallers'
  BY <1>8, <1>b DEF Register
<1>9. ASSUME NEW c \in Calls, ReadSocket(c)
      PROVE  PendingIsCallers'
  BY <1>9 DEF ReadSocket
<1>10. ASSUME NEW c \in Calls, Send(c)
      PROVE  PendingIsCallers'
  BY <1>10 DEF Send
<1>11. ASSUME NEW c \in Calls, SendRaises(c)
      PROVE  PendingIsCallers'
  BY <1>11 DEF SendRaises
<1>12. ASSUME NEW c \in Calls, Return(c)
      PROVE  PendingIsCallers'
  BY <1>12, <1>b DEF Return
<1>13. ASSUME NEW c \in Calls, Handle(c) \/ SendReply(c) \/ ReplyRaises(c)
      PROVE  PendingIsCallers'
  BY <1>13 DEF Handle, SendReply, ReplyRaises
<1> QED
  BY <1>1, <1>2, <1>3, <1>4, <1>5, <1>6, <1>7, <1>8, <1>9, <1>10, <1>11, <1>12, <1>13 DEF Next

\* The heart of NoCallerStranded: the channel a call waits on is never left
\* behind without waking the call.
LEMMA SomeoneWakesStep ==
  ASSUME TypeOK, NotOpenedYet, SocketHasReader, PendingIsCallers, SomeoneWakes, [Next]_vars
  PROVE  SomeoneWakes'
<1>a. Channels = Conns \cup {0} /\ 0 \notin Conns /\ Conns \subseteq Int
  BY DomainFacts
<1>b. conn \in Channels /\ at \in [Channels -> RecvStates] /\ woken \in [Channels -> SUBSET Calls]
  BY DEF TypeOK, NetTypes, RecvTypes
<1>c. \A k \in Conns : \A f \in wire[k] : f \in Frames /\ f.to \in {0, k}
  BY DEF TypeOK, NetTypes, Dialer
<1>d. /\ pending \in [Channels -> SUBSET Calls] /\ pc \in [Calls -> CallStates]
      /\ chan \in [Calls -> Channels] /\ csock \in [Calls -> Channels] /\ fired \in [Calls -> BOOLEAN]
  BY DEF TypeOK, CallTypes
<1> USE DEF Dialer, NoSock, NoChan, SomeoneWakes, HasWaker, SocketHasReader, NotOpenedYet,
            PendingIsCallers, Sock, netVars, chanVars, recvVars, callVars, workVars
<1>1. CASE UNCHANGED vars
  BY <1>1 DEF vars
<1>2. CASE LoopTop
  BY <1>2, <1>a, <1>b, <1>c, <1>d DEF LoopTop
<1>3. CASE Hello
  <2> SUFFICES ASSUME NEW d \in Calls, pc'[d] \in {"sending", "waiting"}, ~fired'[d]
               PROVE  HasWaker(d)'
    BY DEF SomeoneWakes
  <2>1. conn + 1 \in Conns
    BY <1>3, ChannelAssumption, <1>b DEF Hello, Channels, Conns
  <2>2. pc[d] \in {"sending", "waiting"} /\ ~fired[d] /\ HasWaker(d)
    BY <1>3 DEF Hello
  <2>3. chan[d] # Dialer
    BY <1>3, <2>2 DEF Hello
  <2>4. at[conn + 1] = "off" /\ chan[d] # conn + 1
    BY <1>3, <2>1, <2>2, <1>a, <1>b DEF Hello
  <2> QED
    BY <1>3, <2>1, <2>2, <2>3, <2>4, <1>a, <1>b, <1>d DEF Hello
<1>4. CASE ConnectFail
  BY <1>4, <1>a, <1>b, <1>c, <1>d DEF ConnectFail
<1>5. CASE Connected
  BY <1>5, <1>a, <1>b, <1>c, <1>d DEF Connected
<1>6. ASSUME NEW k \in Conns, Attach(k)
      PROVE  SomeoneWakes'
  BY <1>6, <1>a, <1>b, <1>c, <1>d DEF Attach
<1>7. ASSUME NEW k \in Conns, Reject(k)
      PROVE  SomeoneWakes'
  BY <1>7, <1>a, <1>b, <1>c, <1>d DEF Reject
<1>8. ASSUME NEW k \in Conns, Break(k)
      PROVE  SomeoneWakes'
  BY <1>8 DEF Break
<1>9. ASSUME NEW i \in Channels, Deliver(i)
      PROVE  SomeoneWakes'
  <2> SUFFICES ASSUME NEW d \in Calls, pc'[d] \in {"sending", "waiting"}, ~fired'[d]
               PROVE  HasWaker(d)'
    BY DEF SomeoneWakes
  <2>1. pc[d] \in {"sending", "waiting"} /\ ~fired[d] /\ HasWaker(d)
    BY <1>9, <1>a, <1>b, <1>c, <1>d DEF Deliver
  <2>2. at[i] = "matched" /\ at'[i] \in {"recv", "drop", "crashed"}
    BY <1>9, <1>a, <1>b, <1>c, <1>d DEF Deliver, Crash, LoopNext
  <2>3. \A j \in Channels : j # i => at'[j] = at[j]
    BY <1>9, <1>a, <1>b, <1>c, <1>d DEF Deliver, Crash, LoopNext
  <2> QED
    BY <1>9, <2>1, <2>2, <2>3, <1>a, <1>b, <1>d DEF Deliver
<1>10. ASSUME NEW i \in Channels, RecvFails(i)
      PROVE  SomeoneWakes'
  BY <1>10, <1>a, <1>b, <1>c, <1>d DEF RecvFails
<1>11. ASSUME NEW i \in Channels, Drop(i)
      PROVE  SomeoneWakes'
  BY <1>11, <1>a, <1>b, <1>c, <1>d DEF Drop
<1>12. ASSUME NEW i \in Channels, WakeRaises(i)
      PROVE  SomeoneWakes'
  BY <1>12, <1>a, <1>b, <1>c, <1>d DEF WakeRaises, SameSize, Crash
<1>13. ASSUME NEW i \in Channels, LoopEnds(i)
      PROVE  SomeoneWakes'
  BY <1>13, <1>a, <1>b, <1>c, <1>d DEF LoopEnds, SameSize
<1>14. ASSUME NEW i \in Channels, Close(i) \/ Ping(i) \/ PingRaises(i)
      PROVE  SomeoneWakes'
  BY <1>14 DEF Close, Ping, PingRaises
<1>15. ASSUME NEW i \in Channels, NEW c \in Calls, WakeOne(i, c)
      PROVE  SomeoneWakes'
  BY <1>15, <1>a, <1>b, <1>c, <1>d DEF WakeOne, SameSize
<1>16. ASSUME NEW k \in Conns, NEW f \in wire[k], Match(f.to, f)
      PROVE  SomeoneWakes'
  BY <1>16, <1>a, <1>b, <1>c, <1>d DEF Match, Takes, Without
<1>17. ASSUME NEW k \in Conns, NEW f \in wire[k], Request(f.to, f)
      PROVE  SomeoneWakes'
  <2> SUFFICES ASSUME NEW d \in Calls, pc'[d] \in {"sending", "waiting"}, ~fired'[d]
               PROVE  HasWaker(d)'
    BY DEF SomeoneWakes
  <2>1. pc[d] \in {"sending", "waiting"} /\ ~fired[d] /\ HasWaker(d)
    BY <1>17 DEF Request
  <2>2. f.to \in Channels /\ at[f.to] = "recv" /\ at'[f.to] \in {"recv", "drop", "crashed"}
    BY <1>17, <1>a, <1>b, <1>c, <1>d DEF Request, Takes, Without, Crash, LoopNext
  <2>3. \A i \in Channels : i # f.to => at'[i] = at[i]
    BY <1>17, <1>a, <1>b, <1>c, <1>d DEF Request, Takes, Without, Crash, LoopNext
  <2> QED
    BY <1>17, <2>1, <2>2, <2>3, <1>a, <1>b, <1>d DEF Request
<1>18. ASSUME NEW k \in Conns, NEW f \in wire[k], Stray(f.to, f)
      PROVE  SomeoneWakes'
  <2> SUFFICES ASSUME NEW d \in Calls, pc'[d] \in {"sending", "waiting"}, ~fired'[d]
               PROVE  HasWaker(d)'
    BY DEF SomeoneWakes
  <2>1. pc[d] \in {"sending", "waiting"} /\ ~fired[d] /\ HasWaker(d)
    BY <1>18 DEF Stray, Answer
  <2>2. f.to \in Channels /\ at[f.to] = "recv" /\ at'[f.to] \in {"recv", "drop", "crashed"}
    BY <1>18, <1>a, <1>b, <1>c, <1>d
       DEF Stray, Takes, Without, Answer, Broken, Crash, LoopNext, Sent, Frame
  <2>3. \A i \in Channels : i # f.to => at'[i] = at[i]
    BY <1>18, <1>a, <1>b, <1>c, <1>d
       DEF Stray, Takes, Without, Answer, Broken, Crash, LoopNext, Sent, Frame
  <2> QED
    BY <1>18, <2>1, <2>2, <2>3, <1>a, <1>b, <1>d DEF Stray, Answer
<1>19. ASSUME NEW k \in Conns, NEW f \in wire[k], Pinged(f.to, f)
      PROVE  SomeoneWakes'
  <2> SUFFICES ASSUME NEW d \in Calls, pc'[d] \in {"sending", "waiting"}, ~fired'[d]
               PROVE  HasWaker(d)'
    BY DEF SomeoneWakes
  <2>1. pc[d] \in {"sending", "waiting"} /\ ~fired[d] /\ HasWaker(d)
    BY <1>19 DEF Pinged, Answer
  <2>2. f.to \in Channels /\ at[f.to] = "recv" /\ at'[f.to] \in {"recv", "drop", "crashed"}
    BY <1>19, <1>a, <1>b, <1>c, <1>d DEF Pinged, Takes, Without, Answer, Broken, Crash, LoopNext
  <2>3. \A i \in Channels : i # f.to => at'[i] = at[i]
    BY <1>19, <1>a, <1>b, <1>c, <1>d DEF Pinged, Takes, Without, Answer, Broken, Crash, LoopNext
  <2> QED
    BY <1>19, <2>1, <2>2, <2>3, <1>a, <1>b, <1>d DEF Pinged, Answer
<1>20. ASSUME NEW c \in Calls, GetChannel(c)
      PROVE  SomeoneWakes'
  BY <1>20, <1>a, <1>b, <1>c, <1>d DEF GetChannel, Caller
<1>21. ASSUME NEW c \in Calls, Register(c)
      PROVE  SomeoneWakes'
  BY <1>21, <1>a, <1>b, <1>c, <1>d DEF Register
<1>22. ASSUME NEW c \in Calls, ReadSocket(c)
      PROVE  SomeoneWakes'
  <2> SUFFICES ASSUME NEW d \in Calls, pc'[d] \in {"sending", "waiting"}, ~fired'[d]
               PROVE  HasWaker(d)'
    BY DEF SomeoneWakes
  <2>1. CASE d # c
    BY <1>22, <2>1, <1>a, <1>b, <1>d DEF ReadSocket
  <2>2. CASE d = c
    <3>1. ws[chan[c]] # NoSock /\ csock'[c] = ws[chan[c]]
      BY <1>22, <2>2, <1>d DEF ReadSocket
    <3>2. ws[chan[c]] = Sock(chan[c]) /\ at[chan[c]] \in {"recv", "matched", "drop", "crashed"}
      BY <3>1, <1>d
    <3> QED
      BY <1>22, <2>2, <3>1, <3>2 DEF ReadSocket
  <2> QED
    BY <2>1, <2>2
<1>23. ASSUME NEW c \in Calls, Send(c)
      PROVE  SomeoneWakes'
  BY <1>23, <1>a, <1>b, <1>c, <1>d DEF Send, Sent, Frame
<1>24. ASSUME NEW c \in Calls, SendRaises(c)
      PROVE  SomeoneWakes'
  BY <1>24, <1>a, <1>b, <1>c, <1>d DEF SendRaises
<1>25. ASSUME NEW c \in Calls, Return(c)
      PROVE  SomeoneWakes'
  BY <1>25, <1>a, <1>b, <1>c, <1>d DEF Return
<1>26. ASSUME NEW c \in Calls, Handle(c) \/ SendReply(c) \/ ReplyRaises(c)
      PROVE  SomeoneWakes'
  BY <1>26 DEF Handle, SendReply, ReplyRaises
<1> QED
  BY <1>1, <1>2, <1>3, <1>4, <1>5, <1>6, <1>7, <1>8, <1>9, <1>10, <1>11, <1>12, <1>13, <1>14,
     <1>15, <1>16, <1>17, <1>18, <1>19, <1>20, <1>21, <1>22, <1>23, <1>24, <1>25, <1>26
     DEF Next

\* A request is sent once and handed to an executor once.
LEMMA RequestsAreFreshStep ==
  ASSUME TypeOK, NotOpenedYet, SocketHasReader, RequestsAreFresh, [Next]_vars
  PROVE  RequestsAreFresh'
<1>a. Channels = Conns \cup {0} /\ 0 \notin Conns /\ Conns \subseteq Int
  BY DomainFacts
<1>b. /\ conn \in Channels /\ wire \in [Conns -> SUBSET Frames]
      /\ \A k \in Conns : \A f \in wire[k] : f.to \in {Dialer, k} /\ (f.kind = "ping" <=> f.id = NoCall)
  BY DEF TypeOK, NetTypes
<1>c. /\ pc \in [Calls -> CallStates] /\ exec \in [Calls -> {"none", "queued", "returned", "raised"}]
      /\ chan \in [Calls -> Channels] /\ csock \in [Calls -> Channels]
  BY DEF TypeOK, CallTypes, WorkTypes
<1>d. /\ ws \in [Channels -> Channels] /\ reply \in [Calls -> {"none"} \cup Replies]
      /\ worker \in [Calls -> Channels] /\ reg \in Channels
  BY DEF TypeOK, ChanTypes, WorkTypes, NetTypes
<1> USE DEF RequestsAreFresh, Frames, Frame, Replies, NotOpenedYet, Sock, netVars, chanVars,
            recvVars, callVars, workVars
<1>1. CASE UNCHANGED vars
  BY <1>1 DEF vars
<1>2. CASE LoopTop \/ Hello \/ ConnectFail \/ Connected
  BY <1>2 DEF LoopTop, Hello, ConnectFail, Connected
<1>3. ASSUME NEW k \in Conns, Attach(k) \/ Reject(k) \/ Break(k)
      PROVE  RequestsAreFresh'
  BY <1>3 DEF Attach, Reject, Break
<1>4. ASSUME NEW i \in Channels, Ping(i)
      PROVE  RequestsAreFresh'
  BY <1>4 DEF Ping, Sent
<1>5. ASSUME NEW i \in Channels, Drop(i)
      PROVE  RequestsAreFresh'
  BY <1>5 DEF Drop
<1>6. ASSUME NEW i \in Channels,
             \/ Close(i) \/ PingRaises(i) \/ Deliver(i) \/ RecvFails(i)
             \/ WakeRaises(i) \/ LoopEnds(i)
      PROVE  RequestsAreFresh'
  BY <1>6 DEF Close, PingRaises, Deliver, RecvFails, WakeRaises, LoopEnds
<1>7. ASSUME NEW i \in Channels, NEW c \in Calls, WakeOne(i, c)
      PROVE  RequestsAreFresh'
  BY <1>7 DEF WakeOne
<1>8. ASSUME NEW k \in Conns, NEW f \in wire[k], Match(f.to, f)
      PROVE  RequestsAreFresh'
  BY <1>8 DEF Match, Without
<1>9. ASSUME NEW k \in Conns, NEW f \in wire[k], Request(f.to, f)
      PROVE  RequestsAreFresh'
  BY <1>9, <1>a, <1>b, <1>c DEF Request, Takes, Without
<1>10. ASSUME NEW k \in Conns, NEW f \in wire[k], Stray(f.to, f)
      PROVE  RequestsAreFresh'
  BY <1>10, <1>b DEF Stray, Without, Answer
<1>11. ASSUME NEW k \in Conns, NEW f \in wire[k], Pinged(f.to, f)
      PROVE  RequestsAreFresh'
  BY <1>11, <1>b DEF Pinged, Without, Answer
<1>12. ASSUME NEW c \in Calls, GetChannel(c)
      PROVE  RequestsAreFresh'
  BY <1>12 DEF GetChannel
<1>13. ASSUME NEW c \in Calls, Register(c)
      PROVE  RequestsAreFresh'
  BY <1>13 DEF Register
<1>14. ASSUME NEW c \in Calls, ReadSocket(c)
      PROVE  RequestsAreFresh'
  BY <1>14 DEF ReadSocket
<1>15. ASSUME NEW c \in Calls, Send(c)
      PROVE  RequestsAreFresh'
  BY <1>15, <1>c DEF Send, Sent
<1>16. ASSUME NEW c \in Calls, SendRaises(c)
      PROVE  RequestsAreFresh'
  BY <1>16 DEF SendRaises
<1>17. ASSUME NEW c \in Calls, Return(c)
      PROVE  RequestsAreFresh'
  BY <1>17 DEF Return
<1>18. ASSUME NEW c \in Calls, Handle(c)
      PROVE  RequestsAreFresh'
  BY <1>18, <1>b, <1>c DEF Handle
<1>19. ASSUME NEW c \in Calls, SendReply(c)
      PROVE  RequestsAreFresh'
  BY <1>19, <1>d DEF SendReply, Sent
<1>20. ASSUME NEW c \in Calls, ReplyRaises(c)
      PROVE  RequestsAreFresh'
  BY <1>20 DEF ReplyRaises
<1> QED
  BY <1>1, <1>2, <1>3, <1>4, <1>5, <1>6, <1>7, <1>8, <1>9, <1>10, <1>11, <1>12, <1>13, <1>14,
     <1>15, <1>16, <1>17, <1>18, <1>19, <1>20
     DEF Next

\* What travels back as "ok" comes from a handler that returned.
LEMMA AnswersAreHandlersStep ==
  ASSUME TypeOK, NotOpenedYet, SocketHasReader, RequestsAreFresh, AnswersAreHandlers, [Next]_vars
  PROVE  AnswersAreHandlers'
<1>a. Channels = Conns \cup {0} /\ 0 \notin Conns /\ Conns \subseteq Int
  BY DomainFacts
<1>b. /\ conn \in Channels /\ wire \in [Conns -> SUBSET Frames]
      /\ \A k \in Conns : \A f \in wire[k] : f.to \in {Dialer, k} /\ (f.kind = "ping" <=> f.id = NoCall)
  BY DEF TypeOK, NetTypes
<1>c. /\ held \in [Channels -> Frames] /\ pending \in [Channels -> SUBSET Calls]
      /\ exec \in [Calls -> {"none", "queued", "returned", "raised"}]
      /\ result \in [Calls -> {"none"} \cup Replies] /\ reply \in [Calls -> {"none"} \cup Replies]
  BY DEF TypeOK, RecvTypes, CallTypes, WorkTypes
<1>d. ws \in [Channels -> Channels] /\ worker \in [Calls -> Channels] /\ csock \in [Calls -> Channels]
  BY DEF TypeOK, ChanTypes, CallTypes, WorkTypes
<1> USE DEF AnswersAreHandlers, RequestsAreFresh, Frames, Frame, Nothing, netVars, chanVars,
            recvVars, callVars, workVars
<1>1. CASE UNCHANGED vars
  BY <1>1 DEF vars
<1>2. CASE LoopTop \/ Hello \/ ConnectFail \/ Connected
  BY <1>2 DEF LoopTop, Hello, ConnectFail, Connected
<1>3. ASSUME NEW k \in Conns, Attach(k) \/ Reject(k) \/ Break(k)
      PROVE  AnswersAreHandlers'
  BY <1>3 DEF Attach, Reject, Break
<1>4. ASSUME NEW i \in Channels, Ping(i)
      PROVE  AnswersAreHandlers'
  BY <1>4 DEF Ping, Sent
<1>5. ASSUME NEW i \in Channels, Deliver(i)
      PROVE  AnswersAreHandlers'
  BY <1>5, <1>c DEF Deliver
<1>6. ASSUME NEW i \in Channels, Drop(i)
      PROVE  AnswersAreHandlers'
  BY <1>6 DEF Drop
<1>7. ASSUME NEW i \in Channels,
             \/ Close(i) \/ PingRaises(i) \/ RecvFails(i) \/ WakeRaises(i)
             \/ LoopEnds(i)
      PROVE  AnswersAreHandlers'
  BY <1>7 DEF Close, PingRaises, RecvFails, WakeRaises, LoopEnds
<1>8. ASSUME NEW i \in Channels, NEW c \in Calls, WakeOne(i, c)
      PROVE  AnswersAreHandlers'
  BY <1>8 DEF WakeOne
<1>9. ASSUME NEW k \in Conns, NEW f \in wire[k], Match(f.to, f)
      PROVE  AnswersAreHandlers'
  BY <1>9, <1>c DEF Match, Without
<1>10. ASSUME NEW k \in Conns, NEW f \in wire[k], Request(f.to, f)
      PROVE  AnswersAreHandlers'
  <2>1. \A j \in Conns : \A g \in wire'[j] : g.kind = "ok" => exec'[g.id] = "returned"
    BY <1>10, <1>b, <1>c DEF Request, Without
  <2>2. \A i \in Channels : held'[i].kind = "ok" =>
         held'[i].id \in Calls /\ exec'[held'[i].id] = "returned"
    BY <1>10, <1>c DEF Request
  <2>3. \A d \in Calls : result'[d] = "ok" \/ reply'[d] = "ok" => exec'[d] = "returned"
    BY <1>10, <1>c DEF Request
  <2> QED
    BY <2>1, <2>2, <2>3
<1>11. ASSUME NEW k \in Conns, NEW f \in wire[k], Stray(f.to, f)
      PROVE  AnswersAreHandlers'
  BY <1>11, <1>b DEF Stray, Without, Answer
<1>12. ASSUME NEW k \in Conns, NEW f \in wire[k], Pinged(f.to, f)
      PROVE  AnswersAreHandlers'
  BY <1>12, <1>b DEF Pinged, Without, Answer
<1>13. ASSUME NEW c \in Calls, Send(c)
      PROVE  AnswersAreHandlers'
  BY <1>13 DEF Send, Sent
<1>14. ASSUME NEW c \in Calls, Return(c)
      PROVE  AnswersAreHandlers'
  BY <1>14 DEF Return
<1>15. ASSUME NEW c \in Calls, Handle(c)
      PROVE  AnswersAreHandlers'
  <2>1. \A k \in Conns : \A g \in wire'[k] : g.kind = "ok" => exec'[g.id] = "returned"
    BY <1>15, <1>b, <1>c DEF Handle
  <2>2. \A i \in Channels : held'[i].kind = "ok" =>
         held'[i].id \in Calls /\ exec'[held'[i].id] = "returned"
    BY <1>15, <1>c DEF Handle
  <2>3. \A d \in Calls : result'[d] = "ok" \/ reply'[d] = "ok" => exec'[d] = "returned"
    BY <1>15, <1>c DEF Handle
  <2> QED
    BY <2>1, <2>2, <2>3
<1>16. ASSUME NEW c \in Calls, SendReply(c)
      PROVE  AnswersAreHandlers'
  BY <1>16 DEF SendReply, Sent
<1>17. ASSUME NEW c \in Calls, ReplyRaises(c)
      PROVE  AnswersAreHandlers'
  BY <1>17 DEF ReplyRaises
<1>18. ASSUME NEW c \in Calls, GetChannel(c) \/ Register(c) \/ ReadSocket(c) \/ SendRaises(c)
      PROVE  AnswersAreHandlers'
  BY <1>18 DEF GetChannel, Register, ReadSocket, SendRaises
<1> QED
  BY <1>1, <1>2, <1>3, <1>4, <1>5, <1>6, <1>7, <1>8, <1>9, <1>10, <1>11, <1>12, <1>13, <1>14,
     <1>15, <1>16, <1>17, <1>18
     DEF Next

\* A replaced channel is closed, and an ending one removes only itself.
LEMMA LiveIsRegisteredStep ==
  ASSUME TypeOK, NotOpenedYet, LiveIsRegistered, [Next]_vars
  PROVE  LiveIsRegistered'
<1>a. Channels = Conns \cup {0} /\ 0 \notin Conns /\ Conns \subseteq Int
  BY DomainFacts
<1>b. conn \in Channels /\ at \in [Channels -> RecvStates] /\ running \in [Channels -> BOOLEAN] /\ reg \in Channels
  BY DEF TypeOK, NetTypes, ChanTypes, RecvTypes
<1>c. \A k \in Conns : \A f \in wire[k] : f \in Frames /\ f.to \in {0, k}
  BY DEF TypeOK, NetTypes, Dialer
<1> USE DEF Dialer, NoChan, LiveIsRegistered, netVars, chanVars, recvVars, callVars, workVars
<1>1. CASE UNCHANGED vars
  BY <1>1 DEF vars
<1>2. CASE LoopTop
  BY <1>2 DEF LoopTop
<1>3. CASE Hello
  <2>1. conn + 1 \in Conns
    BY <1>3, ChannelAssumption, <1>b DEF Hello, Channels, Conns
  <2> QED
    BY <1>3, <2>1, <1>a, <1>b DEF Hello
<1>4. CASE ConnectFail
  BY <1>4 DEF ConnectFail
<1>5. CASE Connected
  BY <1>5, <1>a DEF Connected
<1>6. ASSUME NEW k \in Conns, Attach(k)
      PROVE  LiveIsRegistered'
  BY <1>6, <1>a, <1>b DEF Attach
<1>7. ASSUME NEW k \in Conns, Reject(k)
      PROVE  LiveIsRegistered'
  BY <1>7 DEF Reject
<1>8. ASSUME NEW k \in Conns, Break(k)
      PROVE  LiveIsRegistered'
  BY <1>8 DEF Break
<1>9. ASSUME NEW i \in Channels, Close(i)
      PROVE  LiveIsRegistered'
  BY <1>9, <1>b DEF Close
<1>10. ASSUME NEW i \in Channels, Deliver(i)
      PROVE  LiveIsRegistered'
  BY <1>10, <1>a, <1>b DEF Deliver, Crash
<1>11. ASSUME NEW i \in Channels, RecvFails(i)
      PROVE  LiveIsRegistered'
  BY <1>11 DEF RecvFails
<1>12. ASSUME NEW i \in Channels, Drop(i)
      PROVE  LiveIsRegistered'
  BY <1>12 DEF Drop
<1>13. ASSUME NEW i \in Channels, WakeRaises(i)
      PROVE  LiveIsRegistered'
  BY <1>13 DEF WakeRaises, Crash
<1>14. ASSUME NEW i \in Channels, LoopEnds(i)
      PROVE  LiveIsRegistered'
  BY <1>14 DEF LoopEnds
<1>15. ASSUME NEW i \in Channels, Ping(i) \/ PingRaises(i)
      PROVE  LiveIsRegistered'
  BY <1>15 DEF Ping, PingRaises
<1>16. ASSUME NEW i \in Channels, NEW c \in Calls, WakeOne(i, c)
      PROVE  LiveIsRegistered'
  BY <1>16 DEF WakeOne
<1>17. ASSUME NEW k \in Conns, NEW f \in wire[k], Match(f.to, f)
      PROVE  LiveIsRegistered'
  BY <1>17 DEF Match, Takes
<1>18. ASSUME NEW k \in Conns, NEW f \in wire[k], Request(f.to, f)
      PROVE  LiveIsRegistered'
  BY <1>18, <1>a, <1>b DEF Request, Takes, Crash
<1>19. ASSUME NEW k \in Conns, NEW f \in wire[k], Stray(f.to, f)
      PROVE  LiveIsRegistered'
  BY <1>19, <1>a, <1>b DEF Stray, Takes, Answer, Crash
<1>20. ASSUME NEW k \in Conns, NEW f \in wire[k], Pinged(f.to, f)
      PROVE  LiveIsRegistered'
  BY <1>20, <1>a, <1>b DEF Pinged, Takes, Answer, Crash
<1>21. ASSUME NEW c \in Calls,
              \/ GetChannel(c) \/ Register(c) \/ ReadSocket(c) \/ Send(c)
              \/ SendRaises(c) \/ Return(c) \/ Handle(c) \/ SendReply(c)
              \/ ReplyRaises(c)
      PROVE  LiveIsRegistered'
  BY <1>21
     DEF GetChannel, Register, ReadSocket, Send, SendRaises, Return, Handle, SendReply,
         ReplyRaises
<1> QED
  BY <1>1, <1>2, <1>3, <1>4, <1>5, <1>6, <1>7, <1>8, <1>9, <1>10, <1>11, <1>12, <1>13, <1>14,
     <1>15, <1>16, <1>17, <1>18, <1>19, <1>20, <1>21
     DEF Next

-----------------------------------------------------------------------------
\* However callers, workers, receive threads and close() interleave: every socket has
\* the thread that reads it, every caller its entry in _pending and somebody to wake
\* it, no request in flight has been handled, and an answer "ok" on its way is of a
\* handler that returned (call, connect_and_maintain, attach_inbound, _recv_loop).
THEOREM InductiveInvariant == Spec => []IInv
<1>1. Init => IInv
  BY InitIInv
<1>2. IInv /\ [Next]_vars => IInv'
  <2> SUFFICES ASSUME IInv, [Next]_vars PROVE IInv'
    OBVIOUS
  <2>1. TypeOK'
    BY NetTypesStep, ChanTypesStep, RecvTypesStep, CallTypesStep, WorkTypesStep DEF IInv, TypeOK
  <2>2. NotOpenedYet' /\ SocketHasReader' /\ PendingIsCallers' /\ SomeoneWakes'
    BY NotOpenedYetStep, SocketHasReaderStep, PendingIsCallersStep, SomeoneWakesStep DEF IInv
  <2>3. RequestsAreFresh' /\ AnswersAreHandlers' /\ LiveIsRegistered'
    BY RequestsAreFreshStep, AnswersAreHandlersStep, LiveIsRegisteredStep DEF IInv
  <2> QED
    BY <2>1, <2>2, <2>3 DEF IInv
<1> QED
  BY <1>1, <1>2, PTL DEF Spec

\* Every variable keeps its type through every action of the two agents.
THEOREM TypeCorrect == Spec => []TypeOK
<1>1. IInv => TypeOK
  BY DEF IInv
<1> QED
  BY <1>1, InductiveInvariant, PTL

\* No thread waits in call() with nobody left to wake it before its timeout,
\* unless the receive thread of its channel died of an exception.
THEOREM CallersAreWoken == Spec => []NoCallerStranded
<1>1. IInv => NoCallerStranded
  BY DEF IInv, SomeoneWakes, NoCallerStranded
<1> QED
  BY <1>1, InductiveInvariant, PTL

\* The channel that reads its socket is the one in peer_channels.
THEOREM OneLiveChannel == Spec => []LiveIsRegistered
<1>1. IInv => LiveIsRegistered
  BY DEF IInv
<1> QED
  BY <1>1, InductiveInvariant, PTL

-----------------------------------------------------------------------------
\* A step of one caller changes the outcome of its own call only.
LEMMA OutcomeStep ==
  ASSUME TypeOK, TypeOK', NEW c \in Calls, NEW p, pc' = [pc EXCEPT ![c] = p], exec' = exec,
         NEW o, o = Outcome'[c]
  PROVE  Handled' = Handled /\ Outcome' = [Outcome EXCEPT ![c] = o]
<1>1. pc \in [Calls -> CallStates]
  BY DEF TypeOK, CallTypes
<1>2. \A d \in Calls : d # c => Outcome'[d] = Outcome[d]
  BY <1>1 DEF Outcome
<1>3. Handled' = Handled
  BY DEF Handled
<1>4. Outcome = [d \in Calls |-> Outcome[d]] /\ Outcome' = [d \in Calls |-> Outcome'[d]]
  BY DEF Outcome
<1>5. Outcome' = [Outcome EXCEPT ![c] = o]
  BY <1>2, <1>4
<1> QED
  BY <1>3, <1>5

\* Every step is a step of RequestReply or leaves outcomes and handlers alone.
LEMMA RefineStep ==
  ASSUME IInv, IInv', [Next]_vars
  PROVE  [RR!Next]_<<Outcome, Handled>>
<1>a. /\ pc \in [Calls -> CallStates] /\ exec \in [Calls -> {"none", "queued", "returned", "raised"}]
      /\ result \in [Calls -> {"none"} \cup Replies] /\ fired \in [Calls -> BOOLEAN]
  BY DEF IInv, TypeOK, CallTypes, WorkTypes
<1>b. /\ pc' \in [Calls -> CallStates]
  BY DEF IInv, TypeOK, CallTypes, WorkTypes
<1> USE DEF netVars, chanVars, recvVars, callVars, workVars
<1>1. ASSUME pc' = pc, exec' = exec
      PROVE  UNCHANGED <<Outcome, Handled>>
  BY <1>1 DEF Outcome, Handled
<1>3. ASSUME NEW c \in Calls, GetChannel(c)
      PROVE  RR!Begin(c)
  <2>1. pc' = [pc EXCEPT ![c] = "open"] /\ exec' = exec /\ pc[c] = "idle"
    BY <1>3 DEF GetChannel
  <2>2. Outcome[c] = "idle" /\ Outcome'[c] = "open"
    BY <2>1, <1>a DEF Outcome
  <2> QED
    BY <2>1, <2>2, OutcomeStep DEF RR!Begin, IInv
<1>4. ASSUME NEW c \in Calls, Register(c) \/ Send(c)
      PROVE  UNCHANGED <<Outcome, Handled>>
  BY <1>4, <1>a DEF Register, Send, Outcome, Handled
<1>5. ASSUME NEW c \in Calls, ReadSocket(c) \/ SendRaises(c)
      PROVE  RR!Fail(c) \/ UNCHANGED <<Outcome, Handled>>
  <2>1. CASE pc'[c] = "failed"
    <3>1. pc' = [pc EXCEPT ![c] = "failed"] /\ exec' = exec /\ pc[c] \in {"registered", "sending"}
      BY <1>5, <2>1, <1>a DEF ReadSocket, SendRaises
    <3>2. Outcome[c] = "open" /\ Outcome'[c] = "failed"
      BY <3>1, <1>a DEF Outcome
    <3> QED
      BY <3>1, <3>2, OutcomeStep DEF RR!Fail, IInv
  <2>2. CASE pc'[c] # "failed"
    BY <1>5, <2>2, <1>a DEF ReadSocket, SendRaises, Outcome, Handled
  <2> QED
    BY <2>1, <2>2
<1>6. ASSUME NEW c \in Calls, Return(c)
      PROVE  RR!Return(c) \/ RR!Fail(c)
  <2>1. CASE pc'[c] = "ok"
    <3>1. pc' = [pc EXCEPT ![c] = "ok"] /\ exec' = exec /\ pc[c] = "waiting" /\ result[c] = "ok"
      BY <1>6, <2>1, <1>a DEF Return
    <3>2. Outcome[c] = "open" /\ Outcome'[c] = "ok"
      BY <3>1, <1>a DEF Outcome
    <3>3. Handled[c] = "returned"
      BY <3>1 DEF IInv, AnswersAreHandlers, Handled
    <3> QED
      BY <3>1, <3>2, <3>3, OutcomeStep DEF RR!Return, IInv
  <2>2. CASE pc'[c] # "ok"
    <3>1. pc' = [pc EXCEPT ![c] = "failed"] /\ exec' = exec /\ pc[c] = "waiting"
      BY <1>6, <2>2, <1>a DEF Return
    <3>2. Outcome[c] = "open" /\ Outcome'[c] = "failed"
      BY <3>1, <1>a DEF Outcome
    <3> QED
      BY <3>1, <3>2, OutcomeStep DEF RR!Fail, IInv
  <2> QED
    BY <2>1, <2>2
<1>7. ASSUME NEW c \in Calls, Handle(c)
      PROVE  RR!Handle(c)
  <2>1. exec[c] = "queued" /\ pc' = pc
    BY <1>7 DEF Handle
  <2>2. PICK r \in {"returned", "raised"} : exec' = [exec EXCEPT ![c] = r]
    BY <1>7 DEF Handle
  <2>3. Outcome' = Outcome /\ Outcome[c] # "idle" /\ Handled[c] = "no"
    BY <2>1 DEF Outcome, Handled, IInv, RequestsAreFresh
  <2>4. Handled' = [Handled EXCEPT ![c] = r]
    BY <2>2, <1>a DEF Handled
  <2> QED
    BY <2>3, <2>4 DEF RR!Handle
<1>8. ASSUME NEW k \in Conns, NEW f \in wire[k], Request(f.to, f)
      PROVE  UNCHANGED <<Outcome, Handled>>
  <2>1. pc' = pc /\ (exec' = exec \/ exec' = [exec EXCEPT ![f.id] = "queued"])
    BY <1>8 DEF Request
  <2>2. exec[f.id] = "none"
    BY <1>8 DEF Request, IInv, RequestsAreFresh
  <2> QED
    BY <2>1, <2>2, <1>a DEF Outcome, Handled
<1>9. CASE UNCHANGED vars
  BY <1>9, <1>1 DEF vars
<1>10. CASE LoopTop \/ Hello \/ ConnectFail \/ Connected
  BY <1>10, <1>1 DEF LoopTop, Hello, ConnectFail, Connected
<1>11. ASSUME NEW k \in Conns, Attach(k) \/ Reject(k) \/ Break(k)
       PROVE  UNCHANGED <<Outcome, Handled>>
  BY <1>11, <1>1 DEF Attach, Reject, Break
<1>12. ASSUME NEW i \in Channels,
              \/ Close(i) \/ Ping(i) \/ PingRaises(i) \/ Deliver(i) \/ RecvFails(i)
              \/ Drop(i) \/ WakeRaises(i) \/ LoopEnds(i) \/ \E c \in Calls : WakeOne(i, c)
       PROVE  UNCHANGED <<Outcome, Handled>>
  BY <1>12, <1>1 DEF Close, Ping, PingRaises, Deliver, RecvFails, Drop, WakeRaises, LoopEnds, WakeOne
<1>13. ASSUME NEW k \in Conns, NEW f \in wire[k], Match(f.to, f) \/ Stray(f.to, f) \/ Pinged(f.to, f)
       PROVE  UNCHANGED <<Outcome, Handled>>
  BY <1>13, <1>1 DEF Match, Stray, Pinged, Answer
<1>14. ASSUME NEW c \in Calls, SendReply(c) \/ ReplyRaises(c)
       PROVE  UNCHANGED <<Outcome, Handled>>
  BY <1>14, <1>1 DEF SendReply, ReplyRaises
<1> QED
  BY <1>3, <1>4, <1>5, <1>6, <1>7, <1>8, <1>9, <1>10, <1>11, <1>12, <1>13, <1>14 DEF Next, RR!Next

\* Nothing has been called at first.
LEMMA RefineInit ==
  ASSUME Init
  PROVE  RR!Init
BY DEF Init, RR!Init, Outcome, Handled

\* The channel implements RequestReply: through broken connections, replaced and
\* closed channels, timeouts and stray replies, every call is handled at most
\* once and returns normally only after its handler did.
THEOREM ImplementsRequestReply == Spec => CallsAreHandledOnce
<1>1. Init => RR!Init
  BY RefineInit
<1>2. IInv /\ IInv' /\ [Next]_vars => [RR!Next]_<<Outcome, Handled>>
  BY RefineStep
<1> QED
  BY <1>1, <1>2, InductiveInvariant, PTL DEF Spec, CallsAreHandledOnce, RR!Spec, RR!vars
=============================================================================
