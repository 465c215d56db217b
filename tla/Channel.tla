------------------------------- MODULE Channel -------------------------------
(***************************************************************************)
(* The PeerChannel of src/porpulsion/channel.py between two agents.        *)
(*                                                                         *)
(* The dialer has one PeerChannel, number 0, whose connect_and_maintain    *)
(* thread connects again whenever a connection ends.  The acceptor has a   *)
(* new PeerChannel for every connection it accepts: channel k serves       *)
(* connection k.  Threads on both sides make calls (call()), each channel  *)
(* has one receive thread, one keepalive thread and an executor that runs  *)
(* the handlers.  A connection may break at any moment; the two ends       *)
(* notice at different times and what was in flight is lost.               *)
(*                                                                         *)
(* Frames in flight are a set: WebSocket frames arrive in order, but       *)
(* requests are handed to a pool of eight workers and replies are matched  *)
(* by id, so no behaviour kept here depends on the order.                  *)
(*                                                                         *)
(* Definitions named X_Slip are not part of the specification: each is X   *)
(* with a slip a later edit of the code could make, and some property      *)
(* below tells the two apart.                                              *)
(***************************************************************************)
EXTENDS Naturals, FiniteSets

CONSTANTS
  Calls,        (* request ids (uuid4), one for each call()              *)
  DialerCalls,  (* the calls made by threads of the dialer               *)
  NoCall,       (* stands for the missing id of a push frame             *)
  MaxConn,      (* bound on the connections opened                       *)
  MaxPing       (* bound on the keepalive pings in flight                *)

ASSUME ChannelAssumption ==
  /\ IsFiniteSet(Calls)
  /\ DialerCalls \subseteq Calls
  /\ NoCall \notin Calls
  /\ MaxConn \in Nat \ {0}
  /\ MaxPing \in Nat

Dialer   == 0
NoSock   == 0                  \* _ws is None
NoChan   == 0                  \* no entry in the acceptor's peer_channels
Conns    == 1..MaxConn
Channels == 0..MaxConn

Replies == {"ok", "error"}
Frames  == [kind : {"request", "ping"} \cup Replies, id : Calls \cup {NoCall}, to : Channels]
Frame(kind, id, to) == [kind |-> kind, id |-> id, to |-> to]
Nothing == Frame("error", NoCall, Dialer)      \* no frame is held

VARIABLES
  conn,     (* connections opened so far                                 *)
  link,     (* TCP connection k: "none", "up", "down"                    *)
  wire,     (* frames in flight on connection k                          *)
  reg,      (* acceptor's peer_channels entry, or NoChan                *)
  ws,       (* _ws of each channel                                       *)
  event,    (* connected_event of each channel                           *)
  running,  (* _running of each channel; close() also stops its executor *)
  at,       (* where the receive thread of each channel is               *)
  held,     (* the frame _dispatch found an entry of _pending for        *)
  woken,    (* entries of _pending already woken as the loop ends        *)
  size,     (* len(_pending) when that iteration began                   *)
  pending,  (* ids in _pending of each channel                           *)
  pc,       (* where each call() is                                      *)
  chan,     (* the channel get_channel() gave it                         *)
  csock,    (* the socket _send_raw read for it                          *)
  fired,    (* the event of its _pending entry                           *)
  result,   (* the result of its _pending entry                          *)
  exec,     (* the handler of its request, on the other side             *)
  reply,    (* the reply that handler's worker still has to send         *)
  worker    (* the channel whose executor runs it                        *)

netVars    == <<conn, link, wire, reg>>
chanVars   == <<ws, event, running>>
recvVars   == <<at, held, woken, size>>
callVars   == <<pending, pc, chan, csock, fired, result>>
workVars   == <<exec, reply, worker>>
vars == <<netVars, chanVars, recvVars, callVars, workVars>>

RecvStates == {"off", "top", "connect", "hello", "recv", "matched", "drop", "wake",
               "ended", "crashed"}
CallStates == {"idle", "open", "registered", "sending", "waiting", "ok", "failed"}

NetTypes ==
  /\ conn \in Channels
  /\ link \in [Conns -> {"none", "up", "down"}]
  /\ wire \in [Conns -> SUBSET Frames]
  /\ \A k \in Conns : \A f \in wire[k] :
       f.to \in {Dialer, k} /\ (f.kind = "ping" <=> f.id = NoCall)
  /\ reg \in Channels

ChanTypes ==
  /\ ws \in [Channels -> Channels] /\ \A k \in Conns : ws[k] \in {NoSock, k}
  /\ event \in [Channels -> BOOLEAN]
  /\ running \in [Channels -> BOOLEAN]

RecvTypes ==
  /\ at \in [Channels -> RecvStates]
  /\ held \in [Channels -> Frames] /\ \A i \in Channels : held[i].kind \in Replies
  /\ woken \in [Channels -> SUBSET Calls]
  /\ size \in [Channels -> Nat]

CallTypes ==
  /\ pending \in [Channels -> SUBSET Calls]
  /\ pc \in [Calls -> CallStates]
  /\ chan \in [Calls -> Channels]
  /\ csock \in [Calls -> Channels] /\ \A c \in Calls : pc[c] = "sending" => csock[c] # NoSock
  /\ fired \in [Calls -> BOOLEAN]
  /\ result \in [Calls -> {"none"} \cup Replies]

WorkTypes ==
  /\ exec \in [Calls -> {"none", "queued", "returned", "raised"}]
  /\ reply \in [Calls -> {"none"} \cup Replies]
  /\ worker \in [Calls -> Channels]

\* The type invariant; a call that has got as far as sending has read a socket.
TypeOK == NetTypes /\ ChanTypes /\ RecvTypes /\ CallTypes /\ WorkTypes

Init ==
  /\ conn = 0
  /\ link = [k \in Conns |-> "none"]
  /\ wire = [k \in Conns |-> {}]
  /\ reg = NoChan
  /\ ws = [i \in Channels |-> NoSock]
  /\ event = [i \in Channels |-> FALSE]
  /\ running = [i \in Channels |-> TRUE]
  /\ at = [i \in Channels |-> IF i = Dialer THEN "top" ELSE "off"]
  /\ held = [i \in Channels |-> Nothing]
  /\ woken = [i \in Channels |-> {}]
  /\ size = [i \in Channels |-> 0]
  /\ pending = [i \in Channels |-> {}]
  /\ pc = [c \in Calls |-> "idle"]
  /\ chan = [c \in Calls |-> Dialer]
  /\ csock = [c \in Calls |-> NoSock]
  /\ fired = [c \in Calls |-> FALSE]
  /\ result = [c \in Calls |-> "none"]
  /\ exec = [c \in Calls |-> "none"]
  /\ reply = [c \in Calls |-> "none"]
  /\ worker = [c \in Calls |-> Dialer]

-----------------------------------------------------------------------------
(* The socket a receive thread reads, its other end, and the loop test.    *)

Sock(i) == IF i = Dialer THEN conn ELSE i

Peer(i, k) == IF i = Dialer THEN k ELSE Dialer

\* Both receive loops test _running; only the dialer's also re-reads _ws.
LoopNext(i) == IF running[i] /\ (i = Dialer => ws[i] # NoSock) THEN "recv" ELSE "drop"

Broken(i) == ws[i] # NoSock => link[ws[i]] = "down"

\* What a frame sent on connection k becomes: in flight, or lost in a dead socket.
Sent(k, f) == IF link[k] = "up" THEN {f} ELSE {}

\* An exception leaves the receive thread.  On the acceptor it ends the
\* request handler of /ws, which closes the socket; on the dialer it ends
\* connect_and_maintain, which nobody starts again.
Crash(i) ==
  /\ at' = [at EXCEPT ![i] = "crashed"]
  /\ link' = IF i = Dialer THEN link ELSE [link EXCEPT ![i] = "down"]

-----------------------------------------------------------------------------
(* connect_and_maintain and _connect on the dialer, attach_inbound on the  *)
(* acceptor.                                                               *)

\* while self._running
LoopTop ==
  /\ at[Dialer] = "top"
  /\ at' = [at EXCEPT ![Dialer] = IF running[Dialer] THEN "connect" ELSE "ended"]
  /\ UNCHANGED <<netVars, chanVars, held, woken, size, callVars, workVars>>

\* ws.connect and the peer/hello frame; the acceptor's handler starts on it.
Hello ==
  /\ at[Dialer] = "connect"
  /\ conn < MaxConn
  /\ conn' = conn + 1
  /\ link' = [link EXCEPT ![conn + 1] = "up"]
  /\ at' = [at EXCEPT ![Dialer] = "hello", ![conn + 1] = "hello"]
  /\ UNCHANGED <<wire, reg, chanVars, held, woken, size, callVars, workVars>>

ConnectFail_Slip ==
  /\ at[Dialer] \in {"connect", "hello"}
  /\ link' = IF at[Dialer] = "hello" THEN [link EXCEPT ![conn] = "down"] ELSE link
  /\ at' = [at EXCEPT ![Dialer] = "ended"]
  /\ UNCHANGED <<conn, wire, reg, chanVars, held, woken, size, callVars, workVars>>

\* _connect raises: no route, no hello-ack within the timeout, bad hello-ack.
ConnectFail ==
  /\ at[Dialer] \in {"connect", "hello"}
  /\ link' = IF at[Dialer] = "hello" THEN [link EXCEPT ![conn] = "down"] ELSE link
  /\ at' = [at EXCEPT ![Dialer] = IF running[Dialer] THEN "top" ELSE "ended"]
  /\ UNCHANGED <<conn, wire, reg, chanVars, held, woken, size, callVars, workVars>>

\* The hello-ack is good: the socket is installed, whatever close() did meanwhile.
Connected ==
  /\ at[Dialer] = "hello"
  /\ link[conn] = "up"
  /\ ws' = [ws EXCEPT ![Dialer] = conn]
  /\ event' = [event EXCEPT ![Dialer] = TRUE]
  /\ at' = [at EXCEPT ![Dialer] = IF running[Dialer] THEN "recv" ELSE "drop"]
  /\ UNCHANGED <<netVars, running, held, woken, size, callVars, workVars>>

Attach_Slip(k) ==
  /\ at[k] = "hello"
  /\ reg' = k
  /\ event' = [event EXCEPT ![k] = TRUE]
  /\ at' = [at EXCEPT ![k] = "recv"]
  /\ ws' = [ws EXCEPT ![k] = k]
  /\ UNCHANGED <<conn, link, wire, running, held, woken, size, callVars, workVars>>

\* The acceptor has sent its hello-ack: it registers its channel, closing the
\* one it replaces, and installs the socket.
Attach(k) ==
  /\ at[k] = "hello"
  /\ reg' = k
  /\ event' = [event EXCEPT ![k] = TRUE]
  /\ at' = [at EXCEPT ![k] = "recv"]
  /\ \/ /\ reg = NoChan
        /\ ws' = [ws EXCEPT ![k] = k]
        /\ UNCHANGED <<link, running>>
     \/ /\ reg # NoChan
        /\ ws' = [ws EXCEPT ![reg] = NoSock, ![k] = k]
        /\ running' = [running EXCEPT ![reg] = FALSE]
        /\ link' = [link EXCEPT ![reg] = "down"]
  /\ UNCHANGED <<conn, wire, held, woken, size, callVars, workVars>>

\* The hello-ack cannot be sent: the handler returns without registering.
Reject(k) ==
  /\ at[k] = "hello"
  /\ link[k] = "down"
  /\ at' = [at EXCEPT ![k] = "ended"]
  /\ UNCHANGED <<netVars, chanVars, held, woken, size, callVars, workVars>>

\* close(), by the owner of the registered channel (peer removed or replaced).
Close(i) ==
  /\ i = Dialer \/ (i = reg /\ i # NoChan)
  /\ running[i]
  /\ running' = [running EXCEPT ![i] = FALSE]
  /\ ws' = [ws EXCEPT ![i] = NoSock]
  /\ link' = IF ws[i] = NoSock THEN link ELSE [link EXCEPT ![ws[i]] = "down"]
  /\ reg' = IF i = Dialer THEN reg ELSE NoChan
  /\ UNCHANGED <<conn, wire, event, recvVars, callVars, workVars>>

\* The TCP connection breaks.
Break(k) ==
  /\ link[k] = "up"
  /\ link' = [link EXCEPT ![k] = "down"]
  /\ UNCHANGED <<conn, wire, reg, chanVars, recvVars, callVars, workVars>>

-----------------------------------------------------------------------------
(* call(): get_channel, register in _pending, send, wait, pop.             *)

Caller(c) == IF c \in DialerCalls THEN Dialer ELSE reg

GetChannel(c) ==
  /\ pc[c] = "idle"
  /\ c \in DialerCalls => running[Dialer]
  /\ c \notin DialerCalls => reg # NoChan
  /\ event[Caller(c)]
  /\ chan' = [chan EXCEPT ![c] = Caller(c)]
  /\ pc' = [pc EXCEPT ![c] = "open"]
  /\ UNCHANGED <<netVars, chanVars, recvVars, pending, csock, fired, result, workVars>>

Register(c) ==
  /\ pc[c] = "open"
  /\ pending' = [pending EXCEPT ![chan[c]] = @ \cup {c}]
  /\ pc' = [pc EXCEPT ![c] = "registered"]
  /\ UNCHANGED <<netVars, chanVars, recvVars, chan, csock, fired, result, workVars>>

ReadSocket_Slip(c) ==
  /\ pc[c] = "registered"
  /\ csock' = [csock EXCEPT ![c] = ws[chan[c]]]
  /\ pc' = [pc EXCEPT ![c] = "sending"]
  /\ UNCHANGED <<netVars, chanVars, recvVars, pending, chan, fired, result, workVars>>

\* _send_raw reads _ws under the lock; without a socket it raises and the
\* entry stays in _pending.
ReadSocket(c) ==
  /\ pc[c] = "registered"
  /\ csock' = [csock EXCEPT ![c] = ws[chan[c]]]
  /\ pc' = [pc EXCEPT ![c] = IF ws[chan[c]] = NoSock THEN "failed" ELSE "sending"]
  /\ UNCHANGED <<netVars, chanVars, recvVars, pending, chan, fired, result, workVars>>

\* ws.send returns: the frame is on its way, or lost in a dead connection.
Send(c) ==
  /\ pc[c] = "sending"
  /\ wire' = [wire EXCEPT ![csock[c]] =
                @ \cup Sent(csock[c], Frame("request", c, Peer(chan[c], csock[c])))]
  /\ pc' = [pc EXCEPT ![c] = "waiting"]
  /\ UNCHANGED <<conn, link, reg, chanVars, recvVars, pending, chan, csock, fired, result, workVars>>

\* ws.send raises: _ws is set to None, whichever socket it holds by now.
SendRaises(c) ==
  /\ pc[c] = "sending"
  /\ link[csock[c]] = "down"
  /\ ws' = [ws EXCEPT ![chan[c]] = NoSock]
  /\ pc' = [pc EXCEPT ![c] = "failed"]
  /\ UNCHANGED <<netVars, event, running, recvVars, pending, chan, csock, fired, result, workVars>>

Return_Slip(c) ==
  /\ pc[c] = "waiting"
  /\ pending' = [pending EXCEPT ![chan[c]] = @ \ {c}]
  /\ pc' = [pc EXCEPT ![c] = IF fired[c] /\ result[c] # "error" THEN "ok" ELSE "failed"]
  /\ fired' = [fired EXCEPT ![c] = FALSE]
  /\ result' = [result EXCEPT ![c] = "none"]
  /\ UNCHANGED <<netVars, chanVars, recvVars, chan, csock, workVars>>

ReturnOnReply_Slip(c) == fired[c] /\ Return_Slip(c)

\* event.wait returns, because the event fired or after the timeout; the entry
\* is popped and the caller gets its result or a RuntimeError.
Return(c) ==
  /\ pc[c] = "waiting"
  /\ pending' = [pending EXCEPT ![chan[c]] = @ \ {c}]
  /\ \E woke \in {fired[c], FALSE} :
       pc' = [pc EXCEPT ![c] = IF woke /\ result[c] = "ok" THEN "ok" ELSE "failed"]
  /\ fired' = [fired EXCEPT ![c] = FALSE]
  /\ result' = [result EXCEPT ![c] = "none"]
  /\ UNCHANGED <<netVars, chanVars, recvVars, chan, csock, workVars>>

-----------------------------------------------------------------------------
(* _recv_loop, _inbound_recv_loop and _dispatch.                           *)

\* The receive thread of channel i takes frame f off its socket.
Takes(i, f) == at[i] = "recv" /\ f \in wire[Sock(i)] /\ f.to = i

Without(i, f) == [wire EXCEPT ![Sock(i)] = @ \ {f}]

\* An entry of _pending has this id ...
Match(i, f) ==
  /\ Takes(i, f)
  /\ f.id \in pending[i]
  /\ wire' = Without(i, f)
  /\ held' = [held EXCEPT ![i] = f]
  /\ at' = [at EXCEPT ![i] = "matched"]
  /\ UNCHANGED <<conn, link, reg, chanVars, woken, size, callVars, workVars>>

\* ... and is looked up again, unless its caller has popped it: KeyError.
Deliver(i) ==
  LET c == held[i].id IN
  /\ at[i] = "matched"
  /\ \/ /\ c \in pending[i]
        /\ fired' = [fired EXCEPT ![c] = TRUE]
        /\ result' = [result EXCEPT ![c] = held[i].kind]
        /\ at' = [at EXCEPT ![i] = LoopNext(i)]
        /\ UNCHANGED link
     \/ /\ c \notin pending[i]
        /\ Crash(i)
        /\ UNCHANGED <<fired, result>>
  /\ held' = [held EXCEPT ![i] = Nothing]
  /\ UNCHANGED <<conn, wire, reg, chanVars, woken, size, pending, pc, chan, csock, workVars>>

\* A request goes to the executor; a closed channel's executor refuses it and
\* the exception leaves the receive thread.
Request(i, f) ==
  /\ Takes(i, f)
  /\ f.kind = "request"
  /\ wire' = Without(i, f)
  /\ \/ /\ running[i]
        /\ exec' = [exec EXCEPT ![f.id] = "queued"]
        /\ worker' = [worker EXCEPT ![f.id] = i]
        /\ at' = [at EXCEPT ![i] = LoopNext(i)]
        /\ UNCHANGED link
     \/ /\ ~running[i]
        /\ Crash(i)
        /\ UNCHANGED <<exec, worker>>
  /\ UNCHANGED <<conn, reg, chanVars, held, woken, size, callVars, reply>>

\* What the receive thread itself sends in answer to f, and what happens when
\* that send raises.
Answer(i, f, frames) ==
  /\ \/ /\ ws[i] # NoSock
        /\ wire' = [Without(i, f) EXCEPT ![Sock(i)] = @ \cup frames]
        /\ at' = [at EXCEPT ![i] = LoopNext(i)]
        /\ UNCHANGED <<ws, link>>
     \/ /\ Broken(i)
        /\ wire' = Without(i, f)
        /\ ws' = [ws EXCEPT ![i] = NoSock]
        /\ Crash(i)
  /\ UNCHANGED <<conn, reg, event, running, held, woken, size, callVars, workVars>>

\* A reply nobody waits for has an id and no handler: it is answered with an
\* error reply of the same id.
Stray(i, f) ==
  /\ Takes(i, f)
  /\ f.kind \in Replies
  /\ f.id \notin pending[i]
  /\ Answer(i, f, Sent(Sock(i), Frame("error", f.id, Peer(i, Sock(i)))))

\* A ping is answered inline with a pong, which only updates latency_ms.
Pinged(i, f) ==
  /\ Takes(i, f)
  /\ f.kind = "ping"
  /\ Answer(i, f, {})

\* recv raises or returns "": the connection broke.
RecvFails(i) ==
  /\ at[i] = "recv"
  /\ link[Sock(i)] = "down"
  /\ at' = [at EXCEPT ![i] = "drop"]
  /\ UNCHANGED <<netVars, chanVars, held, woken, size, callVars, workVars>>

Drop_Slip(i) ==
  /\ at[i] = "drop"
  /\ event' = [event EXCEPT ![i] = FALSE]
  /\ woken' = [woken EXCEPT ![i] = {}]
  /\ size' = [size EXCEPT ![i] = Cardinality(pending[i])]
  /\ link' = [link EXCEPT ![Sock(i)] = "down"]
  /\ wire' = [wire EXCEPT ![Sock(i)] = {f \in @ : f.to # i}]
  /\ at' = [at EXCEPT ![i] = "wake"]
  /\ UNCHANGED <<conn, reg, ws, running, held, callVars, workVars>>

\* The loop ends: _ws is None, the event is cleared and the iteration over
\* _pending starts.  Nobody reads the socket any more.
Drop(i) ==
  /\ at[i] = "drop"
  /\ ws' = [ws EXCEPT ![i] = NoSock]
  /\ event' = [event EXCEPT ![i] = FALSE]
  /\ woken' = [woken EXCEPT ![i] = {}]
  /\ size' = [size EXCEPT ![i] = Cardinality(pending[i])]
  /\ link' = [link EXCEPT ![Sock(i)] = "down"]
  /\ wire' = [wire EXCEPT ![Sock(i)] = {f \in @ : f.to # i}]
  /\ at' = [at EXCEPT ![i] = "wake"]
  /\ UNCHANGED <<conn, reg, running, held, callVars, workVars>>

\* Python checks at each step that the dict still has the size it had.
SameSize(i) == Cardinality(pending[i]) = size[i]

WakeOne(i, c) ==
  /\ at[i] = "wake"
  /\ SameSize(i)
  /\ c \in pending[i] \ woken[i]
  /\ fired' = [fired EXCEPT ![c] = TRUE]
  /\ woken' = [woken EXCEPT ![i] = @ \cup {c}]
  /\ UNCHANGED <<netVars, chanVars, at, held, size, pending, pc, chan, csock, result, workVars>>

WakeRaises(i) ==
  /\ at[i] = "wake"
  /\ ~SameSize(i)
  /\ Crash(i)
  /\ woken' = [woken EXCEPT ![i] = {}]
  /\ size' = [size EXCEPT ![i] = 0]
  /\ UNCHANGED <<conn, wire, reg, chanVars, held, callVars, workVars>>

\* The loop has returned: the dialer goes round again, the acceptor's
\* accept_channel takes its channel out of peer_channels if it is still there.
LoopEnds(i) ==
  /\ at[i] = "wake"
  /\ SameSize(i)
  /\ pending[i] \subseteq woken[i]
  /\ at' = [at EXCEPT ![i] = IF i = Dialer /\ running[i] THEN "top" ELSE "ended"]
  /\ reg' = IF i # Dialer /\ reg = i THEN NoChan ELSE reg
  /\ woken' = [woken EXCEPT ![i] = {}]
  /\ size' = [size EXCEPT ![i] = 0]
  /\ UNCHANGED <<conn, link, wire, chanVars, held, callVars, workVars>>

-----------------------------------------------------------------------------
(* The executor's workers (_run_request) and the keepalive threads.        *)

Handle(c) ==
  /\ exec[c] = "queued"
  /\ \/ /\ exec' = [exec EXCEPT ![c] = "returned"]
        /\ reply' = [reply EXCEPT ![c] = "ok"]
     \/ /\ exec' = [exec EXCEPT ![c] = "raised"]
        /\ reply' = [reply EXCEPT ![c] = "error"]
  /\ UNCHANGED <<netVars, chanVars, recvVars, callVars, worker>>

\* The reply goes out on whichever socket the worker's channel has by now.
SendReply(c) ==
  LET i == worker[c]
      k == ws[i]
  IN
  /\ reply[c] # "none"
  /\ k # NoSock
  /\ wire' = [wire EXCEPT ![k] = @ \cup Sent(k, Frame(reply[c], c, Peer(i, k)))]
  /\ reply' = [reply EXCEPT ![c] = "none"]
  /\ UNCHANGED <<conn, link, reg, chanVars, recvVars, callVars, exec, worker>>

\* _send_raw raises: after the handler's result an error reply is tried, after
\* that the exception is lost in the executor's future.
ReplyRaises(c) ==
  LET i == worker[c] IN
  /\ reply[c] # "none"
  /\ Broken(i)
  /\ ws' = [ws EXCEPT ![i] = NoSock]
  /\ reply' = [reply EXCEPT ![c] = IF @ = "ok" THEN "error" ELSE "none"]
  /\ UNCHANGED <<netVars, event, running, recvVars, callVars, exec, worker>>

Pings == {f \in UNION {wire[k] : k \in Conns} : f.kind = "ping"}

Ping(i) ==
  /\ running[i]
  /\ ws[i] # NoSock
  /\ Cardinality(Pings) < MaxPing
  /\ wire' = [wire EXCEPT ![ws[i]] = @ \cup Sent(ws[i], Frame("ping", NoCall, Peer(i, ws[i])))]
  /\ UNCHANGED <<conn, link, reg, chanVars, recvVars, callVars, workVars>>

PingRaises(i) ==
  /\ running[i]
  /\ ws[i] # NoSock
  /\ link[ws[i]] = "down"
  /\ ws' = [ws EXCEPT ![i] = NoSock]
  /\ UNCHANGED <<netVars, event, running, recvVars, callVars, workVars>>

-----------------------------------------------------------------------------
Next ==
  \/ LoopTop \/ Hello \/ ConnectFail \/ Connected
  \/ \E k \in Conns : Attach(k) \/ Reject(k) \/ Break(k)
  \/ \E i \in Channels : \/ Close(i) \/ Ping(i) \/ PingRaises(i)
                         \/ Deliver(i) \/ RecvFails(i) \/ Drop(i)
                         \/ WakeRaises(i) \/ LoopEnds(i)
  \/ \E i \in Channels, c \in Calls : WakeOne(i, c)
  \/ \E k \in Conns : \E f \in wire[k] :
       \/ Match(f.to, f) \/ Request(f.to, f) \/ Stray(f.to, f) \/ Pinged(f.to, f)
  \/ \E c \in Calls : \/ GetChannel(c) \/ Register(c) \/ ReadSocket(c) \/ Send(c)
                      \/ SendRaises(c) \/ Return(c)
                      \/ Handle(c) \/ SendReply(c) \/ ReplyRaises(c)

Spec == Init /\ [][Next]_vars

\* Threads of the channel that can move do move, and a dialer that goes on
\* trying gets through to the acceptor in the end.  Whether the connection then
\* lasts, whether calls are made, how long a handler takes (it may never end)
\* and when close() comes is up to the environment.
CallThread(c) == Register(c) \/ ReadSocket(c) \/ Send(c) \/ SendRaises(c) \/ Return(c)
RecvThread(i) == \/ Deliver(i) \/ RecvFails(i) \/ Drop(i) \/ WakeRaises(i) \/ LoopEnds(i)
                 \/ \E c \in Calls : WakeOne(i, c)
                 \/ \E k \in Conns : \E f \in wire[k] :
                      Match(i, f) \/ Request(i, f) \/ Stray(i, f) \/ Pinged(i, f)
DialThread    == LoopTop \/ Hello \/ ConnectFail \/ Connected

Fairness ==
  /\ WF_vars(DialThread) /\ SF_vars(Hello)
  /\ \A k \in Conns : WF_vars(Attach(k) \/ Reject(k))
  /\ \A i \in Channels : WF_vars(RecvThread(i))
  /\ \A c \in Calls : WF_vars(CallThread(c))

FairSpec == Spec /\ Fairness

-----------------------------------------------------------------------------
(* Properties.                                                             *)

\* The receive thread of call c's channel is still on the socket it was sent on,
\* or about to wake it, or dead of an exception.
HasWaker(c) ==
  \/ at[chan[c]] \in {"recv", "matched", "drop"} /\ csock[c] = Sock(chan[c])
  \/ at[chan[c]] = "wake" /\ c \in pending[chan[c]] \ woken[chan[c]]
  \/ at[chan[c]] = "crashed"

\* A dropped connection never leaves a caller asleep in call() for its whole
\* timeout with nobody to wake it (channel.py, "Wake any callers blocked in
\* call()"), unless the receive thread died.
NoCallerStranded ==
  \A c \in Calls : pc[c] = "waiting" /\ ~fired[c] => HasWaker(c)

\* An accepted channel that is running and reads its socket is the one in
\* peer_channels: a replaced connection is always shut, a handler that ends
\* never takes out the channel that replaced it.
LiveIsRegistered ==
  \A k \in Conns : at[k] \in {"recv", "matched"} /\ running[k] => reg = k

\* The channel as its callers see it: each call is handled at most once and
\* returns normally only after its handler did.
Outcome == [c \in Calls |-> CASE pc[c] = "idle" -> "idle"
                               [] pc[c] \in {"ok", "failed"} -> pc[c]
                               [] OTHER -> "open"]
Handled == [c \in Calls |-> IF exec[c] \in {"returned", "raised"} THEN exec[c] ELSE "no"]

RR == INSTANCE RequestReply WITH outcome <- Outcome, handled <- Handled
CallsAreHandledOnce == RR!Spec

\* connect_and_maintain "keep[s] the connection alive, reconnecting on
\* failure": a dialer without a connection opens another one, unless it was
\* closed or its thread died of an exception.
KeepsDialing ==
  \A n \in 0..(MaxConn - 1) :
    (running[Dialer] /\ ~event[Dialer] /\ conn = n)
      ~> (conn > n \/ event[Dialer] \/ ~running[Dialer] \/ at[Dialer] = "crashed")

\* call() always comes back to its caller: through a lost reply, a dropped
\* connection, a channel closed under it or a dead receive thread.
CallsReturn ==
  \A c \in Calls : (pc[c] # "idle") ~> (pc[c] \in {"ok", "failed"})

\* The thread that keeps the connection alive outlives every failure of the
\* connection: it stops only after close() (channel.py, "Will keep retrying").
ReconnectLoopSurvives ==
  running[Dialer] => at[Dialer] \notin {"crashed", "ended"}

\* A reply answers a request, so once the calls are over no receive thread
\* finds a reply on its socket any more.
RepliesDieOut ==
  <>[](\A k \in Conns : \A f \in wire[k] : f.kind \in Replies => ~Takes(f.to, f))
=============================================================================
