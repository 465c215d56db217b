-------------------------- MODULE ChannelInvariant --------------------------
(***************************************************************************)
(* The inductive invariant of module Channel: what NoCallerStranded,       *)
(* LiveIsRegistered and the refinement of RequestReply rest on.            *)
(***************************************************************************)
EXTENDS Channel

\* The connections not opened yet have no receive thread.
NotOpenedYet ==
  /\ \A k \in Conns : k > conn => at[k] = "off"
  /\ at[Dialer] \notin {"off", "top", "connect", "ended", "crashed"} => conn # 0

\* A channel that has a socket has its current one, and a receive thread that
\* is still on it, or that died of an exception.
SocketHasReader ==
  \A i \in Channels : ws[i] # NoSock =>
    ws[i] = Sock(i) /\ at[i] \in {"recv", "matched", "drop", "crashed"}

\* _pending holds the calls under way (and those whose send failed), in the
\* channel they were made on.
PendingIsCallers ==
  /\ \A i \in Channels : \A c \in pending[i] : chan[c] = i /\ pc[c] \notin {"idle", "open"}
  /\ \A c \in Calls : pc[c] \in {"registered", "sending", "waiting"} => c \in pending[chan[c]]

\* NoCallerStranded, from the moment the caller has read the socket.
SomeoneWakes ==
  \A c \in Calls : pc[c] \in {"sending", "waiting"} /\ ~fired[c] => HasWaker(c)

\* A request in flight was sent once, by its caller, and has not been handled.
RequestsAreFresh ==
  /\ \A k \in Conns : \A f \in wire[k] : f.kind = "request" =>
       /\ k = csock[f.id] /\ f.to = Peer(chan[f.id], k)
       /\ exec[f.id] = "none"
       /\ pc[f.id] \in {"waiting", "ok", "failed"}
  /\ \A c \in Calls : exec[c] # "none" => pc[c] \in {"waiting", "ok", "failed"}

\* An answer "ok", wherever it is on its way to the caller, is the handler's.
AnswersAreHandlers ==
  /\ \A k \in Conns : \A f \in wire[k] : f.kind = "ok" => exec[f.id] = "returned"
  /\ \A i \in Channels : held[i].kind = "ok" =>
       held[i].id \in Calls /\ exec[held[i].id] = "returned"
  /\ \A c \in Calls : result[c] = "ok" \/ reply[c] = "ok" => exec[c] = "returned"

IInv ==
  /\ TypeOK
  /\ NotOpenedYet
  /\ SocketHasReader
  /\ PendingIsCallers
  /\ SomeoneWakes
  /\ RequestsAreFresh
  /\ AnswersAreHandlers
  /\ LiveIsRegistered
=============================================================================
