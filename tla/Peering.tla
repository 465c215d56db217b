------------------------------- MODULE Peering -------------------------------
(***************************************************************************)
(* Who is connected to whom: the peer entry and the registered channel of  *)
(* two agents, the channels they dial (open_channel_to) and accept         *)
(* (accept_channel), peering, removal and restart.                         *)
(*                                                                         *)
(* Each agent has one possible peer, the other agent.  A channel is        *)
(* <<"out", g>>, the g-th PeerChannel the agent opened, or <<"in", c>>,    *)
(* the PeerChannel that accepted connection c.  What flows over a          *)
(* connection once it is up is the business of module Channel; here only   *)
(* the pushes that change the peering are kept.  The peers Secret follows  *)
(* the peer entry with a delay; module PeerStore is about that delay.      *)
(*                                                                         *)
(* X_Slip is X with a slip a later edit could make; no behaviour has it.   *)
(***************************************************************************)
EXTENDS Naturals

CONSTANTS
  Agents,       (* the two agents                                        *)
  Nobody,       (* the dialler of a connection not dialled yet           *)
  MaxGen,       (* bound on the channels each agent opens                *)
  MaxConn,      (* bound on the connections dialled                      *)
  MaxUpsets     (* bound on the removals asked for and the restarts      *)

ASSUME PeeringAssumption ==
  /\ \E a, b \in Agents : a # b /\ Agents = {a, b}
  /\ Nobody \notin Agents
  /\ MaxGen \in Nat /\ MaxConn \in Nat /\ MaxUpsets \in Nat

Gens  == 1..MaxGen
Conns == 1..MaxConn
Other(n) == CHOOSE m \in Agents : m # n

Directions == {"none", "outgoing", "incoming", "bidirectional"}
None    == <<"none", 0>>
Out(g)  == <<"out", g>>
In(c)   == <<"in", c>>

VARIABLES
  dir,        (* direction of the peer entry in state.peers, "none" without one *)
  stored,     (* the direction the peers Secret holds                           *)
  reg,        (* the peer's channel in state.peer_channels                      *)
  opening,    (* open_channel_to calls under way: "peer" or "boot"              *)
  tearing,    (* teardowns under way: "remove" or "notified"                    *)
  gen,        (* channels opened so far                                         *)
  outAt,      (* the connect_and_maintain thread of each opened channel         *)
  outRun,     (* its _running                                                   *)
  outConn,    (* the connection it is on, 0 when none                           *)
  dialled,    (* connections dialled so far                                     *)
  by,         (* the agent that dialled each connection                         *)
  link,       (* TCP connection: "none", "up", "down"                           *)
  inAt,       (* the /ws handler of each connection                             *)
  inRun,      (* _running of the channel it made                                *)
  pushes,     (* pushes in flight                                               *)
  asked,      (* history: connect_peer was called on this agent                 *)
  crossed,    (* history: a removed peer was added before all of it was gone    *)
  upsets      (* removals asked for and restarts so far                         *)

peerVars == <<dir, stored, asked, crossed>>
taskVars == <<opening, tearing>>
outVars  == <<gen, outAt, outRun, outConn>>
connVars == <<dialled, by, link>>
inVars   == <<inAt, inRun>>
vars == <<peerVars, reg, taskVars, outVars, connVars, inVars, pushes, upsets>>

Acceptor(c) == Other(by[c])
ChannelsOf  == {None} \cup {Out(g) : g \in Gens} \cup {In(c) : c \in Conns}
Push(kind, to, c) == [kind |-> kind, to |-> to, via |-> c]

TypeOK ==
  /\ dir \in [Agents -> Directions] /\ stored \in [Agents -> Directions]
  /\ reg \in [Agents -> ChannelsOf]
  /\ opening \in [Agents -> SUBSET {"peer", "boot"}]
  /\ tearing \in [Agents -> SUBSET {"remove", "notified"}]
  /\ gen \in [Agents -> 0..MaxGen]
  /\ outAt \in [Agents \X Gens -> {"new", "dial", "hello", "live", "died", "ended"}]
  /\ outRun \in [Agents \X Gens -> BOOLEAN]
  /\ outConn \in [Agents \X Gens -> 0..MaxConn]
  /\ dialled \in 0..MaxConn
  /\ by \in [Conns -> Agents \cup {Nobody}]
  /\ link \in [Conns -> {"none", "up", "down"}]
  /\ inAt \in [Conns -> {"new", "hello", "greeted", "live", "ended"}]
  /\ inRun \in [Conns -> BOOLEAN]
  /\ pushes \subseteq [kind : {"bidirectional", "removed"}, to : Agents, via : Conns]
  /\ asked \in [Agents -> BOOLEAN] /\ crossed \in [Agents -> BOOLEAN]
  /\ upsets \in 0..MaxUpsets

Init ==
  /\ dir = [n \in Agents |-> "none"] /\ stored = [n \in Agents |-> "none"]
  /\ asked = [n \in Agents |-> FALSE] /\ crossed = [n \in Agents |-> FALSE]
  /\ reg = [n \in Agents |-> None]
  /\ opening = [n \in Agents |-> {}] /\ tearing = [n \in Agents |-> {}]
  /\ gen = [n \in Agents |-> 0]
  /\ outAt = [o \in Agents \X Gens |-> "new"]
  /\ outRun = [o \in Agents \X Gens |-> FALSE]
  /\ outConn = [o \in Agents \X Gens |-> 0]
  /\ dialled = 0
  /\ by = [c \in Conns |-> Nobody]
  /\ link = [c \in Conns |-> "none"]
  /\ inAt = [c \in Conns |-> "new"]
  /\ inRun = [c \in Conns |-> FALSE]
  /\ pushes = {}
  /\ upsets = 0

-----------------------------------------------------------------------------
(* PeerChannel.close() of channel ch of agent n: never runs again, and the *)
(* socket it has installed, if any, is shut.  A channel whose receive loop *)
(* died of an exception still has its socket.                              *)

Installed(n, g) == outAt[<<n, g>>] \in {"live", "died"}

OutRunWithout(n, ch) ==
  [o \in Agents \X Gens |-> outRun[o] /\ ~(o[1] = n /\ ch = Out(o[2]))]
InRunWithout(ch) == [c \in Conns |-> inRun[c] /\ ch # In(c)]
LinkWithout(n, ch) ==
  [c \in Conns |->
     IF \/ ch = In(c)
        \/ \E g \in Gens : ch = Out(g) /\ Installed(n, g) /\ outConn[<<n, g>>] = c
     THEN "down" ELSE link[c]]

Close(n, ch) ==
  /\ outRun' = OutRunWithout(n, ch)
  /\ inRun' = InRunWithout(ch)
  /\ link' = LinkWithout(n, ch)

-----------------------------------------------------------------------------
(* Peering (routes/peers.py), and the restart of agent.py.                 *)

\* What may outlive a removal: its teardown, and the handler of a hello.
Lingers(n) ==
  \/ tearing[n] # {}
  \/ dir[n] = "none" /\ \E c \in Conns : inAt[c] = "greeted" /\ Acceptor(c) = n

\* connect_peer: a new peer is outgoing, one that connected first becomes
\* bidirectional, any other is refused; then open_channel_to is called.
ConnectPeer(n) ==
  /\ dir[n] \in {"none", "incoming"}
  /\ dir' = [dir EXCEPT ![n] = IF @ = "none" THEN "outgoing" ELSE "bidirectional"]
  /\ opening' = [opening EXCEPT ![n] = @ \cup {"peer"}]
  /\ crossed' = [crossed EXCEPT ![n] = @ \/ Lingers(n)]
  /\ asked' = [asked EXCEPT ![n] = TRUE]
  /\ UNCHANGED <<stored, reg, tearing, outVars, connVars, inVars, pushes, upsets>>

OpenChannel_Slip(n, why) ==
  /\ why \in opening[n]
  /\ gen[n] < MaxGen
  /\ opening' = [opening EXCEPT ![n] = @ \ {why}]
  /\ gen' = [gen EXCEPT ![n] = @ + 1]
  /\ reg' = [reg EXCEPT ![n] = Out(gen[n] + 1)]
  /\ outAt' = [outAt EXCEPT ![<<n, gen[n] + 1>>] = "dial"]
  /\ Close(n, Out(gen[n] + 1))
  /\ UNCHANGED <<peerVars, tearing, outConn, dialled, by, inAt, pushes, upsets>>

\* open_channel_to: whatever channel is registered is closed and replaced.  After
\* a restart it is called for the restored peers that are not incoming.
OpenChannel(n, why) ==
  /\ why \in opening[n]
  /\ opening' = [opening EXCEPT ![n] = @ \ {why}]
  /\ IF why = "boot" /\ dir[n] \in {"none", "incoming"}
     THEN UNCHANGED <<reg, outVars, link, inRun>>
     ELSE /\ gen[n] < MaxGen
          /\ gen' = [gen EXCEPT ![n] = @ + 1]
          /\ reg' = [reg EXCEPT ![n] = Out(gen[n] + 1)]
          /\ outAt' = [outAt EXCEPT ![<<n, gen[n] + 1>>] = "dial"]
          /\ outRun' = [OutRunWithout(n, reg[n]) EXCEPT ![<<n, gen[n] + 1>>] = TRUE]
          /\ inRun' = InRunWithout(reg[n])
          /\ link' = LinkWithout(n, reg[n])
          /\ UNCHANGED outConn
  /\ UNCHANGED <<peerVars, tearing, dialled, by, inAt, pushes, upsets>>

\* remove_peer up to state.peers.pop.
RemovePeer(n) ==
  /\ dir[n] # "none"
  /\ upsets < MaxUpsets
  /\ upsets' = upsets + 1
  /\ dir' = [dir EXCEPT ![n] = "none"]
  /\ tearing' = [tearing EXCEPT ![n] = @ \cup {"remove"}]
  /\ UNCHANGED <<stored, asked, crossed, reg, opening, outVars, connVars, inVars, pushes>>

\* The connection the registered channel of n has installed.
LiveConns(n) == {c \in Conns : \/ reg[n] = In(c)
                               \/ \E g \in Gens : /\ reg[n] = Out(g)
                                                  /\ Installed(n, g)
                                                  /\ outConn[<<n, g>>] = c}

\* The rest of remove_peer, or of handle_peer_disconnect: the peer is told, if
\* it was us who removed it, and whatever channel is registered is closed.
TearDown(n, why) ==
  /\ why \in tearing[n]
  /\ tearing' = [tearing EXCEPT ![n] = @ \ {why}]
  /\ pushes' = pushes \cup (IF why = "remove"
                            THEN {Push("removed", Other(n), c) :
                                    c \in {x \in LiveConns(n) : link[x] = "up"}}
                            ELSE {})
  /\ reg' = [reg EXCEPT ![n] = None]
  /\ Close(n, reg[n])
  /\ UNCHANGED <<peerVars, opening, gen, outAt, outConn, dialled, by, inAt, upsets>>

\* The background thread of save_peers has patched the Secret; after the last
\* restart nobody reads it.
Flush(n) ==
  /\ stored[n] # dir[n]
  /\ upsets < MaxUpsets
  /\ stored' = [stored EXCEPT ![n] = dir[n]]
  /\ UNCHANGED <<dir, asked, crossed, reg, taskVars, outVars, connVars, inVars, pushes, upsets>>

\* The agent's process dies with its threads and sockets and starts again from
\* the Secret; _reconnect_persisted_peers runs a little later.
Restart(n) ==
  /\ upsets < MaxUpsets
  /\ upsets' = upsets + 1
  /\ dir' = [dir EXCEPT ![n] = stored[n]]
  /\ crossed' = [crossed EXCEPT ![n] = FALSE]
  /\ reg' = [reg EXCEPT ![n] = None]
  /\ opening' = [opening EXCEPT ![n] = {"boot"}]
  /\ tearing' = [tearing EXCEPT ![n] = {}]
  /\ outAt' = [o \in Agents \X Gens |-> IF o[1] = n /\ outAt[o] # "new" THEN "ended" ELSE outAt[o]]
  /\ outRun' = [o \in Agents \X Gens |-> outRun[o] /\ o[1] # n]
  /\ outConn' = [o \in Agents \X Gens |-> IF o[1] = n THEN 0 ELSE outConn[o]]
  /\ link' = [c \in Conns |-> IF link[c] = "up" THEN "down" ELSE link[c]]
  /\ inAt' = [c \in Conns |-> IF Acceptor(c) = n /\ inAt[c] # "new" THEN "ended" ELSE inAt[c]]
  /\ inRun' = [c \in Conns |-> inRun[c] /\ Acceptor(c) # n]
  /\ pushes' = {p \in pushes : p.to # n}
  /\ UNCHANGED <<stored, asked, gen, dialled, by>>

-----------------------------------------------------------------------------
(* The dialling side: connect_and_maintain and _connect.                   *)

\* The peer/hello is sent; the other agent's /ws handler starts on it.
Dial(n, g) ==
  /\ outAt[<<n, g>>] = "dial"
  /\ outRun[<<n, g>>]
  /\ dialled < MaxConn
  /\ dialled' = dialled + 1
  /\ by' = [by EXCEPT ![dialled + 1] = n]
  /\ link' = [link EXCEPT ![dialled + 1] = "up"]
  /\ inAt' = [inAt EXCEPT ![dialled + 1] = "hello"]
  /\ inRun' = [inRun EXCEPT ![dialled + 1] = TRUE]
  /\ outAt' = [outAt EXCEPT ![<<n, g>>] = "hello"]
  /\ outConn' = [outConn EXCEPT ![<<n, g>>] = dialled + 1]
  /\ UNCHANGED <<peerVars, reg, taskVars, gen, outRun, pushes, upsets>>

\* Where the thread goes when a connection, or an attempt, is over.
Again(n, g) == IF outRun[<<n, g>>] THEN "dial" ELSE "ended"

\* No hello-ack, or no connection at all.
DialFails(n, g) ==
  /\ \/ outAt[<<n, g>>] = "hello"
     \/ outAt[<<n, g>>] = "dial" /\ ~outRun[<<n, g>>]
  /\ outAt' = [outAt EXCEPT ![<<n, g>>] = Again(n, g)]
  /\ outConn' = [outConn EXCEPT ![<<n, g>>] = 0]
  /\ link' = IF outAt[<<n, g>>] = "hello" THEN [link EXCEPT ![outConn[<<n, g>>]] = "down"] ELSE link
  /\ UNCHANGED <<peerVars, reg, taskVars, gen, outRun, dialled, by, inVars, pushes, upsets>>

\* The hello-ack is good: the socket is installed, even in a channel closed
\* meanwhile, whose receive loop ends at once.
DialSucceeds(n, g) ==
  LET c == outConn[<<n, g>>] IN
  /\ outAt[<<n, g>>] = "hello"
  /\ link[c] = "up" /\ inAt[c] # "hello"
  /\ IF outRun[<<n, g>>]
     THEN outAt' = [outAt EXCEPT ![<<n, g>>] = "live"] /\ UNCHANGED link
     ELSE outAt' = [outAt EXCEPT ![<<n, g>>] = "ended"] /\ link' = [link EXCEPT ![c] = "down"]
  /\ outConn' = [outConn EXCEPT ![<<n, g>>] = IF outRun[<<n, g>>] THEN @ ELSE 0]
  /\ UNCHANGED <<peerVars, reg, taskVars, gen, outRun, dialled, by, inVars, pushes, upsets>>

\* The receive loop finds its connection down.
OutDrops(n, g) ==
  /\ outAt[<<n, g>>] = "live"
  /\ link[outConn[<<n, g>>]] = "down"
  /\ outAt' = [outAt EXCEPT ![<<n, g>>] = Again(n, g)]
  /\ outConn' = [outConn EXCEPT ![<<n, g>>] = 0]
  /\ UNCHANGED <<peerVars, reg, taskVars, gen, outRun, connVars, inVars, pushes, upsets>>

\* An exception leaves the receive loop, and with it connect_and_maintain: the
\* thread is over, and nobody is told.  The channel stays registered, _running
\* and with its socket open, which nobody reads any more.
OutDies(n, g) ==
  /\ outAt[<<n, g>>] = "live"
  /\ outAt' = [outAt EXCEPT ![<<n, g>>] = "died"]
  /\ UNCHANGED <<peerVars, reg, taskVars, gen, outRun, outConn, connVars, inVars, pushes, upsets>>

-----------------------------------------------------------------------------
(* The accepting side: accept_channel and attach_inbound.                  *)

Greeted_Slip(d) == IF d = "none" THEN "inbound" ELSE d

\* What attach_inbound makes of the peer entry: an unknown peer is registered,
\* a peer we dialled ourselves becomes bidirectional.
Greeted(d) == CASE d = "none"     -> "incoming"
                [] d = "outgoing" -> "bidirectional"
                [] OTHER          -> d

\* The hello is good: the peer entry is added or upgraded and the ack sent.
Greet(c) ==
  /\ inAt[c] = "hello"
  /\ dir' = [dir EXCEPT ![Acceptor(c)] = Greeted(@)]
  /\ inAt' = [inAt EXCEPT ![c] = "greeted"]
  /\ UNCHANGED <<stored, asked, crossed, reg, taskVars, outVars, connVars, inRun, pushes, upsets>>

AcceptTells_Slip(c) ==
  LET m == Acceptor(c) IN
  /\ inAt[c] = "greeted"
  /\ reg' = [reg EXCEPT ![m] = In(c)]
  /\ Close(m, reg[m])
  /\ inAt' = [inAt EXCEPT ![c] = "live"]
  /\ pushes' = IF link[c] = "up" THEN pushes \cup {Push("bidirectional", by[c], c)} ELSE pushes
  /\ UNCHANGED <<peerVars, taskVars, gen, outAt, outConn, dialled, by, upsets>>

\* This channel replaces the registered one, which is closed, and a bidirectional
\* pair is announced to the dialler.
Accept(c) ==
  LET m == Acceptor(c) IN
  /\ inAt[c] = "greeted"
  /\ reg' = [reg EXCEPT ![m] = In(c)]
  /\ Close(m, reg[m])
  /\ inAt' = [inAt EXCEPT ![c] = "live"]
  /\ pushes' = IF dir[m] = "bidirectional" /\ link[c] = "up"
               THEN pushes \cup {Push("bidirectional", by[c], c)} ELSE pushes
  /\ UNCHANGED <<peerVars, taskVars, gen, outAt, outConn, dialled, by, upsets>>

\* The ack could not be sent: nothing is registered, but the entry has changed.
AcceptFails(c) ==
  /\ inAt[c] = "greeted"
  /\ link[c] = "down"
  /\ inAt' = [inAt EXCEPT ![c] = "ended"]
  /\ UNCHANGED <<peerVars, reg, taskVars, outVars, connVars, inRun, pushes, upsets>>

InDrops_Slip(c) ==
  /\ inAt[c] = "live"
  /\ link[c] = "down"
  /\ inAt' = [inAt EXCEPT ![c] = "ended"]
  /\ reg' = [reg EXCEPT ![Acceptor(c)] = None]
  /\ UNCHANGED <<peerVars, taskVars, outVars, connVars, inRun, pushes, upsets>>

\* The receive loop ends; the channel leaves peer_channels if it is still there.
InDrops(c) ==
  /\ inAt[c] = "live"
  /\ link[c] = "down"
  /\ inAt' = [inAt EXCEPT ![c] = "ended"]
  /\ reg' = [reg EXCEPT ![Acceptor(c)] = IF @ = In(c) THEN None ELSE @]
  /\ UNCHANGED <<peerVars, taskVars, outVars, connVars, inRun, pushes, upsets>>

\* An exception leaves the receive loop and with it accept_channel, which does not
\* get to peer_channels; the server shuts the socket of a handler that is over.
InDies(c) ==
  /\ inAt[c] = "live"
  /\ inAt' = [inAt EXCEPT ![c] = "ended"]
  /\ link' = [link EXCEPT ![c] = "down"]
  /\ UNCHANGED <<peerVars, reg, taskVars, outVars, dialled, by, inRun, pushes, upsets>>

-----------------------------------------------------------------------------
(* The pushes that change the peering, and the network.                    *)

\* handle_peer_bidirectional
Upgraded(p) ==
  /\ p.kind = "bidirectional"
  /\ dir' = [dir EXCEPT ![p.to] = IF @ = "outgoing" THEN "bidirectional" ELSE @]
  /\ pushes' = pushes \ {p}
  /\ UNCHANGED <<stored, asked, crossed, reg, taskVars, outVars, connVars, inVars, upsets>>

\* handle_peer_disconnect with reason "removed", up to state.peers.pop.
Removed(p) ==
  /\ p.kind = "removed"
  /\ pushes' = pushes \ {p}
  /\ IF dir[p.to] = "none"
     THEN UNCHANGED <<dir, tearing>>
     ELSE /\ dir' = [dir EXCEPT ![p.to] = "none"]
          /\ tearing' = [tearing EXCEPT ![p.to] = @ \cup {"notified"}]
  /\ UNCHANGED <<stored, asked, crossed, reg, opening, outVars, connVars, inVars, upsets>>

\* A push dies with its connection.
Lost(p) ==
  /\ link[p.via] = "down"
  /\ pushes' = pushes \ {p}
  /\ UNCHANGED <<peerVars, reg, taskVars, outVars, connVars, inVars, upsets>>

Break(c) ==
  /\ link[c] = "up"
  /\ link' = [link EXCEPT ![c] = "down"]
  /\ UNCHANGED <<peerVars, reg, taskVars, outVars, dialled, by, inVars, pushes, upsets>>

-----------------------------------------------------------------------------
Next ==
  \/ \E n \in Agents : ConnectPeer(n) \/ RemovePeer(n) \/ Flush(n) \/ Restart(n)
  \/ \E n \in Agents : \/ \E why \in {"peer", "boot"} : OpenChannel(n, why)
                       \/ \E why \in {"remove", "notified"} : TearDown(n, why)
  \/ \E n \in Agents, g \in Gens :
       Dial(n, g) \/ DialFails(n, g) \/ DialSucceeds(n, g) \/ OutDrops(n, g) \/ OutDies(n, g)
  \/ \E c \in Conns :
       Greet(c) \/ Accept(c) \/ AcceptFails(c) \/ InDrops(c) \/ InDies(c) \/ Break(c)
  \/ \E p \in pushes : Upgraded(p) \/ Removed(p) \/ Lost(p)

Spec == Init /\ [][Next]_vars

-----------------------------------------------------------------------------
(* Properties.                                                             *)

Dialling(n) == \E g \in Gens : outRun[<<n, g>>] /\ outAt[<<n, g>>] \in {"dial", "hello", "live"}

\* Its registered channel looks alive, but the thread died of an exception.
Died(n) == \E g \in Gens : outRun[<<n, g>>] /\ outAt[<<n, g>>] = "died" /\ reg[n] = Out(g)

\* A channel that runs is the one in peer_channels, on the dialling side and on
\* the accepting side: no forgotten thread redials a peer that was removed or
\* replaced, no socket whose thread died is left to nobody, and the end of a
\* replaced channel leaves its successor alone.
LiveIsRegistered ==
  /\ \A n \in Agents, g \in Gens :
       outRun[<<n, g>>] /\ outAt[<<n, g>>] \in {"dial", "hello", "live", "died"} => reg[n] = Out(g)
  /\ \A c \in Conns : inRun[c] /\ inAt[c] = "live" => reg[Acceptor(c)] = In(c)

\* An agent whose peer never dialled back has a thread that dials, through
\* restarts, drops and removals by either side.  There are two exceptions: the
\* receive loop of the registered channel died of an exception, which ends the
\* dialling thread too (channel.py 468), until the channel is replaced; and the
\* peer was added again while its removal was still closing whatever channel it
\* found, or while a hello it sent before the removal was still being answered.
OutgoingKeepsDialling ==
  \A n \in Agents :
    dir[n] = "outgoing" /\ ~crossed[n] => opening[n] # {} \/ Dialling(n) \/ Died(n)

\* A pair is bidirectional only when both agents asked for it; being dialled, or
\* a push about the other side, never makes an agent dial (attach_inbound: "that
\* would incorrectly upgrade the connecting peer's direction").
UpgradeNeedsBothSides ==
  \A n \in Agents : dir[n] = "bidirectional" => \A m \in Agents : asked[m]

\* "This ensures reconnection works regardless of which side restarted"
\* (agent.py): two agents that are each other's bidirectional peer, with nothing
\* under way and no thread dead, are connected or one of them is still dialling.
BidirectionalReconnects ==
  (\A n \in Agents : /\ dir[n] = "bidirectional"
                     /\ opening[n] = {} /\ tearing[n] = {} /\ ~crossed[n]
                     /\ \A g \in Gens : outAt[<<n, g>>] # "died")
  => \/ \E n \in Agents : Dialling(n)
     \/ \E c \in Conns : inAt[c] \in {"hello", "greeted", "live"} /\ link[c] = "up"
=============================================================================
