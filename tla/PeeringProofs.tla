---------------------------- MODULE PeeringProofs ----------------------------
(***************************************************************************)
(* For any number of channels, connections, removals and restarts: a        *)
(* running channel is the registered one, an outgoing peer is always being  *)
(* dialled, and a bidirectional pair was asked for by both agents.          *)
(***************************************************************************)
EXTENDS Peering, TLAPS

\* A connection with a handler has a dialler.
KnownDialler == \A c \in Conns : inAt[c] # "new" => by[c] \in Agents

\* An agent that has an outgoing peer asked for it, and one that has an incoming
\* peer was asked.
EntryWasAsked ==
  \A n \in Agents :
    /\ {dir[n], stored[n]} \cap {"outgoing", "bidirectional"} # {} => asked[n]
    /\ {dir[n], stored[n]} \cap {"incoming", "bidirectional"} # {} => asked[Other(n)]

\* An agent that dials, or is about to, asked for the peer.
DiallerAsked ==
  /\ \A n \in Agents : /\ "peer" \in opening[n] => asked[n]
                       /\ \A g \in Gens : outRun[<<n, g>>] => asked[n]
  /\ \A c \in Conns : by[c] \in Agents => asked[by[c]]

\* Both did when one is told of it.
PushWasAsked == \A p \in pushes : p.kind = "bidirectional" => \A n \in Agents : asked[n]

\* Nothing is left that could close the channel of an outgoing peer.
NothingLeft ==
  \A n \in Agents :
    dir[n] = "outgoing" /\ ~crossed[n] =>
      tearing[n] = {} /\ \A c \in Conns : inAt[c] = "greeted" => Acceptor(c) # n

IInv ==
  /\ TypeOK /\ KnownDialler
  /\ EntryWasAsked /\ DiallerAsked /\ PushWasAsked
  /\ LiveIsRegistered
  /\ NothingLeft /\ OutgoingKeepsDialling

\* There are two agents.
LEMMA TwoAgents ==
  /\ \A x : Other(x) \in Agents /\ Other(x) # x
  /\ \A n \in Agents : Other(Other(n)) = n /\ \A m \in Agents : m = n \/ m = Other(n)
<1>1. PICK a \in Agents, b \in Agents : a # b /\ Agents = {a, b}
  BY PeeringAssumption
<1>2. ASSUME NEW x
      PROVE  Other(x) \in Agents /\ Other(x) # x
  <2>1. \E m \in Agents : m # x
    BY <1>1
  <2> QED
    BY <2>1 DEF Other
<1> QED
  BY <1>1, <1>2

\* Connections are accepted by an agent.
LEMMA AcceptorType ==
  \A c : Acceptor(c) \in Agents /\ (by[c] \in Agents => Other(Acceptor(c)) = by[c])
BY TwoAgents DEF Acceptor

\* The initial states satisfy the invariant.
LEMMA InitIInv ==
  ASSUME Init
  PROVE  IInv
<1>1. TypeOK
  BY PeeringAssumption DEF Init, TypeOK, Directions, ChannelsOf
<1>2. KnownDialler /\ EntryWasAsked /\ DiallerAsked /\ PushWasAsked
  BY PeeringAssumption DEF Init, KnownDialler, EntryWasAsked, DiallerAsked, PushWasAsked
<1>3. LiveIsRegistered /\ NothingLeft /\ OutgoingKeepsDialling
  BY DEF Init, LiveIsRegistered, NothingLeft, OutgoingKeepsDialling
<1> QED
  BY <1>1, <1>2, <1>3 DEF IInv

\* close() keeps the types.
LEMMA CloseType ==
  ASSUME TypeOK, NEW n \in Agents, NEW ch
  PROVE  /\ OutRunWithout(n, ch) \in [Agents \X Gens -> BOOLEAN]
         /\ InRunWithout(ch) \in [Conns -> BOOLEAN]
         /\ LinkWithout(n, ch) \in [Conns -> {"none", "up", "down"}]
<1>1. OutRunWithout(n, ch) \in [Agents \X Gens -> BOOLEAN]
  BY DEF OutRunWithout
<1>2. InRunWithout(ch) \in [Conns -> BOOLEAN]
  BY DEF InRunWithout
<1>3. LinkWithout(n, ch) \in [Conns -> {"none", "up", "down"}]
  BY DEF LinkWithout, TypeOK
<1> QED
  BY <1>1, <1>2, <1>3

\* Every step keeps the types.
LEMMA TypeStep ==
  ASSUME TypeOK, KnownDialler, [Next]_vars
  PROVE  TypeOK'
<1> USE DEF TypeOK, peerVars, taskVars, outVars, connVars, inVars
<1>1. ASSUME NEW n \in Agents, ConnectPeer(n)
      PROVE  TypeOK'
  <2>1. dir' \in [Agents -> Directions]
    BY <1>1 DEF ConnectPeer, Directions
  <2>2. opening' \in [Agents -> SUBSET {"peer", "boot"}]
    BY <1>1 DEF ConnectPeer
  <2>3. asked' \in [Agents -> BOOLEAN] /\ crossed' \in [Agents -> BOOLEAN]
    BY <1>1 DEF ConnectPeer
  <2> QED
    BY <1>1, <2>1, <2>2, <2>3 DEF ConnectPeer
<1>2. ASSUME NEW n \in Agents, RemovePeer(n)
      PROVE  TypeOK'
  <2>1. dir' \in [Agents -> Directions] /\ tearing' \in [Agents -> SUBSET {"remove", "notified"}]
    BY <1>2 DEF RemovePeer, Directions
  <2>2. upsets' \in 0..MaxUpsets
    BY <1>2, PeeringAssumption DEF RemovePeer
  <2> QED
    BY <1>2, <2>1, <2>2 DEF RemovePeer
<1>3. ASSUME NEW n \in Agents, Flush(n)
      PROVE  TypeOK'
  BY <1>3 DEF Flush
<1>4. ASSUME NEW n \in Agents, Restart(n)
      PROVE  TypeOK'
  <2>1. /\ dir' \in [Agents -> Directions] /\ crossed' \in [Agents -> BOOLEAN]
        /\ reg' \in [Agents -> ChannelsOf]
        /\ opening' \in [Agents -> SUBSET {"peer", "boot"}]
        /\ tearing' \in [Agents -> SUBSET {"remove", "notified"}]
    BY <1>4 DEF Restart, ChannelsOf
  <2>2. /\ outAt' \in [Agents \X Gens -> {"new", "dial", "hello", "live", "died", "ended"}]
        /\ outRun' \in [Agents \X Gens -> BOOLEAN]
        /\ outConn' \in [Agents \X Gens -> 0..MaxConn]
    BY <1>4, PeeringAssumption DEF Restart
  <2>3. /\ link' \in [Conns -> {"none", "up", "down"}]
        /\ inAt' \in [Conns -> {"new", "hello", "greeted", "live", "ended"}]
        /\ inRun' \in [Conns -> BOOLEAN]
    BY <1>4 DEF Restart
  <2>4. upsets' \in 0..MaxUpsets /\ pushes' \subseteq pushes
    BY <1>4, PeeringAssumption DEF Restart
  <2> QED
    BY <1>4, <2>1, <2>2, <2>3, <2>4 DEF Restart
<1>5. ASSUME NEW n \in Agents, NEW why \in {"peer", "boot"}, OpenChannel(n, why)
      PROVE  TypeOK'
  <2>1. opening' \in [Agents -> SUBSET {"peer", "boot"}]
    BY <1>5 DEF OpenChannel
  <2>2. CASE why = "boot" /\ dir[n] \in {"none", "incoming"}
    BY <1>5, <2>1, <2>2 DEF OpenChannel
  <2>3. CASE ~(why = "boot" /\ dir[n] \in {"none", "incoming"})
    <3>1. gen[n] + 1 \in Gens /\ gen' \in [Agents -> 0..MaxGen]
      BY <1>5, <2>3, PeeringAssumption DEF OpenChannel, Gens
    <3>2. reg' \in [Agents -> ChannelsOf]
      BY <1>5, <2>3, <3>1, SMTT(30) DEF OpenChannel, ChannelsOf
    <3>3. outAt' \in [Agents \X Gens -> {"new", "dial", "hello", "live", "died", "ended"}]
      BY <1>5, <2>3, <3>1 DEF OpenChannel
    <3>4. /\ outRun' \in [Agents \X Gens -> BOOLEAN] /\ inRun' \in [Conns -> BOOLEAN]
          /\ link' \in [Conns -> {"none", "up", "down"}]
      <4>1. /\ OutRunWithout(n, reg[n]) \in [Agents \X Gens -> BOOLEAN]
            /\ InRunWithout(reg[n]) \in [Conns -> BOOLEAN]
            /\ LinkWithout(n, reg[n]) \in [Conns -> {"none", "up", "down"}]
        BY CloseType
      <4>2. [OutRunWithout(n, reg[n]) EXCEPT ![<<n, gen[n] + 1>>] = TRUE] \in [Agents \X Gens -> BOOLEAN]
        BY <4>1
      <4> QED
        BY <1>5, <2>3, <4>1, <4>2 DEF OpenChannel
    <3> QED
      BY <1>5, <2>1, <2>3, <3>1, <3>2, <3>3, <3>4 DEF OpenChannel
  <2> QED
    BY <2>2, <2>3
<1>6. ASSUME NEW n \in Agents, NEW why \in {"remove", "notified"}, TearDown(n, why)
      PROVE  TypeOK'
  <2>1. tearing' \in [Agents -> SUBSET {"remove", "notified"}] /\ reg' \in [Agents -> ChannelsOf]
    BY <1>6 DEF TearDown, ChannelsOf
  <2>2. \A c \in LiveConns(n) : Push("removed", Other(n), c)
          \in [kind : {"bidirectional", "removed"}, to : Agents, via : Conns]
    BY TwoAgents DEF Push, LiveConns
  <2>3. pushes' \subseteq [kind : {"bidirectional", "removed"}, to : Agents, via : Conns]
    BY <1>6, <2>2 DEF TearDown
  <2> QED
    BY <1>6, <2>1, <2>3, CloseType DEF TearDown, Close
<1>7. ASSUME NEW n \in Agents, NEW g \in Gens, Dial(n, g)
      PROVE  TypeOK'
  <2>1. dialled + 1 \in Conns /\ dialled' \in 0..MaxConn
    BY <1>7, PeeringAssumption DEF Dial, Conns
  <2>2. dialled + 1 \in 0..MaxConn
    BY <2>1, PeeringAssumption DEF Conns
  <2>3. /\ outAt' \in [Agents \X Gens -> {"new", "dial", "hello", "live", "died", "ended"}]
        /\ outConn' \in [Agents \X Gens -> 0..MaxConn]
    BY <1>7, <2>2 DEF Dial
  <2>4. /\ by' \in [Conns -> Agents \cup {Nobody}]
        /\ link' \in [Conns -> {"none", "up", "down"}]
        /\ inAt' \in [Conns -> {"new", "hello", "greeted", "live", "ended"}]
        /\ inRun' \in [Conns -> BOOLEAN]
    BY <1>7, <2>1 DEF Dial
  <2> QED
    BY <1>7, <2>1, <2>3, <2>4 DEF Dial
<1>8. ASSUME NEW n \in Agents, NEW g \in Gens,
             DialFails(n, g) \/ DialSucceeds(n, g) \/ OutDrops(n, g) \/ OutDies(n, g)
      PROVE  TypeOK'
  <2>0. 0 \in 0..MaxConn
    BY PeeringAssumption
  <2>1. /\ outAt' \in [Agents \X Gens -> {"new", "dial", "hello", "live", "died", "ended"}]
        /\ outConn' \in [Agents \X Gens -> 0..MaxConn]
    <3>1. CASE DialFails(n, g)
      BY <2>0, <3>1 DEF DialFails, Again
    <3>2. CASE DialSucceeds(n, g)
      BY <2>0, <3>2, ZenonT(60) DEF DialSucceeds
    <3>3. CASE OutDrops(n, g)
      BY <2>0, <3>3 DEF OutDrops, Again
    <3>4. CASE OutDies(n, g)
      BY <3>4 DEF OutDies
    <3> QED
      BY <1>8, <3>1, <3>2, <3>3, <3>4
  <2>2. link' \in [Conns -> {"none", "up", "down"}]
    BY <1>8 DEF DialFails, DialSucceeds, OutDrops, OutDies
  <2> QED
    BY <1>8, <2>1, <2>2 DEF DialFails, DialSucceeds, OutDrops, OutDies
<1>9. ASSUME NEW c \in Conns, Greet(c)
      PROVE  TypeOK'
  <2>1. dir' \in [Agents -> Directions]
    BY <1>9 DEF Greet, Greeted, Directions
  <2> QED
    BY <1>9, <2>1 DEF Greet
<1>10. ASSUME NEW c \in Conns, Accept(c)
       PROVE  TypeOK'
  <2>1. reg' \in [Agents -> ChannelsOf] /\ inAt' \in [Conns -> {"new", "hello", "greeted", "live", "ended"}]
    BY <1>10 DEF Accept, ChannelsOf
  <2>2. Push("bidirectional", by[c], c) \in [kind : {"bidirectional", "removed"}, to : Agents, via : Conns]
    BY <1>10 DEF Accept, Push, KnownDialler
  <2>3. pushes' \subseteq [kind : {"bidirectional", "removed"}, to : Agents, via : Conns]
    BY <1>10, <2>2 DEF Accept
  <2> QED
    BY <1>10, <2>1, <2>3, CloseType, AcceptorType DEF Accept, Close
<1>11. ASSUME NEW c \in Conns, AcceptFails(c) \/ InDrops(c) \/ InDies(c) \/ Break(c)
       PROVE  TypeOK'
  BY <1>11, ZenonT(60) DEF AcceptFails, InDrops, InDies, Break, ChannelsOf
<1>12. ASSUME NEW p \in pushes, Upgraded(p) \/ Removed(p) \/ Lost(p)
       PROVE  TypeOK'
  <2>1. CASE Upgraded(p)
    <3>1. dir' \in [Agents -> Directions]
      BY <2>1 DEF Upgraded, Directions
    <3> QED
      BY <2>1, <3>1 DEF Upgraded
  <2>2. CASE Removed(p)
    <3>1. dir' \in [Agents -> Directions]
      BY <2>2 DEF Removed, Directions
    <3>2. tearing' \in [Agents -> SUBSET {"remove", "notified"}]
      BY <2>2 DEF Removed
    <3> QED
      BY <2>2, <3>1, <3>2 DEF Removed
  <2>3. CASE Lost(p)
    BY <2>3 DEF Lost
  <2> QED
    BY <1>12, <2>1, <2>2, <2>3
<1>13. CASE UNCHANGED vars
  BY <1>13 DEF vars
<1> QED
  BY <1>1, <1>2, <1>3, <1>4, <1>5, <1>6, <1>7, <1>8, <1>9, <1>10, <1>11, <1>12, <1>13, ZenonT(60) DEF Next

\* A handler begins with a connection somebody dials, and keeps it.
LEMMA DiallerStep ==
  ASSUME TypeOK, KnownDialler, [Next]_vars
  PROVE  KnownDialler'
<1> USE DEF TypeOK, KnownDialler, inVars, connVars
<1> DEFINE Kept == by' = by /\ \A c \in Conns : inAt'[c] # "new" => inAt[c] # "new"
<1>1. ASSUME NEW n \in Agents, ConnectPeer(n) \/ RemovePeer(n) \/ Flush(n) \/ Restart(n)
      PROVE  Kept
  BY <1>1 DEF ConnectPeer, RemovePeer, Flush, Restart
<1>2. ASSUME NEW n \in Agents, NEW why, OpenChannel(n, why) \/ TearDown(n, why)
      PROVE  Kept
  BY <1>2 DEF OpenChannel, TearDown
<1>3. ASSUME NEW n \in Agents, NEW g \in Gens, Dial(n, g)
      PROVE  KnownDialler'
  BY <1>3 DEF Dial
<1>4. ASSUME NEW n \in Agents, NEW g \in Gens,
             DialFails(n, g) \/ DialSucceeds(n, g) \/ OutDrops(n, g) \/ OutDies(n, g)
      PROVE  Kept
  BY <1>4 DEF DialFails, DialSucceeds, OutDrops, OutDies
<1>5. ASSUME NEW c \in Conns, Greet(c) \/ Accept(c) \/ AcceptFails(c) \/ InDrops(c) \/ InDies(c) \/ Break(c)
      PROVE  Kept
  BY <1>5 DEF Greet, Accept, AcceptFails, InDrops, InDies, Break
<1>6. ASSUME NEW p \in pushes, Upgraded(p) \/ Removed(p) \/ Lost(p)
      PROVE  Kept
  BY <1>6 DEF Upgraded, Removed, Lost
<1>7. ASSUME UNCHANGED vars
      PROVE  Kept
  BY <1>7 DEF vars
<1>8. ASSUME Kept
      PROVE  KnownDialler'
  BY <1>8
<1> HIDE DEF Kept
<1> QED
  BY <1>1, <1>2, <1>3, <1>4, <1>5, <1>6, <1>7, <1>8 DEF Next

\* Who asked goes on having asked.
LEMMA AskedStays ==
  ASSUME TypeOK, [Next]_vars
  PROVE  \A n \in Agents : asked[n] => asked'[n]
<1> USE DEF TypeOK, peerVars
<1>1. ASSUME NEW n \in Agents, ConnectPeer(n)
      PROVE  \A m \in Agents : asked[m] => asked'[m]
  BY <1>1 DEF ConnectPeer
<1>2. ASSUME NEW n \in Agents, RemovePeer(n) \/ Flush(n) \/ Restart(n)
      PROVE  asked' = asked
  BY <1>2 DEF RemovePeer, Flush, Restart
<1>3. ASSUME NEW n \in Agents, NEW why, OpenChannel(n, why) \/ TearDown(n, why)
      PROVE  asked' = asked
  BY <1>3 DEF OpenChannel, TearDown
<1>4. ASSUME NEW n \in Agents, NEW g \in Gens,
             Dial(n, g) \/ DialFails(n, g) \/ DialSucceeds(n, g) \/ OutDrops(n, g) \/ OutDies(n, g)
      PROVE  asked' = asked
  BY <1>4 DEF Dial, DialFails, DialSucceeds, OutDrops, OutDies
<1>5. ASSUME NEW c \in Conns, Greet(c) \/ Accept(c) \/ AcceptFails(c) \/ InDrops(c) \/ InDies(c) \/ Break(c)
      PROVE  asked' = asked
  BY <1>5 DEF Greet, Accept, AcceptFails, InDrops, InDies, Break
<1>6. ASSUME NEW p \in pushes, Upgraded(p) \/ Removed(p) \/ Lost(p)
      PROVE  asked' = asked
  BY <1>6 DEF Upgraded, Removed, Lost
<1>7. ASSUME UNCHANGED vars
      PROVE  asked' = asked
  BY <1>7 DEF vars
<1> QED
  BY <1>1, <1>2, <1>3, <1>4, <1>5, <1>6, <1>7 DEF Next

\* Every change of a peer entry is one somebody asked for.
LEMMA EntryStep ==
  ASSUME IInv, [Next]_vars
  PROVE  EntryWasAsked'
<1> USE DEF IInv, TypeOK, EntryWasAsked, peerVars
<1>1. \A n \in Agents : asked[n] => asked'[n]
  BY AskedStays
<1>2. ASSUME dir' = dir, stored' = stored
      PROVE  EntryWasAsked'
  BY <1>1, <1>2, TwoAgents
<1>3. ASSUME NEW n \in Agents, ConnectPeer(n)
      PROVE  EntryWasAsked'
  <2>1. asked'[n]
    BY <1>3 DEF ConnectPeer
  <2>2. dir[n] = "incoming" => asked[Other(n)]
    OBVIOUS
  <2>3. stored' = stored /\ \A m \in Agents : m # n => dir'[m] = dir[m]
    BY <1>3 DEF ConnectPeer
  <2>4. dir'[n] = IF dir[n] = "none" THEN "outgoing" ELSE "bidirectional"
    BY <1>3 DEF ConnectPeer
  <2>5. dir[n] \in {"none", "incoming"}
    BY <1>3 DEF ConnectPeer
  <2> QED
    BY <1>1, <2>1, <2>2, <2>3, <2>4, <2>5, TwoAgents
<1>4. ASSUME NEW n \in Agents, RemovePeer(n) \/ Restart(n) \/ Flush(n)
      PROVE  EntryWasAsked'
  <2>1. \A m \in Agents : dir'[m] \in {dir[m], stored[m], "none"} /\ stored'[m] \in {dir[m], stored[m]}
    BY <1>4 DEF RemovePeer, Restart, Flush
  <2> QED
    BY <1>1, <2>1, TwoAgents
<1>5. ASSUME NEW n \in Agents, NEW why, OpenChannel(n, why) \/ TearDown(n, why)
      PROVE  dir' = dir /\ stored' = stored
  BY <1>5 DEF OpenChannel, TearDown
<1>6. ASSUME NEW n \in Agents, NEW g \in Gens,
             Dial(n, g) \/ DialFails(n, g) \/ DialSucceeds(n, g) \/ OutDrops(n, g) \/ OutDies(n, g)
      PROVE  dir' = dir /\ stored' = stored
  BY <1>6 DEF Dial, DialFails, DialSucceeds, OutDrops, OutDies
<1>7. ASSUME NEW c \in Conns, Greet(c)
      PROVE  EntryWasAsked'
  <2> DEFINE m == Acceptor(c)
  <2>1. by[c] \in Agents
    BY <1>7 DEF Greet, KnownDialler
  <2>2. m \in Agents /\ asked[Other(m)]
    BY <2>1, AcceptorType DEF DiallerAsked
  <2>3. stored' = stored /\ dir' = [dir EXCEPT ![m] = Greeted(dir[m])]
    BY <1>7 DEF Greet
  <2> HIDE DEF m
  <2>4. \A n \in Agents : n # m => dir'[n] = dir[n]
    BY <2>2, <2>3
  <2>5. dir'[m] = Greeted(dir[m])
    BY <2>2, <2>3
  <2>6. dir[m] = "outgoing" => asked[m]
    BY <2>2
  <2> QED
    BY <1>1, <2>2, <2>3, <2>4, <2>5, <2>6, TwoAgents DEF Greeted, Directions
<1>8. ASSUME NEW c \in Conns, Accept(c) \/ AcceptFails(c) \/ InDrops(c) \/ InDies(c) \/ Break(c)
      PROVE  dir' = dir /\ stored' = stored
  BY <1>8 DEF Accept, AcceptFails, InDrops, InDies, Break
<1>9. ASSUME NEW p \in pushes, Upgraded(p)
      PROVE  EntryWasAsked'
  <2>1. \A n \in Agents : asked'[n]
    BY <1>1, <1>9 DEF Upgraded, PushWasAsked
  <2> QED
    BY <2>1, TwoAgents
<1>10. ASSUME NEW p \in pushes, Removed(p)
       PROVE  EntryWasAsked'
  <2>1. stored' = stored /\ \A m \in Agents : dir'[m] \in {dir[m], "none"}
    BY <1>10 DEF Removed
  <2> QED
    BY <1>1, <2>1, TwoAgents
<1>11. ASSUME (\E p \in pushes : Lost(p)) \/ UNCHANGED vars
       PROVE  dir' = dir /\ stored' = stored
  BY <1>11 DEF Lost, vars
<1> QED
  BY <1>2, <1>3, <1>4, <1>5, <1>6, <1>7, <1>8, <1>9, <1>10, <1>11 DEF Next

\* close() only ever stops.
LEMMA CloseStops ==
  ASSUME TypeOK, NEW n \in Agents, NEW ch
  PROVE  /\ \A m \in Agents, g \in Gens : OutRunWithout(n, ch)[<<m, g>>] => outRun[<<m, g>>]
         /\ \A g \in Gens : ch = Out(g) => ~OutRunWithout(n, ch)[<<n, g>>]
         /\ \A c \in Conns : InRunWithout(ch)[c] => inRun[c] /\ ch # In(c)
BY DEF OutRunWithout, InRunWithout, TypeOK

\* Who opens a channel, dials, or is to open one asked for it.
LEMMA AskedStep ==
  ASSUME IInv, [Next]_vars
  PROVE  DiallerAsked'
<1> USE DEF IInv, TypeOK, taskVars, outVars, connVars
<1> DEFINE Opening == \A n \in Agents : "peer" \in opening'[n] => "peer" \in opening[n]
           Running == \A n \in Agents, g \in Gens : outRun'[<<n, g>>] => outRun[<<n, g>>]
<1>1. \A n \in Agents : asked[n] => asked'[n]
  BY AskedStays
<1>2. ASSUME Opening, Running, by' = by
      PROVE  DiallerAsked'
  BY <1>1, <1>2 DEF DiallerAsked
<1>3. ASSUME NEW n \in Agents, ConnectPeer(n)
      PROVE  DiallerAsked'
  <2>1. asked'[n] /\ by' = by /\ outRun' = outRun /\ opening' = [opening EXCEPT ![n] = @ \cup {"peer"}]
    BY <1>3 DEF ConnectPeer
  <2> QED
    BY <1>1, <2>1 DEF DiallerAsked
<1>4. ASSUME NEW n \in Agents, RemovePeer(n) \/ Flush(n) \/ Restart(n)
      PROVE  Opening /\ Running /\ by' = by
  <2>1. CASE RemovePeer(n) \/ Flush(n)
    BY <2>1 DEF RemovePeer, Flush
  <2>2. CASE Restart(n)
    <3>1. /\ opening' = [opening EXCEPT ![n] = {"boot"}] /\ by' = by
          /\ outRun' = [o \in Agents \X Gens |-> outRun[o] /\ o[1] # n]
      BY <2>2 DEF Restart
    <3>2. Opening
      BY <3>1
    <3>3. Running
      BY <3>1
    <3> QED
      BY <3>1, <3>2, <3>3
  <2> QED
    BY <1>4, <2>1, <2>2
<1>5. ASSUME NEW n \in Agents, NEW why \in {"peer", "boot"}, OpenChannel(n, why)
      PROVE  DiallerAsked'
  <2>1. Opening /\ by' = by
    BY <1>5 DEF OpenChannel
  <2>2. CASE why = "boot" /\ dir[n] \in {"none", "incoming"}
    BY <1>2, <1>5, <2>1, <2>2 DEF OpenChannel
  <2>3. CASE ~(why = "boot" /\ dir[n] \in {"none", "incoming"})
    <3>1. asked[n]
      <4>1. CASE why = "peer"
        BY <1>5, <4>1 DEF OpenChannel, DiallerAsked
      <4>2. CASE dir[n] \notin {"none", "incoming"}
        <5>1. dir[n] \in {"outgoing", "bidirectional"}
          BY <4>2 DEF Directions
        <5> QED
          BY <5>1 DEF EntryWasAsked
      <4> QED
        BY <2>3, <4>1, <4>2
    <3>2. \A m \in Agents, g \in Gens : outRun'[<<m, g>>] => m = n \/ outRun[<<m, g>>]
      <4>1. outRun' = [OutRunWithout(n, reg[n]) EXCEPT ![<<n, gen[n] + 1>>] = TRUE]
        BY <1>5, <2>3 DEF OpenChannel
      <4>2. OutRunWithout(n, reg[n]) \in [Agents \X Gens -> BOOLEAN]
        BY CloseType
      <4> QED
        BY <4>1, <4>2, CloseStops
    <3> QED
      BY <1>1, <2>1, <3>1, <3>2 DEF DiallerAsked
  <2> QED
    BY <2>2, <2>3
<1>6. ASSUME NEW n \in Agents, NEW why, TearDown(n, why)
      PROVE  Opening /\ Running /\ by' = by
  BY <1>6, CloseStops DEF TearDown, Close
<1>7. ASSUME NEW n \in Agents, NEW g \in Gens, Dial(n, g)
      PROVE  DiallerAsked'
  <2>1. asked[n] /\ outRun' = outRun /\ opening' = opening /\ by' = [by EXCEPT ![dialled + 1] = n]
    BY <1>7 DEF Dial, DiallerAsked
  <2> QED
    BY <1>1, <2>1 DEF DiallerAsked
<1>8. ASSUME NEW n \in Agents, NEW g \in Gens,
             DialFails(n, g) \/ DialSucceeds(n, g) \/ OutDrops(n, g) \/ OutDies(n, g)
      PROVE  Opening /\ Running /\ by' = by
  BY <1>8 DEF DialFails, DialSucceeds, OutDrops, OutDies
<1>9. ASSUME NEW c \in Conns, Accept(c)
      PROVE  Opening /\ Running /\ by' = by
  BY <1>9, CloseStops, AcceptorType DEF Accept, Close
<1>10. ASSUME NEW c \in Conns, Greet(c) \/ AcceptFails(c) \/ InDrops(c) \/ InDies(c) \/ Break(c)
       PROVE  Opening /\ Running /\ by' = by
  BY <1>10 DEF Greet, AcceptFails, InDrops, InDies, Break
<1>11. ASSUME NEW p \in pushes, Upgraded(p) \/ Removed(p) \/ Lost(p)
       PROVE  Opening /\ Running /\ by' = by
  BY <1>11 DEF Upgraded, Removed, Lost
<1>12. ASSUME UNCHANGED vars
       PROVE  Opening /\ Running /\ by' = by
  BY <1>12 DEF vars
<1> HIDE DEF Opening, Running
<1> QED
  BY <1>2, <1>3, <1>4, <1>5, <1>6, <1>7, <1>8, <1>9, <1>10, <1>11, <1>12 DEF Next

\* The dialler is told that the pair is bidirectional only when it is.
LEMMA PushStep ==
  ASSUME IInv, [Next]_vars
  PROVE  PushWasAsked'
<1> USE DEF IInv, TypeOK, PushWasAsked
<1> DEFINE NoMore == \A p \in pushes' : p \in pushes \/ p.kind = "removed"
<1>1. \A n \in Agents : asked[n] => asked'[n]
  BY AskedStays
<1>2. ASSUME NoMore
      PROVE  PushWasAsked'
  BY <1>1, <1>2
<1>3. ASSUME NEW c \in Conns, Accept(c)
      PROVE  PushWasAsked'
  <2>1. CASE dir[Acceptor(c)] = "bidirectional"
    <3>1. asked[Acceptor(c)] /\ asked[Other(Acceptor(c))]
      BY <2>1, AcceptorType DEF EntryWasAsked
    <3> QED
      BY <1>1, <3>1, AcceptorType, TwoAgents
  <2>2. CASE dir[Acceptor(c)] # "bidirectional"
    BY <1>2, <1>3, <2>2 DEF Accept
  <2> QED
    BY <2>1, <2>2
<1>4. ASSUME NEW n \in Agents, NEW why, TearDown(n, why)
      PROVE  NoMore
  BY <1>4 DEF TearDown, Push
<1>5. ASSUME NEW n \in Agents, \/ ConnectPeer(n) \/ RemovePeer(n) \/ Flush(n) \/ Restart(n)
                               \/ \E why \in {"peer", "boot"} : OpenChannel(n, why)
      PROVE  NoMore
  BY <1>5 DEF ConnectPeer, RemovePeer, Flush, Restart, OpenChannel
<1>6. ASSUME NEW n \in Agents, NEW g \in Gens,
             Dial(n, g) \/ DialFails(n, g) \/ DialSucceeds(n, g) \/ OutDrops(n, g) \/ OutDies(n, g)
      PROVE  NoMore
  BY <1>6 DEF Dial, DialFails, DialSucceeds, OutDrops, OutDies
<1>7. ASSUME NEW c \in Conns, Greet(c) \/ AcceptFails(c) \/ InDrops(c) \/ InDies(c) \/ Break(c)
      PROVE  NoMore
  BY <1>7 DEF Greet, AcceptFails, InDrops, InDies, Break
<1>8. ASSUME NEW p \in pushes, Upgraded(p) \/ Removed(p) \/ Lost(p)
      PROVE  NoMore
  BY <1>8 DEF Upgraded, Removed, Lost
<1>9. ASSUME UNCHANGED vars
      PROVE  NoMore
  BY <1>9 DEF vars
<1> HIDE DEF NoMore
<1> QED
  BY <1>2, <1>3, <1>4, <1>5, <1>6, <1>7, <1>8, <1>9 DEF Next

\* A channel is registered once, and whoever replaces it has it closed.
LEMMA LiveStep ==
  ASSUME IInv, [Next]_vars
  PROVE  LiveIsRegistered'
<1> USE DEF IInv, TypeOK, LiveIsRegistered, taskVars, outVars, connVars, inVars
<1> DEFINE OutKept(n, g) == outRun'[<<n, g>>] /\ outAt'[<<n, g>>] \in {"dial", "hello", "live", "died"}
                              => outRun[<<n, g>>] /\ outAt[<<n, g>>] \in {"dial", "hello", "live", "died"}
           InKept(c) == inRun'[c] /\ inAt'[c] = "live" => inRun[c] /\ inAt[c] = "live" /\ by'[c] = by[c]
           Kept == /\ \A n \in Agents, g \in Gens : OutKept(n, g)
                   /\ \A c \in Conns : InKept(c)
<1>1. ASSUME Kept, reg' = reg
      PROVE  LiveIsRegistered'
  BY <1>1 DEF Acceptor
<1>2. ASSUME NEW n \in Agents, NEW why, OpenChannel(n, why)
      PROVE  LiveIsRegistered'
  <2>1. CASE why = "boot" /\ dir[n] \in {"none", "incoming"}
    BY <1>1, <1>2, <2>1 DEF OpenChannel
  <2>2. CASE ~(why = "boot" /\ dir[n] \in {"none", "incoming"})
    <3>1. /\ gen[n] + 1 \in Gens
          /\ reg' = [reg EXCEPT ![n] = Out(gen[n] + 1)]
          /\ outAt' = [outAt EXCEPT ![<<n, gen[n] + 1>>] = "dial"]
          /\ outRun' = [OutRunWithout(n, reg[n]) EXCEPT ![<<n, gen[n] + 1>>] = TRUE]
          /\ inRun' = InRunWithout(reg[n])
          /\ inAt' = inAt /\ by' = by
      BY <1>2, <2>2, PeeringAssumption DEF OpenChannel, Gens
    <3>2. OutRunWithout(n, reg[n]) \in [Agents \X Gens -> BOOLEAN]
      BY CloseType
    <3>3. ASSUME NEW m \in Agents, NEW g \in Gens,
                 outRun'[<<m, g>>], outAt'[<<m, g>>] \in {"dial", "hello", "live", "died"}
          PROVE  reg'[m] = Out(g)
      <4>1. CASE m = n /\ g = gen[n] + 1
        BY <3>1, <4>1
      <4>2. CASE ~(m = n /\ g = gen[n] + 1)
        <5>1. OutRunWithout(n, reg[n])[<<m, g>>] /\ outAt[<<m, g>>] \in {"dial", "hello", "live", "died"}
          BY <3>1, <3>2, <3>3, <4>2
        <5>2. reg[m] = Out(g)
          BY <5>1, CloseStops
        <5>3. m # n
          BY <5>1, <5>2, CloseStops
        <5> QED
          BY <3>1, <5>2, <5>3
      <4> QED
        BY <4>1, <4>2
    <3>4. ASSUME NEW c \in Conns, inRun'[c], inAt'[c] = "live"
          PROVE  reg'[Acceptor(c)] = In(c)
      <4>1. inRun[c] /\ reg[n] # In(c) /\ inAt[c] = "live"
        BY <3>1, <3>4, CloseStops
      <4>2. reg[Acceptor(c)] = In(c) /\ Acceptor(c) # n
        BY <4>1
      <4> QED
        BY <3>1, <4>2, AcceptorType
    <3>5. \A c \in Conns : Acceptor(c)' = Acceptor(c)
      BY <3>1 DEF Acceptor
    <3> QED
      BY <3>3, <3>4, <3>5
  <2> QED
    BY <2>1, <2>2
<1>3. ASSUME NEW n \in Agents, NEW why, TearDown(n, why)
      PROVE  LiveIsRegistered'
  <2>1. /\ reg' = [reg EXCEPT ![n] = None] /\ outAt' = outAt /\ inAt' = inAt /\ by' = by
        /\ outRun' = OutRunWithout(n, reg[n]) /\ inRun' = InRunWithout(reg[n])
    BY <1>3 DEF TearDown, Close
  <2>2. ASSUME NEW m \in Agents, NEW g \in Gens,
               outRun'[<<m, g>>], outAt'[<<m, g>>] \in {"dial", "hello", "live", "died"}
        PROVE  reg'[m] = Out(g)
    <3>1. outRun[<<m, g>>] /\ reg[m] = Out(g)
      BY <2>1, <2>2, CloseStops
    <3>2. m # n
      BY <2>1, <2>2, <3>1, CloseStops
    <3> QED
      BY <2>1, <3>1, <3>2
  <2>3. ASSUME NEW c \in Conns, inRun'[c], inAt'[c] = "live"
        PROVE  reg'[Acceptor(c)] = In(c)
    <3>1. inRun[c] /\ reg[n] # In(c) /\ inAt[c] = "live"
      BY <2>1, <2>3, CloseStops
    <3> QED
      BY <2>1, <3>1, AcceptorType
  <2>4. \A c \in Conns : Acceptor(c)' = Acceptor(c)
    BY <2>1 DEF Acceptor
  <2> QED
    BY <2>2, <2>3, <2>4
<1>4. ASSUME NEW n \in Agents, Restart(n)
      PROVE  LiveIsRegistered'
  <2>1. \A m \in Agents, g \in Gens : OutKept(m, g) /\ (outRun'[<<m, g>>] => m # n)
    BY <1>4 DEF Restart
  <2>2. \A c \in Conns : InKept(c) /\ (inRun'[c] => Acceptor(c) # n)
    BY <1>4 DEF Restart
  <2>3. \A m \in Agents : m # n => reg'[m] = reg[m]
    BY <1>4 DEF Restart
  <2>4. by' = by
    BY <1>4 DEF Restart
  <2>5. \A c \in Conns : Acceptor(c)' = Acceptor(c)
    BY <2>4 DEF Acceptor
  <2> QED
    BY <2>1, <2>2, <2>3, <2>5, AcceptorType
<1>5. ASSUME NEW c \in Conns, Accept(c)
      PROVE  LiveIsRegistered'
  <2> DEFINE m == Acceptor(c)
  <2>1. /\ reg' = [reg EXCEPT ![m] = In(c)] /\ outAt' = outAt /\ inAt' = [inAt EXCEPT ![c] = "live"]
        /\ by' = by /\ outRun' = OutRunWithout(m, reg[m]) /\ inRun' = InRunWithout(reg[m])
    BY <1>5 DEF Accept, Close
  <2>2. m \in Agents
    BY AcceptorType
  <2>3. ASSUME NEW n \in Agents, NEW g \in Gens,
               outRun'[<<n, g>>], outAt'[<<n, g>>] \in {"dial", "hello", "live", "died"}
        PROVE  reg'[n] = Out(g)
    <3> HIDE DEF m
    <3>1. outRun[<<n, g>>] /\ reg[n] = Out(g)
      BY <2>1, <2>2, <2>3, CloseStops
    <3>2. n # m
      BY <2>1, <2>2, <2>3, <3>1, CloseStops
    <3> QED
      BY <2>1, <3>1, <3>2
  <2>4. ASSUME NEW d \in Conns, inRun'[d], inAt'[d] = "live"
        PROVE  reg'[Acceptor(d)] = In(d)
    <3>1. CASE d = c
      BY <2>1, <2>2, <3>1
    <3>2. CASE d # c
      <4>1. inRun[d] /\ reg[m] # In(d) /\ inAt[d] = "live"
        BY <2>1, <2>2, <2>4, <3>2, CloseStops
      <4>2. reg[Acceptor(d)] = In(d) /\ Acceptor(d) # m
        BY <4>1
      <4> QED
        BY <2>1, <4>2, AcceptorType
    <3> QED
      BY <3>1, <3>2
  <2>5. \A d \in Conns : Acceptor(d)' = Acceptor(d)
    BY <2>1 DEF Acceptor
  <2> QED
    BY <2>3, <2>4, <2>5
<1>6. ASSUME NEW c \in Conns, InDrops(c)
      PROVE  LiveIsRegistered'
  <2> DEFINE m == Acceptor(c)
  <2>1. /\ reg' = [reg EXCEPT ![m] = IF reg[m] = In(c) THEN None ELSE reg[m]]
        /\ outAt' = outAt /\ outRun' = outRun /\ inAt' = [inAt EXCEPT ![c] = "ended"]
        /\ by' = by /\ inRun' = inRun
    BY <1>6 DEF InDrops
  <2>2. m \in Agents
    BY AcceptorType
  <2> HIDE DEF m
  <2>3. \A n \in Agents, g \in Gens : reg[n] = Out(g) => reg'[n] = Out(g)
    BY <2>1, <2>2 DEF Out, In
  <2>4. \A d \in Conns, n \in Agents : d # c /\ reg[n] = In(d) => reg'[n] = In(d)
    BY <2>1, <2>2 DEF In
  <2>5. \A d \in Conns : Acceptor(d)' = Acceptor(d)
    BY <2>1 DEF Acceptor
  <2> QED
    BY <2>1, <2>3, <2>4, <2>5, AcceptorType
<1>7. ASSUME NEW n \in Agents, ConnectPeer(n) \/ RemovePeer(n) \/ Flush(n)
      PROVE  Kept /\ reg' = reg
  BY <1>7 DEF ConnectPeer, RemovePeer, Flush
<1>8. ASSUME NEW n \in Agents, NEW g \in Gens, Dial(n, g)
      PROVE  Kept /\ reg' = reg
  BY <1>8 DEF Dial
<1>9. ASSUME NEW n \in Agents, NEW g \in Gens,
             DialFails(n, g) \/ DialSucceeds(n, g) \/ OutDrops(n, g) \/ OutDies(n, g)
      PROVE  Kept /\ reg' = reg
  <2>1. \A m \in Agents, h \in Gens : OutKept(m, h)
    <3>1. CASE DialFails(n, g)
      BY <3>1 DEF DialFails, Again
    <3>2. CASE DialSucceeds(n, g)
      <4>1. outRun' = outRun /\ outAt[<<n, g>>] = "hello"
        BY <3>2 DEF DialSucceeds
      <4>2. outAt' = [outAt EXCEPT ![<<n, g>>] = "live"] \/ outAt' = [outAt EXCEPT ![<<n, g>>] = "ended"]
        BY <3>2 DEF DialSucceeds
      <4> QED
        BY <4>1, <4>2
    <3>3. CASE OutDrops(n, g)
      BY <3>3 DEF OutDrops, Again
    <3>4. CASE OutDies(n, g)
      BY <3>4 DEF OutDies
    <3> QED
      BY <1>9, <3>1, <3>2, <3>3, <3>4
  <2>2. inRun' = inRun /\ inAt' = inAt /\ by' = by /\ reg' = reg
    BY <1>9 DEF DialFails, DialSucceeds, OutDrops, OutDies
  <2> QED
    BY <2>1, <2>2
<1>10. ASSUME NEW c \in Conns, Greet(c) \/ AcceptFails(c) \/ InDies(c) \/ Break(c)
       PROVE  Kept /\ reg' = reg
  BY <1>10 DEF Greet, AcceptFails, InDies, Break
<1>11. ASSUME NEW p \in pushes, Upgraded(p) \/ Removed(p) \/ Lost(p)
       PROVE  Kept /\ reg' = reg
  BY <1>11 DEF Upgraded, Removed, Lost
<1>12. ASSUME UNCHANGED vars
       PROVE  Kept /\ reg' = reg
  BY <1>12 DEF vars
<1> HIDE DEF Kept
<1> QED
  BY <1>1, <1>2, <1>3, <1>4, <1>5, <1>6, <1>7, <1>8, <1>9, <1>10, <1>11, <1>12 DEF Next

\* A peer added anew finds its removal over, or is marked as crossed.
LEMMA LeftStep ==
  ASSUME IInv, [Next]_vars
  PROVE  NothingLeft'
<1> USE DEF IInv, TypeOK, NothingLeft, peerVars, taskVars, connVars, inVars
<1> DEFINE NoNew == /\ \A n \in Agents : dir'[n] = "outgoing" /\ ~crossed'[n] =>
                          dir[n] = "outgoing" /\ ~crossed[n] /\ tearing'[n] \subseteq tearing[n]
                    /\ \A c \in Conns : inAt'[c] = "greeted" => inAt[c] = "greeted" /\ by'[c] = by[c]
<1>1. ASSUME NoNew
      PROVE  NothingLeft'
  BY <1>1 DEF Acceptor
<1>2. ASSUME NEW n \in Agents, ConnectPeer(n)
      PROVE  NothingLeft'
  <2>1. /\ tearing' = tearing /\ inAt' = inAt /\ by' = by
        /\ crossed' = [crossed EXCEPT ![n] = crossed[n] \/ Lingers(n)]
        /\ \A m \in Agents : m # n => dir'[m] = dir[m]
        /\ dir'[n] = "outgoing" => dir[n] = "none"
    BY <1>2 DEF ConnectPeer
  <2>2. \A c \in Conns : Acceptor(c)' = Acceptor(c)
    BY <2>1 DEF Acceptor
  <2>3. dir'[n] = "outgoing" /\ ~crossed'[n] =>
          tearing[n] = {} /\ \A c \in Conns : inAt[c] = "greeted" => Acceptor(c) # n
    BY <2>1 DEF Lingers
  <2>4. \A m \in Agents : m # n => crossed'[m] = crossed[m]
    BY <2>1
  <2> QED
    BY <2>1, <2>2, <2>3, <2>4
<1>3. ASSUME NEW n \in Agents, RemovePeer(n)
      PROVE  NoNew
  BY <1>3 DEF RemovePeer
<1>4. ASSUME NEW n \in Agents, Flush(n)
      PROVE  NoNew
  BY <1>4 DEF Flush
<1>5. ASSUME NEW n \in Agents, Restart(n)
      PROVE  NothingLeft'
  <2>1. /\ by' = by /\ tearing' = [tearing EXCEPT ![n] = {}]
        /\ \A m \in Agents : m # n => dir'[m] = dir[m] /\ crossed'[m] = crossed[m]
        /\ \A c \in Conns : inAt'[c] = "greeted" => inAt[c] = "greeted" /\ Acceptor(c) # n
    BY <1>5 DEF Restart
  <2>2. \A c \in Conns : Acceptor(c)' = Acceptor(c)
    BY <2>1 DEF Acceptor
  <2> QED
    BY <2>1, <2>2
<1>6. ASSUME NEW n \in Agents, NEW why, OpenChannel(n, why)
      PROVE  NoNew
  BY <1>6 DEF OpenChannel
<1>7. ASSUME NEW n \in Agents, NEW why, TearDown(n, why)
      PROVE  NoNew
  BY <1>7 DEF TearDown
<1>8. ASSUME NEW n \in Agents, NEW g \in Gens, Dial(n, g)
      PROVE  NoNew
  BY <1>8 DEF Dial
<1>9. ASSUME NEW n \in Agents, NEW g \in Gens,
             DialFails(n, g) \/ DialSucceeds(n, g) \/ OutDrops(n, g) \/ OutDies(n, g)
      PROVE  NoNew
  BY <1>9 DEF DialFails, DialSucceeds, OutDrops, OutDies
<1>10. ASSUME NEW c \in Conns, Greet(c)
       PROVE  NothingLeft'
  <2> DEFINE m == Acceptor(c)
  <2>1. /\ by' = by /\ tearing' = tearing /\ crossed' = crossed
        /\ inAt' = [inAt EXCEPT ![c] = "greeted"]
        /\ dir' = [dir EXCEPT ![m] = Greeted(dir[m])]
    BY <1>10 DEF Greet
  <2>2. m \in Agents
    BY AcceptorType
  <2>3. \A d \in Conns : Acceptor(d)' = Acceptor(d)
    BY <2>1 DEF Acceptor
  <2>4. dir'[m] # "outgoing"
    BY <2>1, <2>2 DEF Greeted
  <2>5. \A n \in Agents : n # m => dir'[n] = dir[n]
    BY <2>1, <2>2
  <2>6. \A d \in Conns : inAt'[d] = "greeted" => inAt[d] = "greeted" \/ Acceptor(d) = m
    BY <2>1
  <2> HIDE DEF m
  <2> QED
    BY <2>1, <2>3, <2>4, <2>5, <2>6
<1>11. ASSUME NEW c \in Conns, Accept(c) \/ AcceptFails(c) \/ InDrops(c) \/ InDies(c) \/ Break(c)
       PROVE  NoNew
  BY <1>11 DEF Accept, AcceptFails, InDrops, InDies, Break
<1>12. ASSUME NEW p \in pushes, Upgraded(p)
       PROVE  NoNew
  BY <1>12 DEF Upgraded
<1>13. ASSUME NEW p \in pushes, Removed(p)
       PROVE  NoNew
  BY <1>13 DEF Removed
<1>14. ASSUME NEW p \in pushes, Lost(p)
       PROVE  NoNew
  BY <1>14 DEF Lost
<1>15. ASSUME UNCHANGED vars
       PROVE  NoNew
  BY <1>15 DEF vars
<1> HIDE DEF NoNew
<1> QED
  BY <1>1, <1>2, <1>3, <1>4, <1>5, <1>6, <1>7, <1>8, <1>9, <1>10, <1>11, <1>12, <1>13, <1>14, <1>15
     DEF Next

\* Whatever stops a dialler of an outgoing peer starts another.
LEMMA KeepsStep ==
  ASSUME IInv, [Next]_vars
  PROVE  OutgoingKeepsDialling'
<1> USE DEF IInv, TypeOK, OutgoingKeepsDialling, peerVars, taskVars, outVars
<1> DEFINE Dials(n, g) == outRun[<<n, g>>] /\ outAt[<<n, g>>] \in {"dial", "hello", "live", "died"}
           DialsOn(n) == \A g \in Gens : Dials(n, g) =>
                           outRun'[<<n, g>>] /\ outAt'[<<n, g>>] \in {"dial", "hello", "live", "died"}
           Kept(n) == \/ ~(dir'[n] = "outgoing" /\ ~crossed'[n])
                      \/ /\ dir[n] = "outgoing" /\ ~crossed[n]
                         /\ opening[n] \subseteq opening'[n] /\ DialsOn(n)
                      \/ opening'[n] # {}
                      \/ \E g \in Gens : outRun'[<<n, g>>] /\ outAt'[<<n, g>>] \in {"dial", "hello", "live", "died"}
<1>1. ASSUME \A n \in Agents : Kept(n)
      PROVE  OutgoingKeepsDialling'
  <2>1. SUFFICES ASSUME NEW n \in Agents, dir'[n] = "outgoing", ~crossed'[n], opening'[n] = {}
                 PROVE  Dialling(n)' \/ Died(n)'
    OBVIOUS
  <2>2. \A g \in Gens : outRun'[<<n, g>>] /\ outAt'[<<n, g>>] = "died" => reg'[n] = Out(g)
    BY LiveStep DEF LiveIsRegistered
  <2>3. ASSUME dir[n] = "outgoing", ~crossed[n], opening[n] = {}
        PROVE  \E g \in Gens : Dials(n, g)
    BY <2>3 DEF Dialling, Died
  <2>4. \E g \in Gens : outRun'[<<n, g>>] /\ outAt'[<<n, g>>] \in {"dial", "hello", "live", "died"}
    BY <1>1, <2>1, <2>3
  <2> QED
    BY <2>2, <2>4 DEF Dialling, Died
<1>2. ASSUME NEW n \in Agents, ConnectPeer(n) \/ RemovePeer(n) \/ Flush(n)
      PROVE  \A m \in Agents : Kept(m)
  <2>1. CASE ConnectPeer(n)
    <3>1. /\ opening' = [opening EXCEPT ![n] = @ \cup {"peer"}]
          /\ outRun' = outRun /\ outAt' = outAt
          /\ \A m \in Agents : m # n => dir'[m] = dir[m] /\ crossed'[m] = crossed[m]
      BY <2>1 DEF ConnectPeer
    <3> QED
      BY <3>1, ZenonT(60)
  <2>2. CASE RemovePeer(n)
    <3>1. /\ opening' = opening /\ outRun' = outRun /\ outAt' = outAt /\ crossed' = crossed
          /\ \A m \in Agents : dir'[m] \in {dir[m], "none"}
      BY <2>2 DEF RemovePeer
    <3> QED
      BY <3>1
  <2>3. CASE Flush(n)
    BY <2>3 DEF Flush
  <2> QED
    BY <1>2, <2>1, <2>2, <2>3
<1>3. ASSUME NEW n \in Agents, Restart(n)
      PROVE  \A m \in Agents : Kept(m)
  <2>1. opening'[n] # {}
    BY <1>3 DEF Restart
  <2>2. ASSUME NEW m \in Agents, m # n
        PROVE  Kept(m)
    BY <1>3, <2>2 DEF Restart
  <2> QED
    BY <2>1, <2>2
<1>4. ASSUME NEW n \in Agents, NEW why, OpenChannel(n, why)
      PROVE  \A m \in Agents : Kept(m)
  <2>1. CASE why = "boot" /\ dir[n] \in {"none", "incoming"}
    BY <1>4, <2>1 DEF OpenChannel
  <2>2. CASE ~(why = "boot" /\ dir[n] \in {"none", "incoming"})
    <3>1. /\ gen[n] + 1 \in Gens
          /\ outAt' = [outAt EXCEPT ![<<n, gen[n] + 1>>] = "dial"]
          /\ outRun' = [OutRunWithout(n, reg[n]) EXCEPT ![<<n, gen[n] + 1>>] = TRUE]
          /\ opening' = [opening EXCEPT ![n] = @ \ {why}] /\ dir' = dir /\ crossed' = crossed
      BY <1>4, <2>2, PeeringAssumption DEF OpenChannel, Gens
    <3>2. OutRunWithout(n, reg[n]) \in [Agents \X Gens -> BOOLEAN]
      BY CloseType
    <3>3. outRun'[<<n, gen[n] + 1>>] /\ outAt'[<<n, gen[n] + 1>>] = "dial"
      BY <3>1, <3>2
    <3>4. ASSUME NEW m \in Agents, m # n
          PROVE  Kept(m)
      <4>1. \A g \in Gens : OutRunWithout(n, reg[n])[<<m, g>>] = outRun[<<m, g>>]
        BY <3>4 DEF OutRunWithout
      <4> QED
        BY <3>1, <3>2, <3>4, <4>1
    <3> QED
      BY <3>1, <3>3, <3>4
  <2> QED
    BY <2>1, <2>2
<1>5. ASSUME NEW n \in Agents, NEW why, TearDown(n, why)
      PROVE  \A m \in Agents : Kept(m)
  <2>1. ~(dir'[n] = "outgoing" /\ ~crossed'[n])
    BY <1>5 DEF TearDown, NothingLeft
  <2>2. ASSUME NEW m \in Agents, m # n
        PROVE  Kept(m)
    <3>1. \A g \in Gens : OutRunWithout(n, reg[n])[<<m, g>>] = outRun[<<m, g>>]
      BY <2>2 DEF OutRunWithout
    <3> QED
      BY <1>5, <2>2, <3>1 DEF TearDown, Close
  <2> QED
    BY <2>1, <2>2
<1>6. ASSUME NEW n \in Agents, NEW g \in Gens, Dial(n, g)
      PROVE  \A m \in Agents : Kept(m)
  BY <1>6 DEF Dial
<1>7. ASSUME NEW n \in Agents, NEW g \in Gens, DialFails(n, g)
      PROVE  \A m \in Agents : Kept(m)
  BY <1>7 DEF DialFails, Again
<1>8. ASSUME NEW n \in Agents, NEW g \in Gens, DialSucceeds(n, g)
      PROVE  \A m \in Agents : Kept(m)
  <2>1. outRun' = outRun /\ dir' = dir /\ crossed' = crossed /\ opening' = opening
    BY <1>8 DEF DialSucceeds
  <2>2. CASE outRun[<<n, g>>]
    <3>1. outAt' = [outAt EXCEPT ![<<n, g>>] = "live"]
      BY <1>8, <2>2 DEF DialSucceeds
    <3> QED
      BY <2>1, <3>1
  <2>3. CASE ~outRun[<<n, g>>]
    <3>1. outAt' = [outAt EXCEPT ![<<n, g>>] = "ended"]
      BY <1>8, <2>3 DEF DialSucceeds
    <3> QED
      BY <2>1, <2>3, <3>1
  <2> QED
    BY <2>2, <2>3
<1>9. ASSUME NEW n \in Agents, NEW g \in Gens, OutDrops(n, g) \/ OutDies(n, g)
      PROVE  \A m \in Agents : Kept(m)
  <2>1. CASE OutDrops(n, g)
    BY <2>1 DEF OutDrops, Again
  <2>2. CASE OutDies(n, g)
    BY <2>2 DEF OutDies
  <2> QED
    BY <1>9, <2>1, <2>2
<1>10. ASSUME NEW c \in Conns, Greet(c)
       PROVE  \A m \in Agents : Kept(m)
  BY <1>10, AcceptorType DEF Greet, Greeted
<1>11. ASSUME NEW c \in Conns, Accept(c)
       PROVE  \A m \in Agents : Kept(m)
  <2> DEFINE n == Acceptor(c)
  <2>1. /\ ~(dir'[n] = "outgoing" /\ ~crossed'[n]) /\ n \in Agents
        /\ dir' = dir /\ crossed' = crossed /\ opening' = opening /\ outAt' = outAt
        /\ outRun' = OutRunWithout(n, reg[n])
    BY <1>11, AcceptorType DEF Accept, Close, NothingLeft
  <2> HIDE DEF n
  <2>2. ASSUME NEW m \in Agents, m # n
        PROVE  Kept(m)
    <3>1. \A g \in Gens : OutRunWithout(n, reg[n])[<<m, g>>] = outRun[<<m, g>>]
      BY <2>2 DEF OutRunWithout
    <3> QED
      BY <2>1, <2>2, <3>1
  <2> QED
    BY <2>1, <2>2
<1>12. ASSUME NEW c \in Conns, AcceptFails(c) \/ InDrops(c) \/ InDies(c) \/ Break(c)
       PROVE  \A m \in Agents : Kept(m)
  BY <1>12 DEF AcceptFails, InDrops, InDies, Break
<1>13. ASSUME NEW p \in pushes, Upgraded(p) \/ Removed(p) \/ Lost(p)
       PROVE  \A m \in Agents : Kept(m)
  <2>1. opening' = opening /\ crossed' = crossed /\ outRun' = outRun /\ outAt' = outAt
    BY <1>13 DEF Upgraded, Removed, Lost
  <2>2. \A m \in Agents : dir'[m] = "outgoing" => dir[m] = "outgoing"
    BY <1>13 DEF Upgraded, Removed, Lost
  <2> QED
    BY <2>1, <2>2
<1>14. ASSUME UNCHANGED vars
       PROVE  \A m \in Agents : Kept(m)
  BY <1>14 DEF vars
<1> HIDE DEF Kept
<1> QED
  BY <1>1, <1>2, <1>3, <1>4, <1>5, <1>6, <1>7, <1>8, <1>9, <1>10, <1>11, <1>12, <1>13, <1>14 DEF Next

\* Every step keeps the invariant.
LEMMA StepIInv ==
  ASSUME IInv, [Next]_vars
  PROVE  IInv'
<1>1. TypeOK' /\ KnownDialler'
  BY TypeStep, DiallerStep DEF IInv
<1>2. EntryWasAsked' /\ DiallerAsked' /\ PushWasAsked'
  BY EntryStep, AskedStep, PushStep
<1>3. LiveIsRegistered' /\ NothingLeft' /\ OutgoingKeepsDialling'
  BY LiveStep, LeftStep, KeepsStep
<1> QED
  BY <1>1, <1>2, <1>3 DEF IInv

\* The invariant holds.
LEMMA IInvHolds == Spec => []IInv
<1>1. Init => IInv
  BY InitIInv
<1>2. IInv /\ [Next]_vars => IInv'
  BY StepIInv
<1> QED
  BY <1>1, <1>2, PTL DEF Spec

\* Every variable keeps its type.
THEOREM PeeringTypes == Spec => []TypeOK
<1>1. IInv => TypeOK
  BY DEF IInv
<1> QED
  BY <1>1, IInvHolds, PTL

\* A channel that runs is the one in peer_channels: no thread that was replaced
\* or removed redials, and its end leaves its successor alone (channel.py 821).
THEOREM RunningIsRegistered == Spec => []LiveIsRegistered
<1>1. IInv => LiveIsRegistered
  BY DEF IInv
<1> QED
  BY <1>1, IInvHolds, PTL

\* An agent whose peer never dialled back has a thread that dials, unless that
\* thread died of an exception in its receive loop (channel.py 468) or the peer
\* was added again while its removal was not over (routes/peers.py 252).
THEOREM DiallerIsKept == Spec => []OutgoingKeepsDialling
<1>1. IInv => OutgoingKeepsDialling
  BY DEF IInv
<1> QED
  BY <1>1, IInvHolds, PTL

\* A pair is bidirectional only when both agents asked for it (channel.py 414).
THEOREM BothAsked == Spec => []UpgradeNeedsBothSides
<1>1. IInv => UpgradeNeedsBothSides
  BY TwoAgents, ZenonT(60) DEF IInv, EntryWasAsked, UpgradeNeedsBothSides
<1> QED
  BY <1>1, IInvHolds, PTL
=============================================================================
