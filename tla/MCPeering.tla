------------------------------ MODULE MCPeering ------------------------------
(***************************************************************************)
(* Peering for two agents: two channels opened by each and two connections *)
(* at most, a removal or restart, and five of all these together with the  *)
(* dialling threads that died.                                             *)
(***************************************************************************)
EXTENDS Peering, FiniteSets, TLC

CONSTANTS alice, bob
MCAgents    == {alice, bob}
Swap        == Permutations(MCAgents)
Dead        == {o \in DOMAIN outAt : outAt[o] = "died"}
BoundedWork == gen[alice] + gen[bob] + dialled + upsets + Cardinality(Dead) <= 5
=============================================================================
