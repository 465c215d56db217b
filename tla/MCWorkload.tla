----------------------------- MODULE MCWorkload ------------------------------
(* Workload for two applications.                                          *)
EXTENDS Workload, TLC

CONSTANTS a1, a2
MCApps   == {a1, a2}
AnyOrder == Permutations(MCApps)

\* Two requests and writers at a time, one workload edited, one deleted, and
\* a behaviour is followed until a second thing goes wrong, or the ConfigMap is
\* known to be: what it holds matters to the others at a Restart, as "forgotten".
BoundedWork ==
  /\ Cardinality(reqs) + Len(writers) <= 2
  /\ Cardinality({a \in Apps : ra[a].spec > 1}) <= 1
  /\ Cardinality({a \in Apps : ra[a].here \in {"deleting", "gone"}}) <= 1
  /\ Cardinality(why) <= 1
  /\ why \cap {"unsaved", "raced"} = {}
=============================================================================
