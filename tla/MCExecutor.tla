----------------------------- MODULE MCExecutor ------------------------------
(* Executor for two deploys and two config patches at once.                *)
EXTENDS Executor, TLC

CONSTANTS d1, d2, p1, p2, v1, v2
MCDeploys == {d1, d2}
MCPatches == {p1, p2}
MCVolumes == {v1, v2}
\* The channel holds two pushes, one once something has gone wrong, and a behaviour
\* is followed until a status is lost, reordered or not written on either side, or
\* a second thing goes wrong.
BoundedWork ==
  /\ Len(pushes) <= IF why = {} THEN 2 ELSE 1
  /\ Cardinality(why) <= 1
  /\ why \cap {"lost-push", "reordered", "unwritten", "api"} = {}

AnyOrder == {d @@ p @@ v : d \in Permutations(MCDeploys), p \in Permutations(MCPatches),
                           v \in Permutations(MCVolumes)}
=============================================================================
