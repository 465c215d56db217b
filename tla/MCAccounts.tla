----------------------------- MODULE MCAccounts ------------------------------
(* Accounts for two people, two requests and three logins at once.        *)
EXTENDS Accounts, TLC

CONSTANTS n1, n2, r1, r2, t1, t2, t3
MCNames    == {n1, n2}
MCRequests == {r1, r2}
MCAttempts == {t1, t2, t3}
AnyOrder   == {n @@ r @@ t : n \in Permutations(MCNames), r \in Permutations(MCRequests),
                             t \in Permutations(MCAttempts)}

Limiting ==
  tries \o earlier \o forgot \o failures # <<>> \/ lock.on \/ \E t \in Attempts : attempt[t] # "idle"

\* The limiter shares no state with the Secret: it is exercised while no request
\* and no writer is at work, over one restart within the window that forgets
\* failures.  One writer of each value at a time, one thing that has gone wrong and
\* is yet to be repaired; a behaviour is followed until no property but TypeOK
\* speaks of it.
BoundedWork ==
  /\ Limiting => why = {} /\ saving = [on \in BOOLEAN |-> 0] /\ \A r \in Requests : req[r].at = "idle"
  /\ Len(forgot) <= 1
  /\ saving[TRUE] <= 1 /\ saving[FALSE] <= 1
  /\ Cardinality(why) <= 1
  /\ why \cap {"overlap", "stale-session", "system-session"} = {}
=============================================================================
