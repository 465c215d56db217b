---------------------------- MODULE RequestReply ----------------------------
(***************************************************************************)
(* What PeerChannel.call() promises its callers, with no sockets, threads  *)
(* or reconnections: a request is executed by the peer at most once, a     *)
(* call returns normally only when the peer's handler returned normally,   *)
(* and what a call ended with never changes.  A call that failed may still *)
(* be executed afterwards: a timeout says nothing about the peer.          *)
(***************************************************************************)
CONSTANT Calls      (* request ids, one per call() *)

VARIABLES
  outcome,          (* what the calling thread sees of each call       *)
  handled           (* what the peer's handler has done with each call *)

vars == <<outcome, handled>>

Outcomes == {"idle", "open", "ok", "failed"}
Results  == {"no", "returned", "raised"}

TypeOK == /\ outcome \in [Calls -> Outcomes]
          /\ handled \in [Calls -> Results]

Init == /\ outcome = [c \in Calls |-> "idle"]
        /\ handled = [c \in Calls |-> "no"]

\* A thread enters call().
Begin(c) == /\ outcome[c] = "idle"
            /\ outcome' = [outcome EXCEPT ![c] = "open"]
            /\ UNCHANGED handled

\* The peer's handler runs, once, for a call that was made.
Handle(c) == /\ outcome[c] # "idle"
             /\ handled[c] = "no"
             /\ \E r \in {"returned", "raised"} : handled' = [handled EXCEPT ![c] = r]
             /\ UNCHANGED outcome

\* call() returns the payload of the peer's answer.
Return(c) == /\ outcome[c] = "open"
             /\ handled[c] = "returned"
             /\ outcome' = [outcome EXCEPT ![c] = "ok"]
             /\ UNCHANGED handled

\* call() raises RuntimeError: timeout, dropped channel or an error reply.
Fail(c) == /\ outcome[c] = "open"
           /\ outcome' = [outcome EXCEPT ![c] = "failed"]
           /\ UNCHANGED handled

Next == \E c \in Calls : Begin(c) \/ Handle(c) \/ Return(c) \/ Fail(c)

Spec == Init /\ [][Next]_vars
=============================================================================
