------------------------------ MODULE PeerStore ------------------------------
(***************************************************************************)
(* The peers Secret: save_peers and load_peers of src/porpulsion/tls.py.   *)
(*                                                                         *)
(* A save is one change of state.peers followed by a call of save_peers,   *)
(* by a thread of the web server or a worker of a channel, with nothing to *)
(* keep two saves apart.  The call serialises state.peers, takes the next  *)
(* sequence number and leaves the write to a background thread, which      *)
(* gives up if a higher number exists by then and otherwise patches the    *)
(* Secret outside the lock.  The table is abstracted to the number of      *)
(* changes made to it; 0 is the empty table.                               *)
(*                                                                         *)
(* X_Slip is X with a slip a later edit could make; no behaviour has it.   *)
(***************************************************************************)
EXTENDS Naturals

CONSTANTS
  Saves,         (* the saves made in a behaviour     *)
  MaxRestarts    (* bound on the restarts             *)

ASSUME PeerStoreAssumption == MaxRestarts \in Nat

VARIABLES
  table,      (* state.peers                                           *)
  secret,     (* what the Secret holds                                 *)
  seq,        (* _save_peers_seq                                       *)
  at,         (* where each save is                                    *)
  snap,       (* its peer_list                                         *)
  mySeq,      (* its my_seq, 0 before it has one                       *)
  restarts,   (* restarts so far                                       *)
  wrote,      (* history: the number of the save the Secret is from    *)
  raced,      (* history: two saves met in one of the two windows      *)
  failed      (* history: the API server failed a patch or a load      *)

history == <<wrote, raced, failed>>
vars == <<table, secret, seq, at, snap, mySeq, restarts, history>>

Places  == {"idle", "changed", "taken", "queued", "writing", "over"}
Settled == \A s \in Saves : at[s] \in {"idle", "over"}

TypeOK ==
  /\ table \in Nat /\ secret \in Nat /\ seq \in Nat /\ wrote \in Nat
  /\ at \in [Saves -> Places]
  /\ snap \in [Saves -> Nat]
  /\ mySeq \in [Saves -> Nat]
  /\ \A s \in Saves : mySeq[s] <= seq /\ (at[s] \in {"queued", "writing"} => mySeq[s] > 0)
  /\ restarts \in 0..MaxRestarts
  /\ raced \in BOOLEAN /\ failed \in BOOLEAN

Init ==
  /\ table = 0 /\ secret = 0 /\ seq = 0 /\ wrote = 0
  /\ at = [s \in Saves |-> "idle"]
  /\ snap = [s \in Saves |-> 0]
  /\ mySeq = [s \in Saves |-> 0]
  /\ restarts = 0
  /\ raced = FALSE /\ failed = FALSE

-----------------------------------------------------------------------------
\* state.peers is changed.
Change(s) ==
  /\ at[s] = "idle"
  /\ table' = table + 1
  /\ at' = [at EXCEPT ![s] = "changed"]
  /\ UNCHANGED <<secret, seq, snap, mySeq, restarts, history>>

\* peer_list is built.
Serialise(s) ==
  /\ at[s] = "changed"
  /\ snap' = [snap EXCEPT ![s] = table]
  /\ at' = [at EXCEPT ![s] = "taken"]
  /\ UNCHANGED <<table, secret, seq, mySeq, restarts, history>>

Number_Slip(s) ==
  /\ at[s] = "taken"
  /\ mySeq' = [mySeq EXCEPT ![s] = seq]
  /\ seq' = seq + 1
  /\ at' = [at EXCEPT ![s] = "queued"]
  /\ raced' = (raced \/ \E t \in Saves : mySeq[t] > 0 /\ snap[t] > snap[s])
  /\ UNCHANGED <<table, secret, snap, restarts, wrote, failed>>

\* The first window: a number is taken some time after the table was read, and
\* a save that read a newer table may have its number already.
Number(s) ==
  /\ at[s] = "taken"
  /\ seq' = seq + 1
  /\ mySeq' = [mySeq EXCEPT ![s] = seq + 1]
  /\ at' = [at EXCEPT ![s] = "queued"]
  /\ raced' = (raced \/ \E t \in Saves : mySeq[t] > 0 /\ snap[t] > snap[s])
  /\ UNCHANGED <<table, secret, snap, restarts, wrote, failed>>

Check_Slip(s) ==
  /\ at[s] = "queued"
  /\ at' = [at EXCEPT ![s] = "writing"]
  /\ raced' = (raced \/ \E t \in Saves : at[t] = "writing")
  /\ UNCHANGED <<table, secret, seq, snap, mySeq, restarts, wrote, failed>>

\* The second window: the check is over before the patch begins, so that two
\* saves may be writing at once.
Check(s) ==
  /\ at[s] = "queued"
  /\ \/ /\ mySeq[s] < seq
        /\ at' = [at EXCEPT ![s] = "over"]
        /\ UNCHANGED raced
     \/ /\ mySeq[s] = seq
        /\ at' = [at EXCEPT ![s] = "writing"]
        /\ raced' = (raced \/ \E t \in Saves : at[t] = "writing")
  /\ UNCHANGED <<table, secret, seq, snap, mySeq, restarts, wrote, failed>>

\* _patch_secret
Patch(s) ==
  /\ at[s] = "writing"
  /\ secret' = snap[s]
  /\ wrote' = mySeq[s]
  /\ at' = [at EXCEPT ![s] = "over"]
  /\ UNCHANGED <<table, seq, snap, mySeq, restarts, raced, failed>>

\* _patch_secret raises: logged, never tried again.
PatchFails(s) ==
  /\ at[s] = "writing"
  /\ failed' = TRUE
  /\ at' = [at EXCEPT ![s] = "over"]
  /\ UNCHANGED <<table, secret, seq, snap, mySeq, restarts, wrote, raced>>

\* The process dies with its threads and starts from the Secret; load_peers
\* takes any error for an empty table.
Restart ==
  /\ restarts < MaxRestarts
  /\ restarts' = restarts + 1
  /\ \/ table' = secret /\ failed' = FALSE
     \/ table' = 0 /\ failed' = TRUE
  /\ seq' = 0 /\ wrote' = 0
  /\ at' = [s \in Saves |-> IF at[s] = "idle" THEN "idle" ELSE "over"]
  /\ snap' = [s \in Saves |-> 0]
  /\ mySeq' = [s \in Saves |-> 0]
  /\ raced' = FALSE
  /\ UNCHANGED secret

Next ==
  \/ \E s \in Saves : \/ Change(s) \/ Serialise(s) \/ Number(s)
                      \/ Check(s) \/ Patch(s) \/ PatchFails(s)
  \/ Restart

Spec == Init /\ [][Next]_vars

-----------------------------------------------------------------------------
(* Properties.                                                             *)

\* When all is quiet the Secret holds the table in memory, however the saves
\* overlapped, unless they met in one of the two windows or the API server
\* failed: a restart then loses no peer and brings none back.
SettledSecretIsTable == Settled /\ ~raced /\ ~failed => secret = table

\* Outside the two windows the Secret never goes back to an older table.
SecretMovesForward == [][~raced' /\ ~failed' => secret' >= secret]_vars

\* "a stale background thread never overwrites a newer write that already
\* completed" (save_peers).
NoStaleOverwrite ==
  [][\A s \in Saves : Patch(s) => mySeq[s] >= wrote]_vars

-----------------------------------------------------------------------------
(* The inductive invariant the properties rest on.                         *)

Numbered(s) == mySeq[s] > 0
Newest(s)   == Numbered(s) /\ mySeq[s] = seq

\* Numbers are taken once, in order, by saves that have serialised the table.
NumbersAreTaken ==
  /\ \A s \in Saves : Numbered(s) => at[s] \in {"queued", "writing", "over"}
  /\ \A s, t \in Saves : Numbered(s) /\ mySeq[s] = mySeq[t] => s = t
  /\ seq > 0 => \E s \in Saves : Newest(s)
  /\ wrote <= seq

\* The Secret is what the save numbered wrote put there; before the first write
\* of this process it is at most as new as anything serialised.
SecretHasWriter ==
  /\ wrote > 0 => \E s \in Saves : mySeq[s] = wrote /\ secret = snap[s]
  /\ ~failed => secret <= table
  /\ ~failed /\ wrote = 0 =>
       \A s \in Saves : at[s] = "taken" \/ Numbered(s) => secret <= snap[s]

\* The table in memory is on its way: a save has yet to serialise it, or has
\* done so, or no save has begun since the process started.
TableIsCovered ==
  \/ \E s \in Saves : at[s] = "changed"
  \/ \E s \in Saves : (at[s] = "taken" \/ Numbered(s)) /\ snap[s] = table
  \/ (\A s \in Saves : at[s] \in {"idle", "over"} /\ ~Numbered(s)) /\ (failed \/ secret = table)

\* Unless saves met in a window, numbers follow the tables serialised, one save
\* writes at a time, none after a newer one, and the newest is not skipped.
NewestWins ==
  /\ \A s \in Saves : snap[s] <= table
  /\ ~raced =>
       /\ \A s, t \in Saves : Numbered(s) /\ mySeq[s] < mySeq[t] => snap[s] <= snap[t]
       /\ \A s, t \in Saves : at[s] = "writing" /\ at[t] = "writing" => s = t
       /\ \A s \in Saves : at[s] = "writing" => wrote <= mySeq[s]
       /\ \A s, t \in Saves : at[t] = "writing" /\ Newest(s) /\ s # t => at[s] = "queued"
       /\ \A s \in Saves : ~failed /\ Newest(s) /\ at[s] = "over" => wrote = seq

IInv == TypeOK /\ NumbersAreTaken /\ SecretHasWriter /\ TableIsCovered /\ NewestWins
=============================================================================
