--------------------------- MODULE PeerStoreProofs ---------------------------
(***************************************************************************)
(* For every number of saves and restarts: the invariants of module        *)
(* PeerStore, and that the Secret never goes back outside the two windows. *)
(***************************************************************************)
EXTENDS PeerStore, TLAPS

\* The initial states satisfy every part of the invariant.
LEMMA InitIInv ==
  ASSUME Init
  PROVE  IInv
<1>1. TypeOK
  <2>1. restarts \in 0..MaxRestarts
    BY PeerStoreAssumption DEF Init
  <2>2. raced \in BOOLEAN /\ failed \in BOOLEAN
    BY DEF Init
  <2>3. at \in [Saves -> Places]
    BY DEF Init, Places
  <2> QED
    BY <2>1, <2>2, <2>3 DEF Init, TypeOK
<1>2. NumbersAreTaken /\ SecretHasWriter
  BY DEF Init, NumbersAreTaken, SecretHasWriter, Numbered
<1>3. TableIsCovered /\ NewestWins
  BY DEF Init, TableIsCovered, NewestWins, Numbered, Newest
<1> QED
  BY <1>1, <1>2, <1>3 DEF IInv

\* Every action keeps the types.
LEMMA TypeOKStep ==
  ASSUME TypeOK, [Next]_vars
  PROVE  TypeOK'
<1> USE PeerStoreAssumption DEF TypeOK, Places, history
<1>1. ASSUME NEW s \in Saves, Change(s) \/ Serialise(s)
      PROVE  TypeOK'
  BY <1>1 DEF Change, Serialise
<1>2. ASSUME NEW s \in Saves, Number(s)
      PROVE  TypeOK'
  BY <1>2 DEF Number
<1>3. ASSUME NEW s \in Saves, Check(s)
      PROVE  TypeOK'
  BY <1>3 DEF Check
<1>4. ASSUME NEW s \in Saves, Patch(s) \/ PatchFails(s)
      PROVE  TypeOK'
  BY <1>4 DEF Patch, PatchFails
<1>5. CASE Restart
  <2>1. restarts' \in 0..MaxRestarts
    BY <1>5 DEF Restart
  <2>2. at' \in [Saves -> Places] /\ table' \in Nat
    BY <1>5 DEF Restart
  <2>3. raced' \in BOOLEAN /\ failed' \in BOOLEAN
    BY <1>5 DEF Restart
  <2>4. \A s \in Saves : at'[s] \in {"idle", "over"} /\ mySeq'[s] = 0
    BY <1>5 DEF Restart
  <2> QED
    BY <1>5, <2>1, <2>2, <2>3, <2>4 DEF Restart
<1>6. CASE UNCHANGED vars
  BY <1>6 DEF vars
<1> QED
  BY <1>1, <1>2, <1>3, <1>4, <1>5, <1>6 DEF Next

\* A number is one more than all the others when it is taken.
LEMMA NumbersAreTakenStep ==
  ASSUME TypeOK, NumbersAreTaken, [Next]_vars
  PROVE  NumbersAreTaken'
<1> USE DEF TypeOK, NumbersAreTaken, Numbered, Newest, history
<1>1. ASSUME NEW s \in Saves, Change(s) \/ Serialise(s)
      PROVE  NumbersAreTaken'
  BY <1>1 DEF Change, Serialise
<1>2. ASSUME NEW s \in Saves, Number(s)
      PROVE  NumbersAreTaken'
  BY <1>2 DEF Number
<1>3. ASSUME NEW s \in Saves, Check(s)
      PROVE  NumbersAreTaken'
  BY <1>3 DEF Check
<1>4. ASSUME NEW s \in Saves, Patch(s) \/ PatchFails(s)
      PROVE  NumbersAreTaken'
  BY <1>4 DEF Patch, PatchFails
<1>5. CASE Restart
  BY <1>5 DEF Restart
<1>6. CASE UNCHANGED vars
  BY <1>6 DEF vars
<1> QED
  BY <1>1, <1>2, <1>3, <1>4, <1>5, <1>6 DEF Next

\* Only Patch changes the Secret.
LEMMA SecretHasWriterStep ==
  ASSUME TypeOK, NumbersAreTaken, SecretHasWriter, NewestWins, [Next]_vars
  PROVE  SecretHasWriter'
<1> USE DEF TypeOK, NumbersAreTaken, SecretHasWriter, Numbered, history
<1>1. ASSUME NEW s \in Saves, Change(s) \/ Serialise(s)
      PROVE  SecretHasWriter'
  BY <1>1 DEF Change, Serialise
<1>2. ASSUME NEW s \in Saves, Number(s)
      PROVE  SecretHasWriter'
  BY <1>2 DEF Number
<1>3. ASSUME NEW s \in Saves, Check(s)
      PROVE  SecretHasWriter'
  BY <1>3 DEF Check
<1>4. ASSUME NEW s \in Saves, Patch(s) \/ PatchFails(s)
      PROVE  SecretHasWriter'
  BY <1>4 DEF Patch, PatchFails, NewestWins
<1>5. CASE Restart
  BY <1>5 DEF Restart
<1>6. CASE UNCHANGED vars
  BY <1>6 DEF vars
<1> QED
  BY <1>1, <1>2, <1>3, <1>4, <1>5, <1>6 DEF Next

\* Every change is followed by a serialisation of the table it left.
LEMMA TableIsCoveredStep ==
  ASSUME TypeOK, NumbersAreTaken, TableIsCovered, [Next]_vars
  PROVE  TableIsCovered'
<1> USE DEF TypeOK, NumbersAreTaken, TableIsCovered, Numbered, history
<1>1. ASSUME NEW s \in Saves, Change(s) \/ Serialise(s)
      PROVE  TableIsCovered'
  BY <1>1 DEF Change, Serialise
<1>2. ASSUME NEW s \in Saves, Number(s)
      PROVE  TableIsCovered'
  <2>1. mySeq'[s] = seq + 1 /\ at' = [at EXCEPT ![s] = "queued"] /\ snap' = snap /\ table' = table
    BY <1>2 DEF Number
  <2>2. \A t \in Saves : t # s => mySeq'[t] = mySeq[t]
    BY <1>2 DEF Number
  <2>3. CASE \E t \in Saves : at[t] = "changed"
    BY <1>2, <2>1, <2>3 DEF Number
  <2>4. CASE \E t \in Saves : (at[t] = "taken" \/ Numbered(t)) /\ snap[t] = table
    BY <2>1, <2>2, <2>4
  <2>5. CASE \A t \in Saves : at[t] \in {"idle", "over"} /\ ~Numbered(t)
    BY <1>2, <2>5 DEF Number
  <2> QED
    BY <2>3, <2>4, <2>5
<1>3. ASSUME NEW s \in Saves, Check(s)
      PROVE  TableIsCovered'
  BY <1>3 DEF Check
<1>4. ASSUME NEW s \in Saves, Patch(s) \/ PatchFails(s)
      PROVE  TableIsCovered'
  BY <1>4 DEF Patch, PatchFails
<1>5. CASE Restart
  BY <1>5 DEF Restart
<1>6. CASE UNCHANGED vars
  BY <1>6 DEF vars
<1> QED
  BY <1>1, <1>2, <1>3, <1>4, <1>5, <1>6 DEF Next

\* The two windows are the only way past the sequence number.
LEMMA NewestWinsStep ==
  ASSUME TypeOK, NumbersAreTaken, NewestWins, [Next]_vars
  PROVE  NewestWins'
<1> USE DEF TypeOK, NumbersAreTaken, NewestWins, Numbered, Newest, history
<1>1. ASSUME NEW s \in Saves, Change(s) \/ Serialise(s)
      PROVE  NewestWins'
  BY <1>1 DEF Change, Serialise
<1>2. ASSUME NEW s \in Saves, Number(s)
      PROVE  NewestWins'
  <2> SUFFICES ASSUME ~raced'
               PROVE  NewestWins'
    BY <1>2 DEF Number
  <2>0. ~raced /\ ~(\E t \in Saves : mySeq[t] > 0 /\ snap[t] > snap[s])
    BY <1>2 DEF Number
  <2>1. /\ ~raced /\ \A t \in Saves : mySeq[t] > 0 => snap[t] <= snap[s]
        /\ UNCHANGED <<snap, table, wrote, failed>>
        /\ at' = [at EXCEPT ![s] = "queued"] /\ at[s] = "taken"
        /\ mySeq' = [mySeq EXCEPT ![s] = seq + 1] /\ seq' = seq + 1
    BY <1>2, <2>0 DEF Number
  <2>2. \A t \in Saves : mySeq'[t] = seq' => t = s
    BY <2>1
  <2>3. \A t, u \in Saves : mySeq'[t] > 0 /\ mySeq'[t] < mySeq'[u] => snap'[t] <= snap'[u]
    BY <2>1
  <2> QED
    BY <2>1, <2>2, <2>3
<1>3. ASSUME NEW s \in Saves, Check(s)
      PROVE  NewestWins'
  <2>1. UNCHANGED <<snap, table, wrote, failed, mySeq, seq>>
    BY <1>3 DEF Check
  <2>2. CASE mySeq[s] < seq /\ at' = [at EXCEPT ![s] = "over"] /\ raced' = raced
    BY <1>3, <2>1, <2>2 DEF Check
  <2>3. CASE mySeq[s] = seq /\ at' = [at EXCEPT ![s] = "writing"]
    <3> SUFFICES ASSUME ~raced'
                 PROVE  NewestWins'
      BY <2>1
    <3>1. ~raced /\ \A t \in Saves : at[t] # "writing"
      BY <1>3, <2>3 DEF Check
    <3> QED
      BY <2>1, <2>3, <3>1
  <2> QED
    BY <1>3, <2>2, <2>3 DEF Check
<1>4. ASSUME NEW s \in Saves, Patch(s) \/ PatchFails(s)
      PROVE  NewestWins'
  BY <1>4 DEF Patch, PatchFails
<1>5. CASE Restart
  BY <1>5 DEF Restart
<1>6. CASE UNCHANGED vars
  BY <1>6 DEF vars
<1> QED
  BY <1>1, <1>2, <1>3, <1>4, <1>5, <1>6 DEF Next

\* However saves overlap: their numbers are taken in turn, the Secret is what its
\* writer had serialised, the table is on its way to it, and unless two saves met in
\* a window or a call failed the newest one wins (save_peers, tls.py 254-308).
THEOREM InductiveInvariant == Spec => []IInv
<1>1. Init => IInv
  BY InitIInv
<1>2. IInv /\ [Next]_vars => IInv'
  BY TypeOKStep, NumbersAreTakenStep, SecretHasWriterStep, TableIsCoveredStep, NewestWinsStep
     DEF IInv
<1> QED
  BY <1>1, <1>2, PTL DEF Spec

\* Sequence numbers, snapshots and tables keep their types.
THEOREM TypeCorrect == Spec => []TypeOK
<1>1. IInv => TypeOK
  BY DEF IInv
<1> QED
  BY <1>1, InductiveInvariant, PTL

\* When no save is under way the Secret holds the table in memory, however many
\* saves overlapped, unless two met in one of the windows or a call failed.
THEOREM SettledIsSaved == Spec => []SettledSecretIsTable
<1>1. IInv => SettledSecretIsTable
  <2> SUFFICES ASSUME IInv, Settled, ~raced, ~failed
               PROVE  secret = table
    BY DEF SettledSecretIsTable
  <2> USE DEF IInv, TypeOK
  <2>1. CASE seq = 0
    BY <2>1 DEF TableIsCovered, Numbered, Settled
  <2>2. CASE seq > 0
    <3>1. PICK s \in Saves : Newest(s)
      BY <2>2 DEF NumbersAreTaken
    <3>2. wrote = seq
      BY <3>1 DEF NewestWins, NumbersAreTaken, Newest, Numbered, Settled
    <3>3. secret = snap[s]
      BY <2>2, <3>1, <3>2 DEF SecretHasWriter, NumbersAreTaken, Newest, Numbered
    <3>4. PICK t \in Saves : Numbered(t) /\ snap[t] = table
      BY <2>2, <3>1 DEF TableIsCovered, Settled, Newest
    <3>5. snap[t] <= snap[s]
      BY <3>1, <3>4 DEF NewestWins, NumbersAreTaken, Newest, Numbered
    <3> QED
      BY <3>3, <3>4, <3>5 DEF NewestWins
  <2> QED
    BY <2>1, <2>2
<1> QED
  BY <1>1, InductiveInvariant, PTL

\* Outside the windows no write takes the Secret back to an older table.
THEOREM SecretNeverGoesBack == Spec => SecretMovesForward
<1>1. IInv /\ [Next]_vars => [~raced' /\ ~failed' => secret' >= secret]_vars
  <2> SUFFICES ASSUME IInv, Next, ~raced', ~failed'
               PROVE  secret' >= secret
    OBVIOUS
  <2> USE DEF IInv, TypeOK
  <2>1. ASSUME NEW s \in Saves, Patch(s)
        PROVE  secret' >= secret
    <3>1. ~raced /\ ~failed /\ secret' = snap[s] /\ at[s] = "writing"
      BY <2>1 DEF Patch
    <3>2. CASE wrote = 0
      BY <3>1, <3>2 DEF SecretHasWriter, Numbered
    <3>3. CASE wrote > 0
      <4>1. PICK t \in Saves : mySeq[t] = wrote /\ secret = snap[t]
        BY <3>3 DEF SecretHasWriter
      <4>2. wrote <= mySeq[s]
        BY <3>1 DEF NewestWins
      <4> QED
        BY <3>1, <3>3, <4>1, <4>2 DEF NewestWins, NumbersAreTaken, Numbered
    <3> QED
      BY <3>2, <3>3
  <2>2. ASSUME NEW s \in Saves,
               Change(s) \/ Serialise(s) \/ Number(s) \/ Check(s) \/ PatchFails(s)
        PROVE  secret' = secret
    BY <2>2 DEF Change, Serialise, Number, Check, PatchFails
  <2>3. CASE Restart
    BY <2>3 DEF Restart
  <2> QED
    BY <2>1, <2>2, <2>3 DEF Next
<1> QED
  BY <1>1, InductiveInvariant, PTL DEF Spec, SecretMovesForward
=============================================================================
