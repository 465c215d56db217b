--------------------------- MODULE WorkloadProofs ---------------------------
(***************************************************************************)
(* For every number of workloads and every quota, every safety property of *)
(* module Workload: its types, what becomes of a workload that was deleted, *)
(* refused, accepted or edited, the quota, and the saved approval queue.   *)
(*                                                                         *)
(* Each part of the invariant says of the requests on their way what its   *)
(* property says of workloads nobody is asking about, and is inductive     *)
(* relative to the types, to RequestsFit and to NotYetSubmitted.           *)
(***************************************************************************)
EXTENDS Workload, TLAPS, SequenceTheorems, FiniteSetTheorems

RemoteApps    == [here : {"absent", "live", "deleting", "gone"}, spec : 1..MaxSpec,
                  phase : {"Pending", "Failed", "Rejected", "Deleted"}, handled : 0..MaxSpec]
ExecutingApps == [here : {"absent", "bare", "live"}, spec : 1..MaxSpec, timeout : BOOLEAN]

\* While writers are under way the last of them has the queue as it is.
LastIsNewest ==
  why \cap {"raced", "api", "unsaved"} = {} =>
    IF writers = <<>> THEN cm = pending ELSE writers[Len(writers)] = pending

\* Every queue is empty at first.
LEMMA EmptyType == Empty \in Queues /\ NoEA \in ExecutingApps
<1>1. 0 \in 0..MaxSpec /\ 1 \in 1..MaxSpec
  BY WorkloadAssumption
<1> QED
  BY <1>1 DEF Empty, Queues, NoEA, ExecutingApps

\* What a handler makes of an answer.
LEMMA AfterType ==
  ASSUME ra \in [Apps -> RemoteApps], NEW r \in Request, NEW answer
  PROVE  After(r, answer) \in [Apps -> RemoteApps]
<1>1. r.app \in Apps /\ r.spec \in 0..MaxSpec
  BY WorkloadAssumption DEF Request
<1>2. /\ [ra EXCEPT ![r.app].here = "gone"] \in [Apps -> RemoteApps]
      /\ [ra EXCEPT ![r.app].handled = r.spec] \in [Apps -> RemoteApps]
      /\ [ra EXCEPT ![r.app].handled = r.spec, ![r.app].phase = "Failed"] \in [Apps -> RemoteApps]
  BY <1>1 DEF RemoteApps
<1> QED
  BY <1>2 DEF After

\* A request that moves on, with its answer or to its next place.
LEMMA RequestTypes ==
  ASSUME ra \in [Apps -> RemoteApps], reqs \subseteq Request, NEW r \in reqs
  PROVE  /\ \A answer : Answer(r, answer) => ra' \in [Apps -> RemoteApps] /\ reqs' = reqs \ {r}
         /\ \A place \in {"wire", "admitted", "status"} :
              Goes(r, place) => ra' = ra /\ reqs' \subseteq Request
<1>1. ASSUME NEW answer, Answer(r, answer)
      PROVE  ra' \in [Apps -> RemoteApps] /\ reqs' = reqs \ {r}
  BY <1>1, AfterType DEF Answer
<1>2. ASSUME NEW place \in {"wire", "admitted", "status"}, Goes(r, place)
      PROVE  ra' = ra /\ reqs' \subseteq Request
  <2>1. [r EXCEPT !.at = place] \in Request
    BY DEF Request
  <2> QED
    BY <1>2, <2>1 DEF Goes
<1> QED
  BY <1>1, <1>2

\* A status push leaves a RemoteApp.
LEMMA PushType ==
  ASSUME ra \in [Apps -> RemoteApps], why \subseteq Reasons, NEW a \in Apps,
         NEW phase \in {"Rejected", "Deleted"}, Push(a, phase)
  PROVE  ra' \in [Apps -> RemoteApps] /\ why' \subseteq Reasons /\ why \subseteq why'
<1>1. CASE ra' = [ra EXCEPT ![a].phase = IF ra[a].here \in {"absent", "gone"} THEN @ ELSE phase] /\ UNCHANGED why
  BY <1>1 DEF RemoteApps
<1>2. CASE UNCHANGED ra /\ why' = why \union {"lost-push"}
  BY <1>2 DEF Reasons
<1> QED
  BY <1>1, <1>2 DEF Push

\* Taking one element out of a sequence leaves a sequence of the same elements.
LEMMA WithoutType ==
  ASSUME NEW S, NEW s \in Seq(S), NEW i \in 1..Len(s)
  PROVE  SubSeq(s, 1, i - 1) \o SubSeq(s, i + 1, Len(s)) \in Seq(S)
<1>1. \A j \in 1..Len(s) : s[j] \in S
  BY ElementOfSeq
<1>2. (\A j \in 1..(i - 1) : s[j] \in S) /\ (\A j \in (i + 1)..Len(s) : s[j] \in S)
  BY <1>1
<1>3. SubSeq(s, 1, i - 1) \in Seq(S) /\ SubSeq(s, i + 1, Len(s)) \in Seq(S)
  BY <1>2, SubSeqProperties
<1> QED
  BY <1>3, ConcatProperties

\* Every action keeps the types.
LEMMA TypeOKStep ==
  ASSUME TypeOK, [Next]_vars
  PROVE  TypeOK'
<1> USE DEF TypeOK
<1>a. RemoteApps = [here : {"absent", "live", "deleting", "gone"}, spec : 1..MaxSpec,
                    phase : {"Pending", "Failed", "Rejected", "Deleted"}, handled : 0..MaxSpec]
  BY DEF RemoteApps
<1>e. ExecutingApps = [here : {"absent", "bare", "live"}, spec : 1..MaxSpec, timeout : BOOLEAN]
  BY DEF ExecutingApps
<1>1. ASSUME NEW a \in Apps, Submit(a) \/ EditSpec(a) \/ Delete(a) \/ CannotDeploy(a)
      PROVE  TypeOK'
  <2>1. ra' \in [Apps -> RemoteApps]
    <3>1. CASE Submit(a)
      BY <1>a, <3>1, ZenonT(60) DEF Submit, RemoteApps
    <3>2. CASE EditSpec(a)
      <4>1. ra[a].spec + 1 \in 1..MaxSpec
        BY <3>2, WorkloadAssumption DEF EditSpec
      <4>2. [ra[a] EXCEPT !.spec = ra[a].spec + 1] \in RemoteApps
        BY <4>1 DEF RemoteApps
      <4>3. ra' = [ra EXCEPT ![a] = [ra[a] EXCEPT !.spec = ra[a].spec + 1]]
        BY <3>2 DEF EditSpec
      <4> QED
        BY <1>a, <4>2, <4>3
    <3>3. CASE Delete(a)
      BY <1>a, <3>3, ZenonT(60) DEF Delete, RemoteApps
    <3>4. CASE CannotDeploy(a)
      <4>1. ra[a].spec \in 0..MaxSpec
        BY WorkloadAssumption
      <4> QED
        <5>1. /\ [ra[a] EXCEPT !.phase = "Failed", !.handled = ra[a].spec] \in RemoteApps
              /\ [ra[a] EXCEPT !.handled = ra[a].spec] \in RemoteApps
          BY <4>1 DEF RemoteApps
        <5>2. \/ ra' = [ra EXCEPT ![a] = [ra[a] EXCEPT !.phase = "Failed", !.handled = ra[a].spec]]
              \/ ra' = [ra EXCEPT ![a] = [ra[a] EXCEPT !.handled = ra[a].spec]]
          BY <3>4 DEF CannotDeploy
        <5> QED
          BY <1>a, <5>1, <5>2
    <3> QED
      BY <1>1, <3>1, <3>2, <3>3, <3>4
  <2>2. why' \subseteq Reasons
    BY <1>1 DEF Submit, EditSpec, Delete, CannotDeploy, Repeated, Reasons
  <2> QED
    BY <1>1, <1>a, <2>1, <2>2 DEF Submit, EditSpec, Delete, CannotDeploy
<1>2. ASSUME NEW a \in Apps, Forward(a)
      PROVE  TypeOK'
  <2>1. Due(a) \in Kinds
    BY <1>2 DEF Forward, Due, Kinds
  <2>2. [app |-> a, kind |-> Due(a), spec |-> ra[a].spec, at |-> "wire", waited |-> TRUE] \in Request
    BY <2>1 DEF Request
  <2> QED
    BY <1>2, <2>2 DEF Forward
<1>3. ASSUME NEW r \in reqs, GiveUp(r) \/ Lose(r)
      PROVE  TypeOK'
  <2>1. [r EXCEPT !.waited = FALSE] \in Request
    BY DEF Request
  <2>2. reqs' \subseteq Request
    BY <1>3, <2>1 DEF GiveUp, Lose
  <2>3. giveUps' \in 0..MaxGiveUps
    BY <1>3, WorkloadAssumption DEF GiveUp, Lose
  <2> QED
    BY <1>3, <2>2, <2>3 DEF GiveUp, Lose
<1>4. ASSUME NEW r \in reqs, Admit(r)
      PROVE  TypeOK'
  <2>1. why' \subseteq Reasons
    BY <1>4 DEF Admit, Admission, Refuse, Pass, Repeated, Reasons
  <2>2. \/ \E answer : Answer(r, answer)
        \/ Goes(r, "admitted")
    BY <1>4 DEF Admit, Admission, Refuse, Pass
  <2>3. ra' \in [Apps -> RemoteApps] /\ reqs' \subseteq Request
    BY <1>a, <2>2, RequestTypes
  <2> QED
    BY <1>4, <1>a, <2>1, <2>3 DEF Admit
<1>5. ASSUME NEW r \in reqs, Queue(r)
      PROVE  TypeOK'
  <2>1. pending' \in Queues
    BY <1>5, WorkloadAssumption DEF Queue, Queues, Request
  <2>2. writers' \in Seq(Queues)
    BY <1>5, <2>1, AppendProperties DEF Queue
  <2>3. ra' \in [Apps -> RemoteApps] /\ reqs' \subseteq Request
    BY <1>5, <1>a, RequestTypes DEF Queue
  <2> QED
    BY <1>5, <1>a, <2>1, <2>2, <2>3 DEF Queue, Reasons
<1>6. ASSUME NEW r \in reqs, Create(r)
      PROVE  TypeOK'
  <2>1. r.app \in Apps /\ r.spec \in 1..MaxSpec
    BY DEF Request
  <2>2. ea' \in [Apps -> ExecutingApps]
    <3>1. [NoEA EXCEPT !.here = "bare", !.spec = r.spec] \in ExecutingApps
      BY <2>1, EmptyType DEF ExecutingApps
    <3>2. [ea[r.app] EXCEPT !.spec = r.spec, !.timeout = FALSE] \in ExecutingApps
      BY <2>1, ZenonT(60) DEF ExecutingApps
    <3>3. \/ ea' = [ea EXCEPT ![r.app] = [NoEA EXCEPT !.here = "bare", !.spec = r.spec]]
          \/ ea' = [ea EXCEPT ![r.app] = [ea[r.app] EXCEPT !.spec = r.spec, !.timeout = FALSE]]
          \/ ea' = ea
      BY <1>6 DEF Create
    <3> QED
      BY <1>e, <2>1, <3>1, <3>2, <3>3
  <2>3. Goes(r, "status") \/ Answer(r, "ok")
    BY <1>6 DEF Create
  <2>4. ra' \in [Apps -> RemoteApps] /\ reqs' \subseteq Request
    BY <1>a, <2>3, RequestTypes
  <2> QED
    BY <1>6, <1>a, <1>e, <2>2, <2>4 DEF Create, Reasons
<1>7. ASSUME NEW r \in reqs, WriteStatus(r) \/ Patch(r) \/ HandleDelete(r)
      PROVE  TypeOK'
  <2>1. r.app \in Apps /\ r.spec \in 1..MaxSpec
    BY DEF Request
  <2>2. ea' \in [Apps -> ExecutingApps]
    <3>1. CASE WriteStatus(r)
      <4>1. ea' = [ea EXCEPT ![r.app] = [ea[r.app] EXCEPT !.here = IF @ = "bare" THEN "live" ELSE @]]
            \/ ea' = ea
        BY <3>1 DEF WriteStatus
      <4>2. [ea[r.app] EXCEPT !.here = IF @ = "bare" THEN "live" ELSE @] \in ExecutingApps
        <5>1. ea[r.app] \in ExecutingApps
          BY <1>e, <2>1
        <5> QED
          BY <5>1 DEF ExecutingApps
      <4> QED
        BY <1>e, <2>1, <4>1, <4>2
    <3>2. CASE Patch(r)
      <4>1. \/ ea' = [ea EXCEPT ![r.app] = IF Exists(r.app)
                       THEN [ea[r.app] EXCEPT !.spec = r.spec, !.timeout = FALSE] ELSE ea[r.app]]
            \/ ea' = ea
        BY <3>2 DEF Patch
      <4>2. ea[r.app] \in ExecutingApps
        BY <1>e, <2>1
      <4>3. [ea[r.app] EXCEPT !.spec = r.spec, !.timeout = FALSE] \in ExecutingApps
        BY <2>1, <4>2 DEF ExecutingApps
      <4> QED
        BY <1>e, <2>1, <4>1, <4>2, <4>3
    <3>3. CASE HandleDelete(r)
      <4>1. ea' = [ea EXCEPT ![r.app] = NoEA] \/ ea' = ea
        BY <3>3 DEF HandleDelete
      <4> QED
        BY <1>e, <2>1, <4>1, EmptyType
    <3> QED
      BY <1>7, <3>1, <3>2, <3>3
  <2>3. ra' \in [Apps -> RemoteApps] /\ reqs' \subseteq Request
    BY <1>7, <1>a, RequestTypes DEF WriteStatus, Patch, HandleDelete
  <2> QED
    BY <1>7, <1>a, <1>e, <2>2, <2>3 DEF WriteStatus, Patch, HandleDelete, Reasons
<1>8. ASSUME NEW a \in Apps, Approve(a)
      PROVE  TypeOK'
  <2>1. pending' \in Queues
    <3>1. pending' = [pending EXCEPT ![a] = 0]
      BY <1>8 DEF Approve
    <3> QED
      BY <3>1, WorkloadAssumption DEF Queues
  <2>2. writers' \in Seq(Queues)
    BY <1>8, <2>1, AppendProperties DEF Approve
  <2>3. Approval(a) \in Request
    <3>1. pending[a] \in 1..MaxSpec
      <4>1. pending[a] # 0
        BY <1>8 DEF Approve
      <4>2. pending[a] \in 0..MaxSpec
        BY DEF Queues
      <4> QED
        BY <4>1, <4>2
    <3> QED
      BY <3>1 DEF Approval, Request, Kinds
  <2> QED
    BY <1>8, <2>1, <2>2, <2>3 DEF Approve, Reasons
<1>9. ASSUME NEW a \in Apps, RejectApp(a)
      PROVE  TypeOK'
  <2>1. pending' \in Queues
    BY <1>9, WorkloadAssumption DEF RejectApp, Queues
  <2>2. writers' \in Seq(Queues)
    BY <1>9, <2>1, AppendProperties DEF RejectApp
  <2>3. ra' \in [Apps -> RemoteApps] /\ why' \subseteq Reasons
    BY <1>9, <1>a, PushType DEF RejectApp
  <2> QED
    BY <1>9, <1>a, <2>1, <2>2, <2>3 DEF RejectApp
<1>10. ASSUME NEW a \in Apps, DeleteEA(a)
       PROVE  TypeOK'
  <2>1. ra' \in [Apps -> RemoteApps] /\ why' \subseteq Reasons
    BY <1>10, <1>a, PushType DEF DeleteEA
  <2> QED
    BY <1>10, <1>a, <1>e, <2>1, EmptyType DEF DeleteEA
<1>11. ASSUME NEW a \in Apps, TimeOut(a)
       PROVE  TypeOK'
  <2>1. ea' \in [Apps -> ExecutingApps]
    BY <1>e, <1>11 DEF TimeOut
  <2>2. why' \subseteq Reasons
    BY <1>11 DEF TimeOut, Reasons
  <2> QED
    BY <1>11, <1>e, <2>1, <2>2 DEF TimeOut
<1>12. CASE ToggleApproval \/ SaveWithoutQueue
  <2>1. writers' \in Seq(Queues)
    <3>1. writers' = Append(writers, pending) \/ writers' = Append(writers, Empty)
      BY <1>12 DEF ToggleApproval, SaveWithoutQueue
    <3>2. Append(writers, pending) \in Seq(Queues) /\ Append(writers, Empty) \in Seq(Queues)
      BY EmptyType, AppendProperties
    <3> QED
      BY <3>1, <3>2
  <2> QED
    BY <1>12, <2>1 DEF ToggleApproval, SaveWithoutQueue, Reasons
<1>13. CASE WriteState
  <2>1. PICK i \in 1..Len(writers) :
          /\ writers' = SubSeq(writers, 1, i - 1) \o SubSeq(writers, i + 1, Len(writers))
          /\ cm' \in {cm, writers[i]} /\ why' \subseteq why \union {"raced", "api"}
          /\ UNCHANGED <<ra, reqs, approval, ea, pending, giveUps>>
    BY <1>13 DEF WriteState
  <2>2. writers' \in Seq(Queues)
    BY <2>1, WithoutType
  <2>3. cm' \in Queues
    BY <2>1, ElementOfSeq
  <2> QED
    BY <2>1, <2>2, <2>3 DEF Reasons
<1>14. CASE Restart
  <2>1. pending' \in Queues /\ writers' \in Seq(Queues) /\ reqs' \subseteq Request
    BY <1>14, EmptyType, EmptySeq DEF Restart
  <2>2. why' \subseteq Reasons
    BY <1>14 DEF Restart, Reasons
  <2> QED
    BY <1>14, <2>1, <2>2 DEF Restart
<1>15. CASE UNCHANGED vars
  BY <1>15 DEF vars
<1> QED
  BY <1>1, <1>2, <1>3, <1>4, <1>5, <1>6, <1>7, <1>8, <1>9, <1>10, <1>11, <1>12, <1>13, <1>14, <1>15
     DEF Next

\* The reasons that excuse these two are never taken back.
LEMMA ReasonsStay ==
  ASSUME TypeOK, [Next]_vars
  PROVE  why \subseteq why'
<1>1. ASSUME NEW a \in Apps, \/ Submit(a) \/ EditSpec(a) \/ Delete(a) \/ Forward(a) \/ CannotDeploy(a)
                             \/ Approve(a) \/ TimeOut(a)
      PROVE  why \subseteq why'
  BY <1>1 DEF Submit, EditSpec, Delete, Forward, CannotDeploy, Approve, TimeOut
<1>2. ASSUME NEW a \in Apps, RejectApp(a) \/ DeleteEA(a)
      PROVE  why \subseteq why'
  BY <1>2 DEF RejectApp, DeleteEA, Push
<1>3. ASSUME NEW r \in reqs, \/ GiveUp(r) \/ Lose(r) \/ Admit(r) \/ Queue(r) \/ Create(r)
                             \/ WriteStatus(r) \/ Patch(r) \/ HandleDelete(r)
      PROVE  why \subseteq why'
  BY <1>3 DEF GiveUp, Lose, Admit, Admission, Refuse, Pass, Queue, Create, WriteStatus, Patch, HandleDelete
<1>4. CASE ToggleApproval \/ SaveWithoutQueue \/ WriteState \/ Restart \/ UNCHANGED vars
  BY <1>4 DEF ToggleApproval, SaveWithoutQueue, WriteState, Restart, vars
<1> QED
  BY <1>1, <1>2, <1>3, <1>4 DEF Next

\* Whoever changes the queue hands the new one to a writer behind all others.
LEMMA LastIsNewestStep ==
  ASSUME TypeOK, LastIsNewest, [Next]_vars
  PROVE  LastIsNewest'
<1>t. writers \in Seq(Queues) /\ pending \in Queues
  BY DEF TypeOK
<1>p. TypeOK'
  BY TypeOKStep
<1>w. why \subseteq why'
  BY ReasonsStay
<1>0. ASSUME UNCHANGED <<pending, cm, writers>>
      PROVE  LastIsNewest'
  BY <1>0, <1>w DEF LastIsNewest
<1>1. ASSUME writers' = Append(writers, pending'), UNCHANGED cm
      PROVE  LastIsNewest'
  <2>1. pending' \in Queues
    BY <1>p DEF TypeOK
  <2>2. writers' # <<>> /\ writers'[Len(writers')] = pending'
    BY <1>t, <1>1, <2>1, AppendProperties
  <2> QED
    BY <2>2 DEF LastIsNewest
<1>2. ASSUME NEW a \in Apps, \/ Submit(a) \/ EditSpec(a) \/ Delete(a) \/ Forward(a) \/ CannotDeploy(a)
                             \/ DeleteEA(a) \/ TimeOut(a)
      PROVE  LastIsNewest'
  BY <1>0, <1>2 DEF Submit, EditSpec, Delete, Forward, CannotDeploy, DeleteEA, TimeOut
<1>3. ASSUME NEW a \in Apps, Approve(a) \/ RejectApp(a)
      PROVE  LastIsNewest'
  BY <1>1, <1>3 DEF Approve, RejectApp
<1>4. ASSUME NEW r \in reqs, \/ GiveUp(r) \/ Lose(r) \/ Admit(r) \/ Create(r)
                             \/ WriteStatus(r) \/ Patch(r) \/ HandleDelete(r)
      PROVE  LastIsNewest'
  BY <1>0, <1>4 DEF GiveUp, Lose, Admit, Create, WriteStatus, Patch, HandleDelete
<1>5. ASSUME NEW r \in reqs, Queue(r)
      PROVE  LastIsNewest'
  BY <1>1, <1>5 DEF Queue
<1>6. CASE ToggleApproval
  BY <1>1, <1>6 DEF ToggleApproval
<1>7. CASE SaveWithoutQueue
  BY <1>7 DEF SaveWithoutQueue, LastIsNewest
<1>8. CASE WriteState
  <2>1. PICK i \in 1..Len(writers) :
          /\ writers' = SubSeq(writers, 1, i - 1) \o SubSeq(writers, i + 1, Len(writers))
          /\ \/ cm' = writers[i] /\ why' = why \union (IF i # 1 THEN {"raced"} ELSE {})
             \/ UNCHANGED cm /\ why' = why \union {"api"}
          /\ UNCHANGED pending
    BY <1>8 DEF WriteState
  <2>2. CASE "api" \in why' \/ "raced" \in why'
    BY <2>2 DEF LastIsNewest
  <2>3. CASE i = 1 /\ cm' = writers[1]
    <3>n. Len(writers) \in Nat /\ Len(writers) >= 1
      <4>1. Len(writers) \in Nat
        BY <1>t, LenProperties
      <4> QED
        BY <2>1, <4>1
    <3>1. SubSeq(writers, 1, 0) = <<>>
      BY SubSeqEmpty
    <3>2. /\ SubSeq(writers, 2, Len(writers)) \in Seq(Queues)
          /\ Len(SubSeq(writers, 2, Len(writers))) = Len(writers) - 1
          /\ \A j \in 1..(Len(writers) - 1) : SubSeq(writers, 2, Len(writers))[j] = writers[j + 1]
      <4>1. \A j \in 2..Len(writers) : writers[j] \in Queues
        BY <1>t, <3>n, ElementOfSeq
      <4>2. /\ SubSeq(writers, 2, Len(writers)) \in Seq(Queues)
            /\ Len(SubSeq(writers, 2, Len(writers))) = IF 2 <= Len(writers) THEN Len(writers) - 2 + 1 ELSE 0
            /\ \A j \in 1..(Len(writers) - 2 + 1) : SubSeq(writers, 2, Len(writers))[j] = writers[2 + j - 1]
        BY <3>n, <4>1, SubSeqProperties
      <4>3. /\ (IF 2 <= Len(writers) THEN Len(writers) - 2 + 1 ELSE 0) = Len(writers) - 1
            /\ 1..(Len(writers) - 2 + 1) = 1..(Len(writers) - 1)
        <5>1. \A n \in Nat : n >= 1 => /\ (IF 2 <= n THEN n - 2 + 1 ELSE 0) = n - 1
                                       /\ n - 2 + 1 = n - 1
          OBVIOUS
        <5> QED
          BY <3>n, <5>1, Zenon
      <4>4. ASSUME NEW j \in 1..(Len(writers) - 1)
            PROVE  SubSeq(writers, 2, Len(writers))[j] = writers[j + 1]
        <5>1. j \in 1..(Len(writers) - 2 + 1) /\ 2 + j - 1 = j + 1
          BY <3>n
        <5> QED
          BY <4>2, <5>1
      <4> QED
        BY <4>2, <4>3, <4>4
    <3>3. writers' = SubSeq(writers, 2, Len(writers))
      <4>1. writers' = SubSeq(writers, 1, 0) \o SubSeq(writers, 2, Len(writers))
        BY <2>1, <2>3
      <4> QED
        BY <3>1, <3>2, <4>1, ConcatEmptySeq
    <3>4. CASE Len(writers) = 1
      <4>1. writers' = <<>>
        BY <3>2, <3>3, <3>4, EmptySeq
      <4>2. writers # <<>>
        BY <3>4, EmptySeq
      <4> QED
        BY <1>w, <2>1, <2>3, <3>4, <4>1, <4>2 DEF LastIsNewest
    <3>5. CASE Len(writers) > 1
      <4>1. Len(writers') = Len(writers) - 1
        BY <3>2, <3>3
      <4>2. writers' # <<>> /\ writers # <<>>
        BY <3>5, <3>n, <4>1, EmptySeq
      <4>3. writers'[Len(writers) - 1] = writers[Len(writers)]
        BY <3>2, <3>3, <3>5, <3>n
      <4> QED
        BY <1>w, <2>1, <4>1, <4>2, <4>3 DEF LastIsNewest
    <3>6. Len(writers) = 1 \/ Len(writers) > 1
      <4>1. \A n \in Nat : n >= 1 => n = 1 \/ n > 1
        OBVIOUS
      <4> QED
        BY <3>n, <4>1, Zenon
    <3> QED
      BY <3>4, <3>5, <3>6
  <2> QED
    BY <2>1, <2>2, <2>3
<1>9. CASE Restart
  BY <1>9 DEF Restart, LastIsNewest
<1>10. CASE UNCHANGED vars
  BY <1>0, <1>10 DEF vars
<1> QED
  BY <1>2, <1>3, <1>4, <1>5, <1>6, <1>7, <1>8, <1>9, <1>10 DEF Next

\* Whoever creates an ExecutingApp goes on to write its status.
LEMMA BareIsTransientStep ==
  ASSUME TypeOK, BareIsTransient, [Next]_vars
  PROVE  BareIsTransient'
<1>w. why \subseteq why'
  BY ReasonsStay
<1>t. ea \in [Apps -> ExecutingApps] /\ reqs \subseteq Request
  BY DEF TypeOK, ExecutingApps
<1>x. CASE "crash" \in why' \/ "api" \in why'
  BY <1>x DEF BareIsTransient
<1>0. ASSUME \A a \in Apps : ea'[a].here = "bare" => ea[a].here = "bare",
             \A r \in reqs : r.at = "status" => \E q \in reqs' : q.app = r.app /\ q.at = "status"
      PROVE  BareIsTransient'
  BY <1>0, <1>w DEF BareIsTransient
<1>1. ASSUME NEW a \in Apps, \/ Submit(a) \/ EditSpec(a) \/ Delete(a) \/ CannotDeploy(a) \/ Forward(a)
                             \/ Approve(a) \/ RejectApp(a)
      PROVE  BareIsTransient'
  <2>1. ea' = ea /\ reqs \subseteq reqs'
    BY <1>1 DEF Submit, EditSpec, Delete, CannotDeploy, Forward, Approve, RejectApp
  <2> QED
    BY <1>0, <2>1
<1>2. ASSUME NEW a \in Apps, DeleteEA(a) \/ TimeOut(a)
      PROVE  BareIsTransient'
  <2>1. reqs' = reqs
    BY <1>2 DEF DeleteEA, TimeOut
  <2>2. \A b \in Apps : ea'[b].here = "bare" => ea[b].here = "bare"
    <3>1. ea' = [ea EXCEPT ![a] = NoEA] \/ ea' = [ea EXCEPT ![a].timeout = TRUE]
      BY <1>2 DEF DeleteEA, TimeOut
    <3>2. CASE ea' = [ea EXCEPT ![a] = NoEA]
      BY <1>t, <3>2 DEF NoEA
    <3>3. CASE ea' = [ea EXCEPT ![a].timeout = TRUE]
      BY <1>t, <3>3 DEF ExecutingApps
    <3> QED
      BY <3>1, <3>2, <3>3
  <2> QED
    BY <1>0, <2>1, <2>2
<1>3. ASSUME NEW r \in reqs, GiveUp(r)
      PROVE  BareIsTransient'
  <2>1. [r EXCEPT !.waited = FALSE].app = r.app /\ [r EXCEPT !.waited = FALSE].at = r.at
    BY <1>t DEF Request
  <2>2. ea' = ea /\ reqs' = (reqs \ {r}) \union {[r EXCEPT !.waited = FALSE]}
    BY <1>3 DEF GiveUp
  <2> QED
    BY <1>0, <2>1, <2>2
<1>4. ASSUME NEW r \in reqs, Lose(r) \/ Admit(r) \/ Queue(r) \/ Patch(r) \/ HandleDelete(r)
      PROVE  BareIsTransient'
  <2>1. r.at # "status" /\ reqs \ {r} \subseteq reqs'
    BY <1>4 DEF Lose, Admit, Admission, Refuse, Pass, Queue, Patch, HandleDelete, Answer, Goes
  <2>2. \A b \in Apps : ea'[b].here = "bare" => ea[b].here = "bare"
    <3>1. CASE ea' = ea
      BY <3>1
    <3>2. CASE Patch(r)
      <4>1. CASE ea' = [ea EXCEPT ![r.app] = [@ EXCEPT !.spec = r.spec, !.timeout = FALSE]]
        BY <1>t, <4>1 DEF ExecutingApps
      <4>2. CASE ea' = [ea EXCEPT ![r.app] = @]
        BY <1>t, <4>2
      <4> QED
        BY <3>1, <3>2, <4>1, <4>2 DEF Patch
    <3>3. CASE HandleDelete(r)
      <4>1. CASE ea' = [ea EXCEPT ![r.app] = NoEA]
        BY <1>t, <4>1 DEF NoEA
      <4> QED
        BY <3>1, <3>3, <4>1 DEF HandleDelete
    <3> QED
      BY <1>4, <3>1, <3>2, <3>3 DEF Lose, Admit, Queue
  <2> QED
    BY <1>0, <2>1, <2>2
<1>5. ASSUME NEW r \in reqs, Create(r)
      PROVE  BareIsTransient'
  <2>1. r.at # "status" /\ reqs \ {r} \subseteq reqs'
    BY <1>5 DEF Create, Answer, Goes
  <2>2. CASE ea' = [ea EXCEPT ![r.app] = [NoEA EXCEPT !.here = "bare", !.spec = r.spec]] /\ Goes(r, "status")
    <3>1. [r EXCEPT !.at = "status"] \in reqs'
      BY <2>2 DEF Goes
    <3>2. [r EXCEPT !.at = "status"].app = r.app /\ [r EXCEPT !.at = "status"].at = "status"
      BY <1>t DEF Request
    <3>3. \A b \in Apps : ea'[b].here = "bare" => ea[b].here = "bare" \/ b = r.app
      BY <1>t, <2>2
    <3> QED
      BY <1>w, <2>1, <3>1, <3>2, <3>3 DEF BareIsTransient
  <2>3. CASE ea' = [ea EXCEPT ![r.app].spec = r.spec, ![r.app].timeout = FALSE]
    <3>1. \A b \in Apps : ea'[b].here = "bare" => ea[b].here = "bare"
      BY <1>t, <2>3 DEF ExecutingApps
    <3> QED
      BY <1>0, <2>1, <3>1
  <2>4. CASE ea' = ea
    BY <1>0, <2>1, <2>4
  <2> QED
    BY <1>5, <2>2, <2>3, <2>4 DEF Create
<1>6. ASSUME NEW r \in reqs, WriteStatus(r), "api" \notin why'
      PROVE  BareIsTransient'
  <2>1. /\ ea' = [ea EXCEPT ![r.app].here = IF @ = "bare" THEN "live" ELSE @]
        /\ reqs' = reqs \ {r}
    BY <1>6 DEF WriteStatus, Answer
  <2>2. \A b \in Apps : ea'[b].here = "bare" => ea[b].here = "bare" /\ b # r.app
    BY <1>t, <2>1 DEF ExecutingApps
  <2> QED
    BY <1>w, <2>1, <2>2 DEF BareIsTransient
<1>7. CASE ToggleApproval \/ SaveWithoutQueue \/ WriteState \/ UNCHANGED vars
  <2>1. ea' = ea /\ reqs' = reqs
    BY <1>7 DEF ToggleApproval, SaveWithoutQueue, WriteState, vars
  <2> QED
    BY <1>0, <2>1
<1>8. CASE Restart
  <2>1. ea' = ea /\ ((\E r \in reqs : r.at # "wire") => "crash" \in why')
    BY <1>8 DEF Restart
  <2> QED
    BY <1>w, <2>1 DEF BareIsTransient
<1> QED
  BY <1>x, <1>1, <1>2, <1>3, <1>4, <1>5, <1>6, <1>7, <1>8 DEF Next

\* What an answer does to the RemoteApp of its request, field by field.
LEMMA AnswerFacts ==
  ASSUME ra \in [Apps -> RemoteApps], reqs \subseteq Request, NEW r \in reqs, NEW answer,
         Answer(r, answer)
  PROVE  LET done    == r.waited /\ answer = "ok"
             refused == r.waited /\ answer = "refused" /\ r.kind = "receive"
             untold  == r.waited /\ answer = "unwritten"
         IN  /\ reqs' = reqs \ {r}
             /\ \A b \in Apps : b # r.app => ra'[b] = ra[b]
             /\ ra'[r.app].spec = ra[r.app].spec
             /\ ra'[r.app].here = IF done /\ r.kind = "delete" THEN "gone" ELSE ra[r.app].here
             /\ ra'[r.app].handled = IF refused \/ untold \/ (done /\ r.kind # "delete") THEN r.spec
                                     ELSE ra[r.app].handled
             /\ ra'[r.app].phase = IF refused THEN "Failed" ELSE ra[r.app].phase
<1> DEFINE done    == r.waited /\ answer = "ok"
           refused == r.waited /\ answer = "refused" /\ r.kind = "receive"
           untold  == r.waited /\ answer = "unwritten"
<1>t. r.app \in Apps /\ r.waited \in BOOLEAN
  BY DEF Request
<1>a. ra' = After(r, answer) /\ reqs' = reqs \ {r}
  BY DEF Answer
<1>1. CASE done /\ r.kind = "delete"
  <2>1. ra' = [ra EXCEPT ![r.app].here = "gone"]
    BY <1>1, <1>a DEF After
  <2> QED
    BY <1>1, <1>t, <1>a, <2>1 DEF RemoteApps
<1>2. CASE done /\ r.kind # "delete"
  <2>1. ra' = [ra EXCEPT ![r.app].handled = r.spec]
    BY <1>2, <1>a DEF After
  <2> QED
    BY <1>2, <1>t, <1>a, <2>1 DEF RemoteApps
<1>3. CASE refused
  <2>1. ra' = [ra EXCEPT ![r.app].handled = r.spec, ![r.app].phase = "Failed"]
    BY <1>3, <1>a DEF After
  <2> QED
    BY <1>3, <1>t, <1>a, <2>1 DEF RemoteApps
<1>4. CASE untold
  <2>1. ra' = [ra EXCEPT ![r.app].handled = r.spec]
    BY <1>4, <1>a DEF After
  <2> QED
    BY <1>4, <1>t, <1>a, <2>1 DEF RemoteApps
<1>5. CASE ~done /\ ~refused /\ ~untold
  <2>1. ra' = ra
    BY <1>5, <1>a, <1>t DEF After
  <2> QED
    BY <1>5, <1>a, <2>1
<1> QED
  BY <1>1, <1>2, <1>3, <1>4, <1>5

\* A request that moves on is the same but for its place, or for its caller.
LEMMA MovedRequest ==
  ASSUME reqs \subseteq Request, NEW r \in reqs
  PROVE  /\ \A place : LET q == [r EXCEPT !.at = place] IN
              /\ q.app = r.app /\ q.kind = r.kind /\ q.spec = r.spec
              /\ q.waited = r.waited /\ q.at = place
         /\ LET q == [r EXCEPT !.waited = FALSE] IN
              /\ q.app = r.app /\ q.kind = r.kind /\ q.spec = r.spec
              /\ ~q.waited /\ q.at = r.at
BY DEF Request

\* A push says something of one RemoteApp, and changes its phase alone.
LEMMA PushFacts ==
  ASSUME ra \in [Apps -> RemoteApps], NEW a \in Apps, NEW phase, Push(a, phase)
  PROVE  /\ \A b \in Apps : /\ ra'[b].here = ra[b].here /\ ra'[b].spec = ra[b].spec
                            /\ ra'[b].handled = ra[b].handled
                            /\ b # a => ra'[b] = ra[b]
         /\ \/ "lost-push" \in why'
            \/ ra[a].here \in {"absent", "gone"} /\ ra'[a] = ra[a]
            \/ ra'[a].phase = phase
<1>1. CASE ra' = [ra EXCEPT ![a].phase = IF ra[a].here \in {"absent", "gone"} THEN @ ELSE phase]
  BY <1>1 DEF RemoteApps
<1>2. CASE UNCHANGED ra /\ why' = why \union {"lost-push"}
  BY <1>2
<1> QED
  BY <1>1, <1>2 DEF Push

\* The kind of a request fits the RemoteApp it is about, and one caller waits for
\* each RemoteApp at most.
RequestsFit ==
  /\ \A q, r \in reqs : q.waited /\ r.waited /\ q.app = r.app => q = r
  /\ \A r \in reqs :
       /\ r.waited => ra[r.app].here \in {"live", "deleting"} /\ r.kind # "approve"
       /\ r.waited /\ r.kind = "receive" => ra[r.app].handled = 0
       /\ r.kind = "update" => ra[r.app].handled # 0
       /\ r.kind = "delete" => ra[r.app].here \in {"deleting", "gone"}
       /\ r.kind = "approve" => r.at # "wire"
       /\ r.at = "status" => r.kind \in {"receive", "approve"}

LEMMA RequestsFitStep ==
  ASSUME TypeOK, RequestsFit, [Next]_vars
  PROVE  RequestsFit'
<1>t. ra \in [Apps -> RemoteApps] /\ reqs \subseteq Request
  BY DEF TypeOK, RemoteApps
<1>k. \A r \in reqs : r.app \in Apps /\ r.spec # 0
  BY <1>t, WorkloadAssumption DEF Request
<1>f. \A b \in Apps : ra[b].handled \in Nat /\ ra[b].spec \in Nat \ {0}
  BY <1>t, WorkloadAssumption DEF RemoteApps
<1> USE DEF RequestsFit
<1>1. ASSUME NEW a \in Apps, \/ Submit(a) \/ EditSpec(a) \/ Delete(a) \/ CannotDeploy(a)
                             \/ RejectApp(a) \/ DeleteEA(a)
      PROVE  RequestsFit'
  <2>1. reqs' = reqs /\ \A b \in Apps : b # a => ra'[b] = ra[b]
    BY <1>t, <1>1 DEF Submit, EditSpec, Delete, CannotDeploy, RejectApp, DeleteEA, Push
  <2>2. CASE Submit(a) \/ EditSpec(a) \/ Delete(a) \/ RejectApp(a) \/ DeleteEA(a)
    <3>1. /\ ra'[a].handled = ra[a].handled
          /\ ra[a].here = "live" => ra'[a].here \in {"live", "deleting"}
          /\ ra[a].here # "live" /\ ra[a].here # "absent" => ra'[a].here = ra[a].here
      <4>1. CASE Submit(a) \/ EditSpec(a) \/ Delete(a)
        BY <1>t, <4>1 DEF Submit, EditSpec, Delete, RemoteApps
      <4>2. CASE RejectApp(a) \/ DeleteEA(a)
        BY <1>t, <4>2, PushFacts DEF RejectApp, DeleteEA
      <4> QED
        BY <2>2, <4>1, <4>2
    <3> QED
      BY <1>k, <2>1, <3>1
  <2>3. CASE CannotDeploy(a)
    <3>1. ra'[a].here = ra[a].here /\ ra'[a].handled # 0 /\ ~Calling(a)
      BY <1>t, <1>f, <2>3 DEF CannotDeploy, RemoteApps
    <3> QED
      BY <1>k, <2>1, <3>1 DEF Calling
  <2> QED
    BY <1>1, <2>2, <2>3
<1>2. ASSUME NEW a \in Apps, Forward(a)
      PROVE  RequestsFit'
  <2> DEFINE new == [app |-> a, kind |-> Due(a), spec |-> ra[a].spec, at |-> "wire", waited |-> TRUE]
  <2>1. ra' = ra /\ reqs' = reqs \union {new} /\ Due(a) # "nothing" /\ ~Calling(a)
    BY <1>2 DEF Forward
  <2>2. /\ Due(a) \in {"receive", "update", "delete"}
        /\ Due(a) = "receive" => ra[a].here = "live" /\ ra[a].handled = 0
        /\ Due(a) = "update" => ra[a].here = "live" /\ ra[a].handled # 0
        /\ Due(a) = "delete" => ra[a].here = "deleting"
    BY <2>1 DEF Due
  <2>3. /\ new.app = a /\ new.kind = Due(a) /\ new.at = "wire" /\ new.waited
        /\ \A q \in reqs : q.waited => q.app # a
    BY <2>1 DEF Calling
  <2> HIDE DEF new
  <2> QED
    BY <1>k, <2>1, <2>2, <2>3
<1>3. ASSUME NEW a \in Apps, Approve(a) \/ TimeOut(a)
      PROVE  RequestsFit'
  <2>1. ra' = ra /\ (reqs' = reqs \/ reqs' = reqs \union {Approval(a)})
    BY <1>3 DEF Approve, TimeOut
  <2>2. Approval(a).kind = "approve" /\ Approval(a).at = "admitted" /\ ~Approval(a).waited
    BY DEF Approval
  <2> QED
    BY <2>1, <2>2
<1>4. ASSUME NEW r \in reqs, GiveUp(r) \/ Lose(r)
      PROVE  RequestsFit'
  <2> DEFINE q == [r EXCEPT !.waited = FALSE]
  <2>1. ra' = ra /\ (reqs' = reqs \ {r} \/ reqs' = (reqs \ {r}) \union {q})
    BY <1>4 DEF GiveUp, Lose
  <2>2. q.app = r.app /\ q.kind = r.kind /\ ~q.waited /\ q.at = r.at
    BY <1>t, MovedRequest
  <2> HIDE DEF q
  <2> QED
    BY <2>1, <2>2
<1>5. ASSUME NEW r \in reqs, NEW answer, Answer(r, answer)
      PROVE  RequestsFit'
  <2>1. ASSUME NEW q \in reqs'
        PROVE  q \in reqs /\ (q.app = r.app /\ q.waited => ~r.waited)
    BY <1>t, <1>5, AnswerFacts
  <2>2. /\ ra'[r.app].here # ra[r.app].here => ra'[r.app].here = "gone" /\ r.waited
        /\ ra'[r.app].handled # ra[r.app].handled => ra'[r.app].handled # 0 /\ r.waited
    BY <1>t, <1>k, <1>5, AnswerFacts
  <2>3. \A b \in Apps : b # r.app => ra'[b] = ra[b]
    BY <1>t, <1>5, AnswerFacts
  <2> QED
    BY <1>k, <2>1, <2>2, <2>3
<1>6. ASSUME NEW r \in reqs, NEW place \in {"admitted", "status"}, Goes(r, place),
             place = "status" => r.kind \in {"receive", "approve"}
      PROVE  RequestsFit'
  <2> DEFINE q == [r EXCEPT !.at = place]
  <2>1. ra' = ra /\ reqs' = (reqs \ {r}) \union {q}
    BY <1>6 DEF Goes
  <2>2. q.app = r.app /\ q.kind = r.kind /\ q.waited = r.waited /\ q.at = place
    BY <1>t, MovedRequest
  <2> HIDE DEF q
  <2> QED
    BY <1>6, <2>1, <2>2
<1>7. ASSUME NEW r \in reqs, \/ Admit(r) \/ Queue(r) \/ Create(r) \/ WriteStatus(r) \/ Patch(r)
                             \/ HandleDelete(r)
      PROVE  RequestsFit'
  <2>1. \/ \E answer : Answer(r, answer)
        \/ Goes(r, "admitted")
        \/ Goes(r, "status") /\ r.kind \in {"receive", "approve"}
    BY <1>7 DEF Admit, Admission, Refuse, Pass, Queue, Create, WriteStatus, Patch, HandleDelete
  <2> QED
    BY <1>5, <1>6, <2>1
<1>8. CASE ToggleApproval \/ SaveWithoutQueue \/ WriteState \/ Restart \/ UNCHANGED vars
  BY <1>8 DEF ToggleApproval, SaveWithoutQueue, WriteState, Restart, vars
<1> QED
  BY <1>1, <1>2, <1>3, <1>4, <1>7, <1>8 DEF Next

AppStep(a) ==
  \/ Submit(a) \/ EditSpec(a) \/ Delete(a) \/ Forward(a) \/ CannotDeploy(a)
  \/ Approve(a) \/ RejectApp(a) \/ DeleteEA(a) \/ TimeOut(a)

RequestStep(r) ==
  \/ GiveUp(r) \/ Lose(r) \/ Admit(r) \/ Queue(r) \/ Create(r)
  \/ WriteStatus(r) \/ Patch(r) \/ HandleDelete(r)

\* Nothing of a workload changes.
Untouched(a) ==
  /\ ra'[a] = ra[a] /\ ea'[a] = ea[a] /\ pending'[a] = pending[a]
  /\ \A r : r.app = a => (r \in reqs' <=> r \in reqs)

\* A step is about one workload, or it is a restart.
LEMMA OneAtATime ==
  ASSUME TypeOK, [Next]_vars, NEW a \in Apps
  PROVE  Untouched(a) \/ AppStep(a) \/ (\E r \in reqs : r.app = a /\ RequestStep(r)) \/ Restart
<1>t. /\ ra \in [Apps -> RemoteApps] /\ reqs \subseteq Request
      /\ ea \in [Apps -> ExecutingApps] /\ pending \in Queues
  BY DEF TypeOK, RemoteApps, ExecutingApps
<1>1. ASSUME NEW b \in Apps, AppStep(b), b # a
      PROVE  Untouched(a)
  <2>1. CASE Submit(b) \/ EditSpec(b) \/ Delete(b) \/ CannotDeploy(b) \/ TimeOut(b)
    BY <1>t, <1>1, <2>1 DEF Submit, EditSpec, Delete, CannotDeploy, TimeOut, Untouched
  <2>2. CASE Forward(b)
    BY <1>1, <2>2 DEF Forward, Untouched
  <2>3. CASE Approve(b)
    <3>1. reqs' = reqs \union {Approval(b)} /\ Approval(b).app = b /\ UNCHANGED <<ra, ea>>
      BY <2>3 DEF Approve, Approval
    <3>2. pending'[a] = pending[a]
      BY <1>t, <1>1, <2>3 DEF Approve, Queues
    <3> QED
      BY <1>1, <3>1, <3>2 DEF Untouched
  <2>4. CASE RejectApp(b) \/ DeleteEA(b)
    <3>1. ra'[a] = ra[a]
      BY <1>t, <1>1, <2>4, PushFacts DEF RejectApp, DeleteEA
    <3> QED
      BY <1>t, <1>1, <2>4, <3>1 DEF RejectApp, DeleteEA, Untouched, Queues
  <2> QED
    BY <1>1, <2>1, <2>2, <2>3, <2>4 DEF AppStep
<1>2. ASSUME NEW r \in reqs, RequestStep(r), r.app # a
      PROVE  Untouched(a)
  <2>1. ra'[a] = ra[a] /\ \A q : q.app = a => (q \in reqs' <=> q \in reqs)
    <3>1. CASE \E answer : Answer(r, answer)
      BY <1>t, <1>2, <3>1, AnswerFacts
    <3>2. ASSUME NEW place, Goes(r, place)
          PROVE  ra'[a] = ra[a] /\ \A q : q.app = a => (q \in reqs' <=> q \in reqs)
      <4>1. [r EXCEPT !.at = place].app = r.app
        BY <1>t, MovedRequest
      <4> QED
        BY <1>2, <3>2, <4>1 DEF Goes
    <3>3. CASE GiveUp(r) \/ Lose(r)
      <4>1. [r EXCEPT !.waited = FALSE].app = r.app
        BY <1>t, MovedRequest
      <4> QED
        BY <1>2, <3>3, <4>1 DEF GiveUp, Lose
    <3> QED
      BY <1>2, <3>1, <3>2, <3>3
         DEF RequestStep, Admit, Admission, Refuse, Pass, Queue, Create, WriteStatus, Patch, HandleDelete
  <2>2. ea'[a] = ea[a] /\ pending'[a] = pending[a]
    BY <1>t, <1>2 DEF RequestStep, GiveUp, Lose, Admit, Queue, Create, WriteStatus, Patch, HandleDelete, Queues
  <2> QED
    BY <2>1, <2>2 DEF Untouched
<1>3. CASE ToggleApproval \/ SaveWithoutQueue \/ WriteState \/ UNCHANGED vars
  BY <1>3 DEF ToggleApproval, SaveWithoutQueue, WriteState, vars, Untouched
<1> QED
  BY <1>1, <1>2, <1>3 DEF Next, AppStep, RequestStep

\* create_executingapp_cr: made, replaced or failed.
LEMMA CreateFacts ==
  ASSUME TypeOK, NEW r \in reqs, Create(r)
  PROVE  /\ r.at = "admitted" /\ r.kind \in {"approve", "receive"} /\ pending' = pending
         /\ \/ /\ ~Exists(r.app) /\ ea'[r.app].here = "bare"
               /\ ea'[r.app].spec = r.spec /\ ~ea'[r.app].timeout
               /\ Goes(r, "status") /\ (Late(r) => "late" \in why')
            \/ /\ Exists(r.app) /\ ea'[r.app].here = ea[r.app].here
               /\ ea'[r.app].spec = r.spec /\ ~ea'[r.app].timeout
               /\ Answer(r, "ok") /\ (Late(r) => "late" \in why')
            \/ ea' = ea /\ Answer(r, "ok") /\ "api" \in why'
<1>t. ea \in [Apps -> ExecutingApps] /\ r \in Request
  BY DEF TypeOK, ExecutingApps
<1>1. r.app \in Apps /\ NoEA \in ExecutingApps /\ ~NoEA.timeout
  BY <1>t, EmptyType DEF Request, NoEA
<1>2. CASE ~Exists(r.app) /\ ea' = [ea EXCEPT ![r.app] = [NoEA EXCEPT !.here = "bare", !.spec = r.spec]]
  <2>1. ea'[r.app] = [NoEA EXCEPT !.here = "bare", !.spec = r.spec]
    BY <1>t, <1>1, <1>2
  <2>2. ea'[r.app].here = "bare" /\ ea'[r.app].spec = r.spec /\ ~ea'[r.app].timeout
    BY <1>1, <2>1 DEF ExecutingApps
  <2> QED
    BY <1>2, <2>2 DEF Create
<1>3. CASE Exists(r.app) /\ ea' = [ea EXCEPT ![r.app].spec = r.spec, ![r.app].timeout = FALSE]
  <2>1. ea'[r.app].here = ea[r.app].here /\ ea'[r.app].spec = r.spec /\ ~ea'[r.app].timeout
    BY <1>t, <1>1, <1>3 DEF ExecutingApps
  <2> QED
    BY <1>3, <2>1 DEF Create
<1>4. CASE UNCHANGED ea /\ Answer(r, "ok") /\ why' = why \union {"api"}
  BY <1>4 DEF Create
<1> QED
  BY <1>2, <1>3, <1>4 DEF Create

\* patch_executingapp_spec: replaced, not there, or failed.
LEMMA PatchFacts ==
  ASSUME TypeOK, NEW r \in reqs, Patch(r)
  PROVE  /\ r.at = "admitted" /\ r.kind = "update" /\ pending' = pending /\ Answer(r, "ok")
         /\ ea'[r.app].here = ea[r.app].here
         /\ "api" \in why' \/ (Late(r) => "late" \in why')
         /\ "api" \in why' \/ (Exists(r.app) => ea'[r.app].spec = r.spec)
         /\ ea'[r.app].timeout => ea[r.app].timeout
         /\ ea'[r.app].spec = ea[r.app].spec \/ (ea'[r.app].spec = r.spec /\ Exists(r.app))
<1>t. ea \in [Apps -> ExecutingApps] /\ r.app \in Apps
  BY DEF TypeOK, ExecutingApps, Request
<1>p. pending' = pending /\ r.at = "admitted" /\ r.kind = "update" /\ Answer(r, "ok")
  BY DEF Patch
<1>1. CASE Exists(r.app) /\ ea' = [ea EXCEPT ![r.app] = [@ EXCEPT !.spec = r.spec, !.timeout = FALSE]]
           /\ why' = why \union (IF Late(r) THEN {"late"} ELSE {})
  <2>1. ea'[r.app].here = ea[r.app].here /\ ea'[r.app].spec = r.spec /\ ~ea'[r.app].timeout
    BY <1>t, <1>1 DEF ExecutingApps
  <2> QED
    BY <1>p, <1>1, <2>1
<1>2. CASE ~Exists(r.app) /\ ea' = [ea EXCEPT ![r.app] = @]
           /\ why' = why \union (IF Late(r) THEN {"late"} ELSE {})
  BY <1>t, <1>p, <1>2
<1>3. CASE ea' = ea /\ why' = why \union {"api"}
  BY <1>p, <1>3
<1> QED
  BY <1>1, <1>2, <1>3 DEF Patch

\* The second request of a creation changes neither the spec nor the timeout.
LEMMA WriteStatusFacts ==
  ASSUME TypeOK, NEW r \in reqs, WriteStatus(r)
  PROVE  /\ r.at = "status" /\ Answer(r, "ok") /\ pending' = pending
         /\ Exists(r.app)' <=> Exists(r.app)
         /\ ea'[r.app].spec = ea[r.app].spec /\ ea'[r.app].timeout = ea[r.app].timeout
<1>t. ea \in [Apps -> ExecutingApps] /\ r.app \in Apps
  BY DEF TypeOK, ExecutingApps, Request
<1>1. ea' = ea \/ ea' = [ea EXCEPT ![r.app].here = IF @ = "bare" THEN "live" ELSE @]
  BY DEF WriteStatus
<1>2. /\ ea'[r.app].here = "absent" <=> ea[r.app].here = "absent"
      /\ ea'[r.app].spec = ea[r.app].spec /\ ea'[r.app].timeout = ea[r.app].timeout
  BY <1>t, <1>1 DEF ExecutingApps
<1> QED
  BY <1>2 DEF WriteStatus, Exists

\* No request is made by another one, nor waited for again.
LEMMA RequestsStay ==
  ASSUME TypeOK, NEW r \in reqs, RequestStep(r), NEW q \in reqs'
  PROVE  \E p \in reqs : p.app = q.app /\ p.kind = q.kind /\ p.spec = q.spec /\ (q.waited => p.waited)
<1>t. ra \in [Apps -> RemoteApps] /\ reqs \subseteq Request
  BY DEF TypeOK, RemoteApps
<1>1. CASE \E answer : Answer(r, answer)
  BY <1>1 DEF Answer
<1>2. ASSUME NEW place, Goes(r, place)
      PROVE  \E p \in reqs : p.app = q.app /\ p.kind = q.kind /\ p.spec = q.spec /\ (q.waited => p.waited)
  <2>1. q \in reqs \/ q = [r EXCEPT !.at = place]
    BY <1>2 DEF Goes
  <2>2. [r EXCEPT !.at = place].app = r.app /\ [r EXCEPT !.at = place].kind = r.kind
        /\ [r EXCEPT !.at = place].spec = r.spec /\ [r EXCEPT !.at = place].waited = r.waited
    BY <1>t, MovedRequest
  <2>3. CASE q \in reqs
    BY <2>3
  <2>4. CASE q = [r EXCEPT !.at = place]
    BY <2>2, <2>4
  <2> QED
    BY <2>1, <2>3, <2>4
<1>3. CASE GiveUp(r) \/ Lose(r)
  <2>1. q \in reqs \/ q = [r EXCEPT !.waited = FALSE]
    BY <1>3 DEF GiveUp, Lose
  <2>2. [r EXCEPT !.waited = FALSE].app = r.app /\ [r EXCEPT !.waited = FALSE].kind = r.kind
        /\ [r EXCEPT !.waited = FALSE].spec = r.spec /\ ~[r EXCEPT !.waited = FALSE].waited
    BY <1>t, MovedRequest
  <2>3. CASE q \in reqs
    BY <2>3
  <2>4. CASE q = [r EXCEPT !.waited = FALSE]
    BY <2>2, <2>4
  <2> QED
    BY <2>1, <2>3, <2>4
<1> QED
  BY <1>1, <1>2, <1>3
     DEF RequestStep, Admit, Admission, Refuse, Pass, Queue, Create, WriteStatus, Patch, HandleDelete

\* A RemoteApp goes one way, its phase is Pending at first only, and what kopf has
\* handled stays handled.
LEMMA RemoteAppsMoveOn ==
  ASSUME TypeOK, [Next]_vars, NEW a \in Apps
  PROVE  /\ ra'[a].here = "absent" => ra[a].here = "absent"
         /\ ra'[a].here = "live" /\ ra[a].here # "live" => Submit(a)
         /\ ra'[a].phase = "Pending" => ra[a].phase = "Pending"
         /\ ra[a].handled # 0 => ra'[a].handled # 0
<1>t. ra \in [Apps -> RemoteApps] /\ reqs \subseteq Request
  BY DEF TypeOK, RemoteApps
<1>k. \A r \in reqs : r.spec # 0
  BY <1>t, WorkloadAssumption DEF Request
<1>f. ra[a].spec # 0
  BY <1>t, WorkloadAssumption DEF RemoteApps
<1>1. CASE ra'[a] = ra[a]
  BY <1>1
<1>2. CASE AppStep(a)
  <2>1. CASE Submit(a) \/ EditSpec(a) \/ Delete(a) \/ CannotDeploy(a)
    BY <1>t, <1>f, <2>1 DEF Submit, EditSpec, Delete, CannotDeploy, Due, RemoteApps
  <2>2. CASE RejectApp(a) \/ DeleteEA(a)
    <3>1. PICK phase \in {"Rejected", "Deleted"} : Push(a, phase)
      BY <2>2 DEF RejectApp, DeleteEA
    <3>2. ra'[a].phase = ra[a].phase \/ ra'[a].phase = phase
      BY <1>t, <3>1 DEF Push, RemoteApps
    <3> QED
      BY <1>t, <3>1, <3>2, PushFacts
  <2>3. CASE Forward(a) \/ Approve(a) \/ TimeOut(a)
    BY <1>1, <2>3 DEF Forward, Approve, TimeOut
  <2> QED
    BY <1>2, <2>1, <2>2, <2>3 DEF AppStep
<1>3. ASSUME NEW r \in reqs, r.app = a, RequestStep(r)
      PROVE  /\ ra'[a].here = "absent" => ra[a].here = "absent"
             /\ ra'[a].here = "live" /\ ra[a].here # "live" => Submit(a)
             /\ ra'[a].phase = "Pending" => ra[a].phase = "Pending"
             /\ ra[a].handled # 0 => ra'[a].handled # 0
  <2>1. CASE \E answer : Answer(r, answer)
    BY <1>t, <1>k, <1>3, <2>1, AnswerFacts
  <2>2. CASE ra' = ra
    BY <1>1, <2>2
  <2> QED
    BY <1>3, <2>1, <2>2 DEF RequestStep, GiveUp, Lose, Admit, Admission, Refuse, Pass, Queue, Create, WriteStatus,
                            Patch, HandleDelete, Goes
<1>4. CASE Restart
  BY <1>1, <1>4 DEF Restart
<1> QED
  BY <1>1, <1>2, <1>3, <1>4, OneAtATime DEF Untouched

LEMMA UntouchedStays ==
  ASSUME NEW a \in Apps, Untouched(a)
  PROVE  (Exists(a)' <=> Exists(a)) /\ (Queued(a)' <=> Queued(a))
BY DEF Untouched, Exists, Queued

\* Nothing is known of a workload before it is submitted.
NotYetSubmitted ==
  "forgotten" \notin why =>
    \A a \in Apps : ra[a].here = "absent" =>
      /\ ra[a].handled = 0 /\ ra[a].phase = "Pending" /\ ~Exists(a) /\ pending[a] = 0
      /\ \A r \in reqs : r.app # a

LEMMA NotYetSubmittedStep ==
  ASSUME TypeOK, NotYetSubmitted, [Next]_vars
  PROVE  NotYetSubmitted'
<1> SUFFICES ASSUME NEW a \in Apps, "forgotten" \notin why', ra'[a].here = "absent"
             PROVE  /\ ra'[a].handled = 0 /\ ra'[a].phase = "Pending" /\ ~Exists(a)' /\ pending'[a] = 0
                    /\ \A r \in reqs' : r.app # a
  BY DEF NotYetSubmitted
<1>t. ra \in [Apps -> RemoteApps]
  BY DEF TypeOK, RemoteApps
<1>1. ra[a].here = "absent" /\ "forgotten" \notin why
  BY RemoteAppsMoveOn, ReasonsStay
<1>2. /\ ra[a].handled = 0 /\ ra[a].phase = "Pending" /\ ~Exists(a) /\ pending[a] = 0
      /\ \A r \in reqs : r.app # a
  BY <1>1 DEF NotYetSubmitted
<1>3. CASE Untouched(a)
  BY <1>2, <1>3 DEF Untouched, Exists
<1>4. ~AppStep(a)
  <2>1. ~Submit(a)
    BY <1>t DEF Submit, RemoteApps
  <2> QED
    BY <1>1, <1>2, <2>1 DEF AppStep, EditSpec, Delete, Forward, CannotDeploy, Approve, RejectApp, DeleteEA,
                            TimeOut, Due, Exists
<1>5. CASE Restart
  BY <1>2, <1>5 DEF Restart, Exists
<1> QED
  BY <1>2, <1>3, <1>4, <1>5, OneAtATime

\* A RemoteApp that is gone has left nothing behind.
GoneIsGone ==
  why \cap {"late", "queued", "forgotten", "kept"} = {} =>
    \A a \in Apps : ra[a].here = "gone" => ~Exists(a) /\ ~Queued(a)

LEMMA GoneIsGoneStep ==
  ASSUME TypeOK, RequestsFit, GoneIsGone, [Next]_vars
  PROVE  GoneIsGone'
<1> SUFFICES ASSUME NEW a \in Apps, why' \cap {"late", "queued", "forgotten", "kept"} = {}, ra'[a].here = "gone"
             PROVE  ~Exists(a)' /\ ~Queued(a)'
  BY DEF GoneIsGone
<1>t. ra \in [Apps -> RemoteApps] /\ reqs \subseteq Request /\ ea \in [Apps -> ExecutingApps]
  BY DEF TypeOK, RemoteApps, ExecutingApps
<1>0. ra[a].here = "gone" => ~Exists(a) /\ ~Queued(a)
  BY ReasonsStay DEF GoneIsGone
<1>1. CASE Untouched(a)
  BY <1>0, <1>1, UntouchedStays DEF Untouched
<1>2. ~AppStep(a)
  <2>1. ASSUME AppStep(a) PROVE ra[a].here = "gone"
    <3>1. CASE Submit(a) \/ EditSpec(a) \/ Delete(a) \/ CannotDeploy(a)
      BY <1>t, <3>1 DEF Submit, EditSpec, Delete, CannotDeploy, Due, RemoteApps
    <3>2. CASE RejectApp(a) \/ DeleteEA(a)
      BY <1>t, <3>2, PushFacts DEF RejectApp, DeleteEA
    <3> QED
      BY <2>1, <3>1, <3>2 DEF AppStep, Forward, Approve, TimeOut
  <2>2. AppStep(a) => FALSE
    BY <1>0, <2>1 DEF AppStep, Submit, EditSpec, Delete, Forward, CannotDeploy, Approve, RejectApp, DeleteEA,
                      TimeOut, Due, Exists, Queued
  <2> QED
    BY <2>2
<1>3. ASSUME NEW r \in reqs, r.app = a, RequestStep(r)
      PROVE  ~Exists(a)' /\ ~Queued(a)'
  <2>1. CASE HandleDelete(r)
    <3>1. ea'[a].here = "absent" /\ pending' = pending /\ reqs' = reqs \ {r} /\ ~Queued(a)
      <4>1. "kept" \notin why' /\ "queued" \notin why'
        OBVIOUS
      <4>2. ea' = [ea EXCEPT ![r.app] = NoEA] /\ ~Queued(a)
        BY <1>3, <2>1, <4>1 DEF HandleDelete
      <4>3. pending' = pending /\ reqs' = reqs \ {r}
        BY <2>1 DEF HandleDelete, Answer
      <4> QED
        BY <1>t, <1>3, <4>2, <4>3 DEF NoEA
    <3> QED
      BY <3>1 DEF Exists, Queued
  <2>2. CASE ~HandleDelete(r)
    <3>1. ra[a].here = "gone"
      <4>1. CASE \E answer : Answer(r, answer) /\ (answer = "ok" => r.kind # "delete")
        BY <1>t, <1>3, <4>1, AnswerFacts
      <4>2. CASE ra' = ra
        BY <4>2
      <4> QED
        BY <1>3, <2>2, <4>1, <4>2
           DEF RequestStep, GiveUp, Lose, Admit, Admission, Refuse, Pass, Queue, Create, WriteStatus,
               Patch, Goes, RequestsFit
    <3>2. ~Exists(a) /\ ~Queued(a) /\ ~r.waited /\ r.kind # "approve"
      BY <1>0, <1>3, <3>1 DEF RequestsFit, Queued
    <3>3. Late(r)
      BY <1>3, <3>1, <3>2 DEF Late
    <3>4. ~Exists(a)'
      <4>1. CASE Create(r)
        BY <1>3, <3>2, <3>3, <4>1, CreateFacts DEF Exists
      <4>2. CASE Patch(r)
        BY <1>3, <3>2, <4>2, PatchFacts DEF Exists
      <4>3. CASE WriteStatus(r)
        BY <1>3, <3>2, <4>3, WriteStatusFacts
      <4> QED
        BY <1>3, <2>2, <3>2, <4>1, <4>2, <4>3 DEF RequestStep, GiveUp, Lose, Admit, Queue, Exists
    <3>5. ~Queued(a)'
      <4>1. pending' = pending
        BY <1>3, <2>2, <3>3, CreateFacts, PatchFacts, WriteStatusFacts DEF RequestStep, GiveUp, Lose, Admit, Queue
      <4> QED
        BY <1>3, <3>2, <4>1, RequestsStay DEF Queued
    <3> QED
      BY <3>4, <3>5
  <2> QED
    BY <2>1, <2>2
<1>4. CASE Restart
  BY <1>0, <1>4 DEF Restart, Exists, Queued
<1> QED
  BY <1>1, <1>2, <1>3, <1>4, OneAtATime

\* Specs are numbered from 1.
LEMMA SpecsAreNumbered ==
  ASSUME TypeOK
  PROVE  /\ \A r \in reqs : r.app \in Apps /\ r.spec \in Nat \ {0}
         /\ \A a \in Apps : ra[a].spec \in Nat \ {0} /\ ra[a].handled \in Nat /\ pending[a] \in Nat
<1>1. \A n \in 1..MaxSpec : n \in Nat \ {0}
  BY WorkloadAssumption
<1>2. \A n \in 0..MaxSpec : n \in Nat
  BY WorkloadAssumption
<1>3. \A r \in reqs : r.app \in Apps /\ r.spec \in 1..MaxSpec
  BY DEF TypeOK, Request
<1>4. \A a \in Apps : ra[a].spec \in 1..MaxSpec /\ ra[a].handled \in 0..MaxSpec /\ pending[a] \in 0..MaxSpec
  BY DEF TypeOK, Queues
<1> QED
  BY <1>1, <1>2, <1>3, <1>4

\* What was refused does not run, and waits for nothing.
RefusedIsOut ==
  why \cap {"late", "repeated", "forgotten"} = {} =>
    \A a \in Apps : ra[a].here = "live" /\ ra[a].phase = "Failed"
                      => ra[a].handled # 0 /\ ~Exists(a) /\ ~Queued(a)

\* The quota refuses it, whatever it could list.
Refused(r) == \E listed \in Listed : Refuse(r, listed)

LEMMA RefusedIsOutStep ==
  ASSUME TypeOK, RequestsFit, NotYetSubmitted, RefusedIsOut, [Next]_vars
  PROVE  RefusedIsOut'
<1> SUFFICES ASSUME NEW a \in Apps, why' \cap {"late", "repeated", "forgotten"} = {},
                    ra'[a].here = "live", ra'[a].phase = "Failed"
             PROVE  ra'[a].handled # 0 /\ ~Exists(a)' /\ ~Queued(a)'
  BY DEF RefusedIsOut
<1>t. ra \in [Apps -> RemoteApps] /\ reqs \subseteq Request /\ ea \in [Apps -> ExecutingApps]
  BY DEF TypeOK, RemoteApps, ExecutingApps
<1>k. (\A r \in reqs : r.spec # 0) /\ ra[a].spec # 0
  BY SpecsAreNumbered
<1>0. /\ ra[a].here = "live" /\ ra[a].phase = "Failed" => ra[a].handled # 0 /\ ~Exists(a) /\ ~Queued(a)
      /\ ra[a].here = "absent" => ra[a].phase = "Pending"
  BY ReasonsStay DEF RefusedIsOut, NotYetSubmitted
<1>1. CASE Untouched(a)
  BY <1>0, <1>1, UntouchedStays DEF Untouched
<1>2. CASE AppStep(a)
  <2>1. CASE CannotDeploy(a)
    <3>1. ~Exists(a) /\ ~Queued(a) /\ ra'[a].handled # 0
      BY <1>t, <1>k, <2>1 DEF CannotDeploy, Repeated, RemoteApps
    <3>2. ea' = ea /\ pending' = pending /\ reqs' = reqs
      BY <2>1 DEF CannotDeploy
    <3> QED
      BY <3>1, <3>2 DEF Exists, Queued
  <2>2. CASE ~CannotDeploy(a)
    <3>1. ra[a].here = "live" /\ ra[a].phase = "Failed" /\ ra'[a].handled = ra[a].handled
      <4>1. CASE Submit(a) \/ EditSpec(a) \/ Delete(a)
        BY <1>t, <1>0, <4>1 DEF Submit, EditSpec, Delete, RemoteApps
      <4>2. ASSUME NEW phase \in {"Rejected", "Deleted"}, Push(a, phase)
            PROVE  ra[a].here = "live" /\ ra[a].phase = "Failed" /\ ra'[a].handled = ra[a].handled
        <5>1. ra'[a].phase = ra[a].phase \/ ra'[a].phase = phase
          BY <1>t, <4>2 DEF Push, RemoteApps
        <5> QED
          BY <1>t, <4>2, <5>1, PushFacts
      <4> QED
        BY <1>2, <2>2, <4>1, <4>2 DEF AppStep, Forward, Approve, RejectApp, DeleteEA, TimeOut
    <3>2. ~Exists(a) /\ ~Queued(a) /\ pending[a] = 0
      BY <1>0, <3>1 DEF Queued
    <3>3. ea' = ea /\ pending' = pending /\ \A q \in reqs' : q \in reqs \/ q.kind # "approve"
      <4>1. CASE Forward(a)
        <5>1. Due(a) # "approve"
          BY DEF Due
        <5> QED
          BY <4>1, <5>1 DEF Forward
      <4> QED
        BY <1>2, <2>2, <3>2, <4>1 DEF AppStep, Submit, EditSpec, Delete, Approve, RejectApp, DeleteEA, TimeOut, Exists
    <3> QED
      BY <1>0, <3>1, <3>2, <3>3 DEF Exists, Queued
  <2> QED
    BY <2>1, <2>2
<1>3. ASSUME NEW r \in reqs, r.app = a, RequestStep(r)
      PROVE  ra'[a].handled # 0 /\ ~Exists(a)' /\ ~Queued(a)'
  <2>1. CASE Admit(r) /\ Refused(r) /\ r.kind = "receive"
    <3>0. PICK listed \in Listed : Refuse(r, listed)
      BY <2>1 DEF Refused
    <3>1. ~Exists(a) /\ ~Queued(a)
      BY <1>3, <2>1, <3>0 DEF Refuse, Repeated
    <3>2. ea' = ea /\ pending' = pending /\ reqs' = reqs \ {r}
      BY <2>1, <3>0 DEF Admit, Refuse, Answer
    <3>3. ra'[a].handled # 0
      <4>1. PICK answer : Answer(r, answer)
        BY <3>0 DEF Refuse
      <4> QED
        BY <1>t, <1>0, <1>k, <1>3, <4>1, AnswerFacts
    <3> QED
      BY <3>1, <3>2, <3>3 DEF Exists, Queued
  <2>2. CASE ~(Admit(r) /\ Refused(r) /\ r.kind = "receive")
    <3>1. ra[a].here = "live" /\ ra[a].phase = "Failed"
      <4>1. CASE \E answer : Answer(r, answer) /\ ~(answer = "refused" /\ r.kind = "receive" /\ r.waited)
        BY <1>t, <1>3, <4>1, AnswerFacts
      <4>2. CASE ra' = ra
        BY <4>2
      <4> QED
        BY <1>3, <2>2, <4>1, <4>2
           DEF RequestStep, GiveUp, Lose, Admit, Admission, Refused, Refuse, Pass, Queue, Create,
               WriteStatus, Patch, HandleDelete, Goes
    <3>2. ra[a].handled # 0 /\ ~Exists(a) /\ ~Queued(a)
      BY <1>0, <3>1
    <3>3. r.kind # "approve" /\ (r.kind = "receive" => Late(r))
      BY <1>3, <3>2 DEF RequestsFit, Late, Queued
    <3>4. ra'[a].handled # 0
      BY <3>2, RemoteAppsMoveOn
    <3>5. ~Exists(a)'
      <4>1. CASE Create(r)
        BY <1>3, <3>2, <3>3, <4>1, CreateFacts DEF Exists
      <4>2. CASE Patch(r)
        BY <1>3, <3>2, <4>2, PatchFacts DEF Exists
      <4>3. CASE WriteStatus(r)
        BY <1>3, <3>2, <4>3, WriteStatusFacts
      <4>4. CASE HandleDelete(r)
        <5>1. ea' = [ea EXCEPT ![r.app] = NoEA] \/ ea' = ea
          BY <4>4 DEF HandleDelete
        <5> QED
          BY <1>t, <1>3, <3>2, <5>1 DEF NoEA, Exists
      <4> QED
        BY <1>3, <3>2, <4>1, <4>2, <4>3, <4>4 DEF RequestStep, GiveUp, Lose, Admit, Queue, Exists
    <3>6. ~Queued(a)'
      <4>1. pending' = pending
        BY <1>3, <3>3, CreateFacts, PatchFacts, WriteStatusFacts
           DEF RequestStep, GiveUp, Lose, Admit, Queue, HandleDelete
      <4> QED
        BY <1>3, <3>2, <4>1, RequestsStay DEF Queued
    <3> QED
      BY <3>4, <3>5, <3>6
  <2> QED
    BY <2>1, <2>2
<1>4. CASE Restart
  BY <1>0, <1>4 DEF Restart, Exists, Queued
<1> QED
  BY <1>1, <1>2, <1>3, <1>4, OneAtATime

\* In the approval queue, or out of it and still to be created.
Awaiting(a) == pending[a] # 0 \/ \E r \in reqs : r.app = a /\ r.kind = "approve" /\ r.at = "admitted"

\* What was accepted is running, queued, or about to be created.
AcceptedIsKept ==
  why \cap {"crash", "forgotten", "api", "lost-push"} = {} =>
    \A a \in Apps :
      /\ ra[a].here = "live" /\ ra[a].phase = "Pending"
      /\ ra[a].handled # 0 \/ \E r \in reqs : r.app = a /\ r.at = "status"
      => Exists(a) \/ Awaiting(a)

LEMMA AcceptedIsKeptStep ==
  ASSUME TypeOK, RequestsFit, NotYetSubmitted, AcceptedIsKept, [Next]_vars
  PROVE  AcceptedIsKept'
<1> SUFFICES ASSUME NEW a \in Apps, why' \cap {"crash", "forgotten", "api", "lost-push"} = {},
                    ra'[a].here = "live", ra'[a].phase = "Pending",
                    ra'[a].handled # 0 \/ \E r \in reqs' : r.app = a /\ r.at = "status"
             PROVE  Exists(a)' \/ Awaiting(a)'
  BY DEF AcceptedIsKept
<1>t. /\ ra \in [Apps -> RemoteApps] /\ reqs \subseteq Request /\ ea \in [Apps -> ExecutingApps]
      /\ pending \in Queues
  BY DEF TypeOK, RemoteApps, ExecutingApps
<1>k. \A r \in reqs : r.spec # 0
  BY SpecsAreNumbered
<1>p. ra[a].phase = "Pending"
  BY RemoteAppsMoveOn
<1>0. /\ ra[a].here = "live" /\ (ra[a].handled # 0 \/ \E r \in reqs : r.app = a /\ r.at = "status")
           => Exists(a) \/ Awaiting(a)
      /\ ra[a].here = "absent" => ra[a].handled = 0 /\ \A r \in reqs : r.app # a
  BY <1>p, ReasonsStay DEF AcceptedIsKept, NotYetSubmitted
<1>1. CASE Untouched(a)
  <2>1. Awaiting(a)' <=> Awaiting(a)
    BY <1>1 DEF Untouched, Awaiting
  <2> QED
    BY <1>0, <1>1, <2>1, UntouchedStays DEF Untouched
<1>2. CASE AppStep(a)
  <2>1. ra[a].here = "live"
    <3>1. CASE Submit(a)
      <4>1. ra'[a].handled = 0 /\ reqs' = reqs /\ ra[a].here = "absent"
        BY <1>t, <1>0, <3>1 DEF Submit, RemoteApps
      <4> QED
        BY <1>0, <4>1
    <3> QED
      BY <3>1, RemoteAppsMoveOn
  <2>2. ~RejectApp(a) /\ ~DeleteEA(a) /\ ~CannotDeploy(a)
    <3>1. ASSUME NEW phase \in {"Rejected", "Deleted"}, Push(a, phase)
          PROVE  FALSE
      BY <1>t, <2>1, <3>1, PushFacts
    <3>2. ~CannotDeploy(a)
      BY <1>t, ZenonT(60) DEF CannotDeploy, RemoteApps
    <3> QED
      BY <3>1, <3>2 DEF RejectApp, DeleteEA
  <2>3. ra'[a].handled = ra[a].handled
    BY <1>t, <1>2, <2>2 DEF AppStep, Submit, EditSpec, Delete, Forward, Approve, TimeOut, RemoteApps
  <2>4. ASSUME NEW r \in reqs', r.at = "status"
        PROVE  r \in reqs
    <3>1. CASE Approve(a)
      <4>1. reqs' = reqs \union {Approval(a)} /\ Approval(a).at = "admitted"
        BY <3>1 DEF Approve, Approval
      <4> QED
        BY <2>4, <4>1
    <3>2. CASE Forward(a)
      <4> DEFINE new == [app |-> a, kind |-> Due(a), spec |-> ra[a].spec, at |-> "wire", waited |-> TRUE]
      <4>1. reqs' = reqs \union {new} /\ new.at = "wire"
        BY <3>2 DEF Forward
      <4> HIDE DEF new
      <4> QED
        BY <2>4, <4>1
    <3> QED
      BY <1>2, <2>2, <2>4, <3>1, <3>2 DEF AppStep, Submit, EditSpec, Delete, TimeOut
  <2>5. Exists(a) \/ Awaiting(a)
    BY <1>0, <2>1, <2>3, <2>4
  <2>6. Exists(a) => Exists(a)'
    BY <1>t, <1>2, <2>2 DEF AppStep, Submit, EditSpec, Delete, Forward, Approve, TimeOut, Exists, ExecutingApps
  <2>7. Awaiting(a) => Awaiting(a)'
    <3>1. CASE Approve(a)
      <4>1. Approval(a) \in reqs' /\ Approval(a).app = a /\ Approval(a).kind = "approve"
            /\ Approval(a).at = "admitted"
        BY <3>1 DEF Approve, Approval
      <4> QED
        BY <4>1 DEF Awaiting
    <3>2. CASE ~Approve(a)
      <4>1. pending' = pending /\ reqs \subseteq reqs'
        BY <1>2, <2>2, <3>2 DEF AppStep, Submit, EditSpec, Delete, Forward, TimeOut
      <4> QED
        BY <4>1 DEF Awaiting
    <3> QED
      BY <3>1, <3>2
  <2> QED
    BY <2>5, <2>6, <2>7
<1>3. ASSUME NEW r \in reqs, r.app = a, RequestStep(r)
      PROVE  Exists(a)' \/ Awaiting(a)'
  <2>1. ra[a].here = "live"
    <3>1. ~Submit(a)
      BY <1>0, <1>3 DEF Submit
    <3> QED
      BY <3>1, RemoteAppsMoveOn
  <2>2. CASE Create(r)
    BY <1>3, <2>2, CreateFacts DEF Exists
  <2>3. CASE Queue(r)
    <3>1. pending'[a] = r.spec
      BY <1>t, <1>3, <2>3 DEF Queue, Queues
    <3> QED
      BY <1>k, <3>1 DEF Awaiting
  <2>4. CASE ~Create(r) /\ ~Queue(r)
    <3>1. ~HandleDelete(r)
      BY <1>3, <2>1 DEF HandleDelete, RequestsFit
    <3>2. ~(Answer(r, "refused") /\ r.waited /\ r.kind = "receive")
      BY <1>t, <1>3, AnswerFacts
    <3>3. ra[a].handled # 0 \/ \E q \in reqs : q.app = a /\ q.at = "status"
      <4>1. CASE WriteStatus(r)
        BY <1>3, <4>1 DEF WriteStatus
      <4>2. CASE Patch(r)
        BY <1>3, <4>2 DEF Patch, RequestsFit
      <4>3. CASE Admit(r)
        <5>1. ra'[a].handled = ra[a].handled
          <6>1. ASSUME NEW answer \in {"refused", "error"}, Answer(r, answer)
                PROVE  ra'[a].handled = ra[a].handled
            BY <1>t, <1>3, <3>2, <6>1, AnswerFacts
          <6>2. (\E answer \in {"refused", "error"} : Answer(r, answer)) \/ Goes(r, "admitted")
            BY <4>3 DEF Admit, Admission, Refuse, Pass
          <6>3. CASE Goes(r, "admitted")
            BY <6>3 DEF Goes
          <6> QED
            BY <6>1, <6>2, <6>3
        <5>2. ASSUME NEW q \in reqs', q.at = "status" PROVE q \in reqs
          <6>1. q \in reqs \/ q = [r EXCEPT !.at = "admitted"]
            BY <4>3 DEF Admit, Admission, Refuse, Pass, Goes, Answer
          <6>2. [r EXCEPT !.at = "admitted"].at = "admitted"
            BY <1>t, MovedRequest
          <6> QED
            BY <5>2, <6>1, <6>2
        <5> QED
          BY <5>1, <5>2
      <4>4. CASE Lose(r)
        BY <4>4 DEF Lose
      <4>5. CASE GiveUp(r)
        <5>1. [r EXCEPT !.waited = FALSE].app = r.app /\ [r EXCEPT !.waited = FALSE].at = r.at
          BY <1>t, MovedRequest
        <5>2. ra' = ra /\ reqs' = (reqs \ {r}) \union {[r EXCEPT !.waited = FALSE]}
          BY <4>5 DEF GiveUp
        <5> QED
          BY <5>1, <5>2, ZenonT(60)
      <4> QED
        BY <1>3, <2>4, <3>1, <4>1, <4>2, <4>3, <4>4, <4>5 DEF RequestStep
    <3>4. Exists(a) \/ Awaiting(a)
      BY <1>0, <2>1, <3>3
    <3>5. Exists(a) => Exists(a)'
      BY <1>3, <2>4, <3>1, PatchFacts, WriteStatusFacts DEF RequestStep, GiveUp, Lose, Admit, Exists
    <3>6. Awaiting(a) => Awaiting(a)'
      <4>1. pending' = pending
        <5>1. GiveUp(r) \/ Lose(r) \/ Admit(r) \/ WriteStatus(r) \/ Patch(r)
          BY <1>3, <2>4, <3>1 DEF RequestStep
        <5>2. CASE GiveUp(r) \/ Lose(r) \/ Admit(r)
          BY <5>2 DEF GiveUp, Lose, Admit
        <5>3. CASE WriteStatus(r) \/ Patch(r)
          BY <5>3 DEF WriteStatus, Patch
        <5> QED
          BY <5>1, <5>2, <5>3
      <4>2. r.kind # "approve" \/ r.at = "status"
        BY <1>3, <2>4, <3>1 DEF RequestStep, GiveUp, Lose, Admit, WriteStatus, Patch, RequestsFit
      <4>3. reqs \ {r} \subseteq reqs'
        BY <1>3, <2>4, <3>1
           DEF RequestStep, GiveUp, Lose, Admit, Admission, Refuse, Pass, WriteStatus, Patch, Answer, Goes
      <4> QED
        BY <4>1, <4>2, <4>3 DEF Awaiting
    <3> QED
      BY <3>4, <3>5, <3>6
  <2> QED
    BY <2>2, <2>3, <2>4
<1>4. CASE Restart
  <2>1. ra' = ra /\ ea' = ea /\ reqs' = {} /\ pending' = pending /\ \A r \in reqs : r.at = "wire"
    BY <1>4 DEF Restart
  <2>2. \A r \in reqs : r.kind # "approve"
    BY <2>1 DEF RequestsFit
  <2> QED
    BY <1>0, <2>1, <2>2 DEF Exists, Awaiting
<1> QED
  BY <1>1, <1>2, <1>3, <1>4, OneAtATime

Existing == {a \in Apps : Exists(a)}
Deploys  == Cardinality(Existing)
PodsUsed == Cardinality(Pods(Existing))

Orderly == why \cap {"overlap", "no-room", "timed-out", "blind"} = {}

\* What runs is within the quota, and stays so with the one request that is between
\* check and creation.
HasRoom ==
  Orderly =>
    /\ \A a \in Existing : ~ea[a].timeout
    /\ Deploys <= MaxDeploys /\ PodsUsed <= MaxPods
    /\ \A r \in reqs : r.at = "admitted" =>
         /\ Deploys < MaxDeploys /\ PodsUsed + r.spec <= MaxPods
         /\ \A q \in reqs : q.at = "admitted" => q = r

\* There are finitely many applications with finitely many pods.
LEMMA PodsAreFinite ==
  ASSUME NEW S \in SUBSET Apps
  PROVE  /\ IsFiniteSet(S) /\ Cardinality(S) \in Nat
         /\ IsFiniteSet(Pods(S)) /\ Cardinality(Pods(S)) \in Nat
<1>1. IsFiniteSet(S) /\ IsFiniteSet(1..MaxSpec)
  BY WorkloadAssumption, FS_Subset, FS_Interval
<1>2. IsFiniteSet(S \X (1..MaxSpec))
  BY <1>1, FS_Product
<1>3. IsFiniteSet(Pods(S))
  BY <1>2, FS_Subset DEF Pods
<1> QED
  BY <1>1, <1>3, FS_CardinalityType

\* One application with n pods adds n pods at most, and one application.
LEMMA OneMore ==
  ASSUME NEW a \in Apps, NEW n \in Nat,
         Existing' \subseteq Existing \union {a},
         \A b \in Existing' : (b \in Existing /\ ea'[b].spec = ea[b].spec)
                               \/ (b = a /\ ea'[b].spec = n)
  PROVE  /\ Deploys' <= Deploys + 1
         /\ PodsUsed' <= PodsUsed + n
<1> DEFINE Mine == {a} \X (1..n)
<1>1. /\ IsFiniteSet(Existing) /\ Deploys \in Nat
      /\ IsFiniteSet(Pods(Existing)) /\ PodsUsed \in Nat
  BY PodsAreFinite DEF Existing, Deploys, PodsUsed
<1>2. IsFiniteSet(Mine) /\ Cardinality(Mine) = n
  <2>1. IsFiniteSet({a}) /\ Cardinality({a}) = 1
    BY FS_Singleton
  <2>2. IsFiniteSet(1..n) /\ Cardinality(1..n) = n
    BY FS_Interval
  <2>3. IsFiniteSet(Mine) /\ Cardinality(Mine) = 1 * n
    BY <2>1, <2>2, FS_Product, ZenonT(60)
  <2>4. 1 * n = n
    OBVIOUS
  <2> QED
    BY <2>3, <2>4
<1>3. IsFiniteSet(Existing \union {a}) /\ Cardinality(Existing \union {a}) <= Deploys + 1
  <2>1. /\ IsFiniteSet(Existing \union {a})
        /\ Cardinality(Existing \union {a}) = Deploys \/ Cardinality(Existing \union {a}) = Deploys + 1
    BY <1>1, FS_AddElement DEF Deploys
  <2> QED
    BY <1>1, <2>1
<1>4. /\ IsFiniteSet(Pods(Existing) \union Mine)
      /\ Cardinality(Pods(Existing) \union Mine) <= PodsUsed + n
  <2>1. Cardinality(Pods(Existing) \cap Mine) \in Nat
    BY <1>1, FS_Intersection, FS_CardinalityType
  <2>2. /\ IsFiniteSet(Pods(Existing) \union Mine)
        /\ Cardinality(Pods(Existing) \union Mine)
             = PodsUsed + Cardinality(Mine) - Cardinality(Pods(Existing) \cap Mine)
    BY <1>1, <1>2, FS_Union DEF PodsUsed
  <2> HIDE DEF Mine
  <2> QED
    BY <1>1, <1>2, <2>1, <2>2
<1>5. Pods(Existing)' \subseteq Pods(Existing) \union Mine
  <2> SUFFICES ASSUME NEW p \in Pods(Existing)'
               PROVE  p \in Pods(Existing) \union Mine
    OBVIOUS
  <2>1. p \in Existing' \X (1..MaxSpec) /\ p[2] <= ea'[p[1]].spec
    BY DEF Pods
  <2>2. p = <<p[1], p[2]>> /\ p[1] \in Existing' /\ p[2] \in 1..MaxSpec
    BY <2>1
  <2>3. CASE p[1] # a
    <3>1. p[1] \in Existing /\ p[2] <= ea[p[1]].spec
      BY <2>1, <2>2, <2>3
    <3> QED
      BY <2>2, <3>1 DEF Pods
  <2>4. CASE p[1] = a /\ ea'[a].spec = n
    BY <2>1, <2>2, <2>4
  <2>5. CASE p[1] = a /\ ea'[a].spec = ea[a].spec /\ a \in Existing
    BY <2>1, <2>2, <2>5 DEF Pods
  <2>6. (p[1] \in Existing /\ ea'[p[1]].spec = ea[p[1]].spec) \/ (p[1] = a /\ ea'[p[1]].spec = n)
    BY <2>2
  <2> QED
    BY <2>3, <2>4, <2>5, <2>6
<1>6. Deploys' <= Cardinality(Existing \union {a})
  BY <1>3, FS_Subset DEF Deploys
<1>7. PodsUsed' <= Cardinality(Pods(Existing) \union Mine)
  BY <1>4, <1>5, FS_Subset DEF PodsUsed
<1>8. Deploys' \in Nat /\ PodsUsed' \in Nat
  BY <1>3, <1>4, <1>5, FS_Subset, FS_CardinalityType DEF Deploys, PodsUsed
<1>9. Cardinality(Existing \union {a}) \in Nat /\ Cardinality(Pods(Existing) \union Mine) \in Nat
  BY <1>3, <1>4, FS_CardinalityType
<1> HIDE DEF Mine
<1> QED
  BY <1>1, <1>3, <1>4, <1>6, <1>7, <1>8, <1>9

\* When no workload is new and none is larger, no more of the quota is used.
LEMMA NoMore ==
  ASSUME Existing' \subseteq Existing, \A b \in Existing' : ea'[b].spec = ea[b].spec
  PROVE  /\ Deploys' <= Deploys
         /\ PodsUsed' <= PodsUsed
<1>1. IsFiniteSet(Existing) /\ IsFiniteSet(Pods(Existing))
  BY PodsAreFinite DEF Existing
<1>2. Pods(Existing)' \subseteq Pods(Existing)
  BY DEF Pods
<1> QED
  BY <1>1, <1>2, FS_Subset DEF Deploys, PodsUsed

\* The two sides of the quota are numbers.
LEMMA QuotaIsCounted ==
  /\ Deploys \in Nat /\ PodsUsed \in Nat
  /\ Deploys' \in Nat /\ PodsUsed' \in Nat
<1>1. Existing \in SUBSET Apps /\ Deploys \in Nat /\ PodsUsed \in Nat
  BY PodsAreFinite DEF Existing, Deploys, PodsUsed
<1>2. IsFiniteSet(Existing') /\ Deploys' \in Nat
  BY WorkloadAssumption, FS_Subset, FS_CardinalityType DEF Existing, Deploys
<1>3. IsFiniteSet(1..MaxSpec)
  BY WorkloadAssumption, FS_Interval
<1>4. IsFiniteSet(Existing' \X (1..MaxSpec))
  BY <1>2, <1>3, FS_Product
<1>5. Pods(Existing)' \subseteq Existing' \X (1..MaxSpec)
  BY DEF Pods
<1>6. PodsUsed' \in Nat
  BY <1>4, <1>5, FS_Subset, FS_CardinalityType DEF PodsUsed
<1> QED
  BY <1>1, <1>2, <1>6

\* A step that lets nothing in, neither a workload nor a request, leaves the room.
LEMMA RoomIsKept ==
  ASSUME TypeOK, HasRoom, why \subseteq why',
         \A b \in Existing' : /\ b \in Existing /\ ea'[b].spec = ea[b].spec
                              /\ ea'[b].timeout => ea[b].timeout,
         \A q \in reqs' : q.at = "admitted" =>
           /\ \E p \in reqs : p.at = "admitted" /\ p.spec = q.spec
           /\ \A p \in reqs' : p.at = "admitted" => p = q
  PROVE  HasRoom'
<1> SUFFICES ASSUME Orderly'
             PROVE  /\ \A a \in Existing' : ~ea'[a].timeout
                    /\ Deploys' <= MaxDeploys /\ PodsUsed' <= MaxPods
                    /\ \A r \in reqs' : r.at = "admitted" =>
                         /\ Deploys' < MaxDeploys
                         /\ PodsUsed' + r.spec <= MaxPods
                         /\ \A q \in reqs' : q.at = "admitted" => q = r
  BY DEF HasRoom
<1>o. Orderly
  BY DEF Orderly
<1>1. /\ \A a \in Existing : ~ea[a].timeout
      /\ Deploys <= MaxDeploys /\ PodsUsed <= MaxPods
      /\ \A r \in reqs : r.at = "admitted" =>
           Deploys < MaxDeploys /\ PodsUsed + r.spec <= MaxPods
  BY <1>o DEF HasRoom
<1>2. /\ Deploys' <= Deploys
      /\ PodsUsed' <= PodsUsed
  BY NoMore
<1>3. \A r \in reqs : r.spec \in Nat
  BY SpecsAreNumbered
<1>4. MaxDeploys \in Nat /\ MaxPods \in Nat
  BY WorkloadAssumption
<1>q. Deploys \in Nat /\ PodsUsed \in Nat /\ Deploys' \in Nat /\ PodsUsed' \in Nat
  BY QuotaIsCounted
<1>5. \A a \in Existing' : ~ea'[a].timeout
  BY <1>1
<1>6. ASSUME NEW r \in reqs', r.at = "admitted"
      PROVE  Deploys' < MaxDeploys /\ PodsUsed' + r.spec <= MaxPods
  <2>1. PICK p \in reqs : p.at = "admitted" /\ p.spec = r.spec
    BY <1>6
  <2>2. /\ Deploys < MaxDeploys /\ PodsUsed + p.spec <= MaxPods
        /\ p.spec \in Nat
    BY <1>1, <1>3, <2>1
  <2>3. Deploys' < MaxDeploys
    BY <1>2, <1>4, <2>2, <1>q
  <2>4. PodsUsed' + p.spec <= MaxPods
    BY <1>2, <1>4, <2>2, <1>q
  <2> QED
    BY <2>1, <2>3, <2>4
<1>7. Deploys' <= MaxDeploys /\ PodsUsed' <= MaxPods
  BY <1>1, <1>2, <1>4, <1>q
<1> QED
  BY <1>5, <1>6, <1>7

\* A request let in finds the room it needs, and nobody else before it.
LEMMA RoomForOne ==
  ASSUME TypeOK, HasRoom, why \subseteq why', ea' = ea,
         NEW q, NEW S \in SUBSET reqs, reqs' = S \union {q}, q.spec \in Nat,
         Orderly' => Quota(q.spec, Active) = "fits" /\ \A p \in reqs : p.at # "admitted"
  PROVE  HasRoom'
<1> SUFFICES ASSUME Orderly'
             PROVE  /\ \A a \in Existing' : ~ea'[a].timeout
                    /\ Deploys' <= MaxDeploys /\ PodsUsed' <= MaxPods
                    /\ \A r \in reqs' : r.at = "admitted" =>
                         /\ Deploys' < MaxDeploys
                         /\ PodsUsed' + r.spec <= MaxPods
                         /\ \A p \in reqs' : p.at = "admitted" => p = r
  BY DEF HasRoom
<1>o. Orderly
  BY DEF Orderly
<1>1. /\ \A a \in Existing : ~ea[a].timeout
      /\ Deploys <= MaxDeploys /\ PodsUsed <= MaxPods
  BY <1>o DEF HasRoom
<1>2. Existing' = Existing /\ Pods(Existing)' = Pods(Existing)
  BY DEF Existing, Exists, Pods
<1>q. Deploys' = Deploys /\ PodsUsed' = PodsUsed
  BY <1>2 DEF Deploys, PodsUsed
<1>3. Active = Existing
  BY <1>1 DEF Active, Existing
<1>4. Deploys < MaxDeploys /\ PodsUsed + q.spec <= MaxPods
  <2>1. Quota(q.spec, Active) = "fits"
    OBVIOUS
  <2>2. ~(Deploys >= MaxDeploys) /\ ~(PodsUsed + q.spec > MaxPods)
    BY <1>3, <2>1 DEF Quota, Deploys, PodsUsed
  <2>3. Deploys \in Nat /\ PodsUsed \in Nat /\ MaxDeploys \in Nat /\ MaxPods \in Nat
    BY QuotaIsCounted, WorkloadAssumption
  <2> QED
    BY <2>2, <2>3
<1>5. \A p \in reqs' : p.at = "admitted" => p = q
  OBVIOUS
<1> QED
  BY <1>1, <1>2, <1>q, <1>4, <1>5

\* What the one request creates or enlarges is what it was let in for.
LEMMA RoomIsUsed ==
  ASSUME TypeOK, HasRoom, why \subseteq why', NEW r \in reqs, r.at = "admitted",
         \A b \in Existing' : \/ b \in Existing /\ ea'[b] = ea[b]
                              \/ b = r.app /\ ea'[b].spec = r.spec /\ ~ea'[b].timeout,
         \A q \in reqs' : q.at = "admitted" => q \in reqs \ {r}
  PROVE  HasRoom'
<1> SUFFICES ASSUME Orderly'
             PROVE  /\ \A a \in Existing' : ~ea'[a].timeout
                    /\ Deploys' <= MaxDeploys /\ PodsUsed' <= MaxPods
                    /\ \A q \in reqs' : q.at # "admitted"
  BY DEF HasRoom
<1>o. Orderly
  BY DEF Orderly
<1>1. /\ \A a \in Existing : ~ea[a].timeout
      /\ Deploys < MaxDeploys /\ PodsUsed + r.spec <= MaxPods
      /\ \A q \in reqs : q.at = "admitted" => q = r
  BY <1>o DEF HasRoom
<1>2. r.app \in Apps /\ r.spec \in Nat
  BY SpecsAreNumbered
<1>3. /\ Deploys' <= Deploys + 1
      /\ PodsUsed' <= PodsUsed + r.spec
  <2>1. Existing' \subseteq Existing \union {r.app}
    OBVIOUS
  <2>2. \A b \in Existing' : (b \in Existing /\ ea'[b].spec = ea[b].spec)
                             \/ (b = r.app /\ ea'[b].spec = r.spec)
    OBVIOUS
  <2> QED
    BY <1>2, <2>1, <2>2, OneMore
<1>4. Deploys' <= MaxDeploys /\ PodsUsed' <= MaxPods
  <2>1. /\ Deploys \in Nat /\ PodsUsed \in Nat /\ Deploys' \in Nat /\ PodsUsed' \in Nat
        /\ MaxDeploys \in Nat /\ MaxPods \in Nat
    BY QuotaIsCounted, WorkloadAssumption
  <2> QED
    BY <1>1, <1>2, <1>3, <2>1
<1>5. \A a \in Existing' : ~ea'[a].timeout
  BY <1>1
<1>6. \A q \in reqs' : q.at # "admitted"
  BY <1>1
<1> QED
  BY <1>4, <1>5, <1>6

\* A request is about one ExecutingApp.
LEMMA OthersStay ==
  ASSUME TypeOK, NEW r \in reqs, Create(r) \/ Patch(r) \/ WriteStatus(r) \/ HandleDelete(r)
  PROVE  \A b \in Apps : b # r.app => ea'[b] = ea[b]
<1> ea \in [Apps -> ExecutingApps]
  BY DEF TypeOK, ExecutingApps
<1>1. CASE Create(r)
  BY <1>1 DEF Create
<1>2. CASE Patch(r)
  BY <1>2 DEF Patch
<1>3. CASE WriteStatus(r)
  BY <1>3 DEF WriteStatus
<1>4. CASE HandleDelete(r)
  BY <1>4 DEF HandleDelete
<1> QED
  BY <1>1, <1>2, <1>3, <1>4

\* One request at a time is let in when there is room, and takes no more.
LEMMA HasRoomStep ==
  ASSUME TypeOK, HasRoom, [Next]_vars
  PROVE  HasRoom'
<1> SUFFICES ASSUME Orderly'
             PROVE  HasRoom'
  BY DEF HasRoom
<1>w. why \subseteq why' /\ Orderly
  BY ReasonsStay DEF Orderly
<1>u. \A p, q \in reqs : p.at = "admitted" /\ q.at = "admitted" => p = q
  BY <1>w DEF HasRoom
<1>t. /\ ra \in [Apps -> RemoteApps] /\ reqs \subseteq Request /\ ea \in [Apps -> ExecutingApps]
      /\ pending \in Queues
  BY DEF TypeOK, RemoteApps, ExecutingApps
<1>k. ASSUME ea' = ea, \A q \in reqs' : q.at = "admitted" => q \in reqs
      PROVE  HasRoom'
  <2>1. \A b \in Existing' : /\ b \in Existing /\ ea'[b].spec = ea[b].spec
                             /\ ea'[b].timeout => ea[b].timeout
    BY <1>k DEF Existing, Exists
  <2> QED
    BY <1>k, <1>w, <1>u, <2>1, RoomIsKept
<1>d. ASSUME NEW a \in Apps, ea' = [ea EXCEPT ![a] = NoEA], reqs' \subseteq reqs
      PROVE  HasRoom'
  <2>1. \A b \in Apps : ea'[b] = IF b = a THEN NoEA ELSE ea[b]
    BY <1>t, <1>d
  <2>2. \A b \in Existing' : b # a /\ b \in Apps
    BY <2>1 DEF Existing, Exists, NoEA
  <2>3. \A b \in Existing' : /\ b \in Existing /\ ea'[b].spec = ea[b].spec
                             /\ ea'[b].timeout => ea[b].timeout
    BY <2>1, <2>2 DEF Existing, Exists
  <2> QED
    BY <1>d, <1>w, <1>u, <2>3, RoomIsKept
<1>1. CASE UNCHANGED vars
  BY <1>1, <1>k DEF vars
<1>2. ASSUME NEW a \in Apps, AppStep(a)
      PROVE  HasRoom'
  <2>1. CASE Approve(a)
    <3>1. /\ Approval(a).spec = pending[a] /\ pending[a] \in Nat
          /\ reqs' = reqs \union {Approval(a)} /\ ea' = ea
      BY <1>t, <2>1, SpecsAreNumbered DEF Approve, Approval
    <3>2. Quota(pending[a], Active) = "fits" /\ \A p \in reqs : p.at # "admitted"
      <4>1. "no-room" \notin why' /\ "overlap" \notin why'
        BY DEF Orderly
      <4> QED
        BY <2>1, <4>1 DEF Approve
    <3> HIDE DEF Approval
    <3> QED
      BY <1>w, <3>1, <3>2, RoomForOne
  <2>2. CASE DeleteEA(a)
    BY <1>d, <2>2 DEF DeleteEA
  <2>3. CASE Forward(a)
    <3> DEFINE new == [app |-> a, kind |-> Due(a), spec |-> ra[a].spec, at |-> "wire", waited |-> TRUE]
    <3>1. ea' = ea /\ reqs' = reqs \union {new} /\ new.at = "wire"
      BY <2>3 DEF Forward
    <3> HIDE DEF new
    <3>2. \A q \in reqs' : q.at = "admitted" => q \in reqs
      BY <3>1
    <3> QED
      BY <1>k, <3>1, <3>2
  <2>4. ~TimeOut(a)
    BY DEF TimeOut, Orderly
  <2>5. CASE Submit(a) \/ EditSpec(a) \/ Delete(a) \/ CannotDeploy(a) \/ RejectApp(a)
    <3>1. ea' = ea /\ reqs' = reqs
      BY <2>5 DEF Submit, EditSpec, Delete, CannotDeploy, RejectApp
    <3> QED
      BY <1>k, <3>1
  <2> QED
    BY <1>2, <2>1, <2>2, <2>3, <2>4, <2>5 DEF AppStep
<1>3. ASSUME NEW r \in reqs, RequestStep(r)
      PROVE  HasRoom'
  <2>t. r \in Request /\ r.app \in Apps /\ r.spec \in Nat
    BY SpecsAreNumbered, <1>t
  <2>1. CASE GiveUp(r)
    <3> DEFINE new == [r EXCEPT !.waited = FALSE]
    <3>1. ea' = ea /\ reqs' = (reqs \ {r}) \union {new} /\ new.at = r.at /\ new.spec = r.spec
      BY <1>t, <2>1, MovedRequest DEF GiveUp
    <3> HIDE DEF new
    <3>2. \A q \in reqs' : q.at = "admitted" =>
            /\ \E p \in reqs : p.at = "admitted" /\ p.spec = q.spec
            /\ \A p \in reqs' : p.at = "admitted" => p = q
      BY <1>u, <3>1
    <3>3. \A b \in Existing' : /\ b \in Existing /\ ea'[b].spec = ea[b].spec
                               /\ ea'[b].timeout => ea[b].timeout
      BY <3>1 DEF Existing, Exists
    <3> QED
      BY <1>w, <3>2, <3>3, RoomIsKept
  <2>2. CASE Lose(r) \/ Queue(r)
    BY <1>k, <2>2 DEF Lose, Queue, Answer
  <2>3. CASE Admit(r)
    <3>1. CASE \E listed \in Listed : Pass(r, listed)
      <4>0. Goes(r, "admitted")
        BY <3>1 DEF Pass
      <4> DEFINE new == [r EXCEPT !.at = "admitted"]
      <4>1. ea' = ea /\ reqs' = (reqs \ {r}) \union {new} /\ new.spec = r.spec
        BY <1>t, <2>3, <4>0, MovedRequest DEF Goes, Admit
      <4>2. "overlap" \notin why' /\ "blind" \notin why'
        BY DEF Orderly
      <4>3. Quota(r.spec, Active) = "fits" /\ \A p \in reqs : p.at # "admitted"
        BY <3>1, <4>2 DEF Pass
      <4> HIDE DEF new
      <4> QED
        BY <1>w, <2>t, <4>1, <4>3, RoomForOne
    <3>2. CASE \E listed \in Listed : Refuse(r, listed)
      BY <1>k, <2>3, <3>2 DEF Admit, Refuse, Answer
    <3>3. CASE Answer(r, "error")
      BY <1>k, <2>3, <3>3 DEF Admit, Answer
    <3> QED
      BY <2>3, <3>1, <3>2, <3>3 DEF Admit, Admission
  <2>4. CASE Create(r)
    <3>1. r.at = "admitted" /\ \A b \in Apps : b # r.app => ea'[b] = ea[b]
      BY <2>4, CreateFacts, OthersStay
    <3>2. CASE ea' = ea /\ Answer(r, "ok")
      BY <1>k, <3>2 DEF Answer
    <3>3. CASE Exists(r.app) /\ ea'[r.app].spec = r.spec /\ ~ea'[r.app].timeout /\ Answer(r, "ok")
      <4>1. \A b \in Existing' : \/ b \in Existing /\ ea'[b] = ea[b]
                                 \/ b = r.app /\ ea'[b].spec = r.spec /\ ~ea'[b].timeout
        BY <3>1, <3>3 DEF Existing, Exists
      <4>2. reqs' = reqs \ {r}
        BY <3>3 DEF Answer
      <4> QED
        BY <1>w, <3>1, <4>1, <4>2, RoomIsUsed
    <3>4. CASE ea'[r.app].spec = r.spec /\ ~ea'[r.app].timeout /\ Goes(r, "status")
      <4> DEFINE new == [r EXCEPT !.at = "status"]
      <4>1. \A b \in Existing' : \/ b \in Existing /\ ea'[b] = ea[b]
                                 \/ b = r.app /\ ea'[b].spec = r.spec /\ ~ea'[b].timeout
        BY <3>1, <3>4 DEF Existing, Exists
      <4>2. reqs' = (reqs \ {r}) \union {new} /\ new.at = "status"
        BY <1>t, <3>4, MovedRequest DEF Goes
      <4> HIDE DEF new
      <4>3. \A q \in reqs' : q.at = "admitted" => q \in reqs \ {r}
        BY <4>2
      <4> QED
        BY <1>w, <3>1, <4>1, <4>3, RoomIsUsed
    <3> QED
      BY <2>4, <3>2, <3>3, <3>4, CreateFacts
  <2>5. CASE Patch(r)
    <3>1. r.at = "admitted" /\ reqs' = reqs \ {r} /\ \A b \in Apps : b # r.app => ea'[b] = ea[b]
      BY <2>5, PatchFacts, OthersStay DEF Answer
    <3>2. \/ ea' = ea
          \/ Exists(r.app) /\ ea'[r.app].spec = r.spec /\ ~ea'[r.app].timeout
      <4>1. \/ ea' = ea
            \/ ea' = [ea EXCEPT ![r.app] = IF Exists(r.app)
                                           THEN [@ EXCEPT !.spec = r.spec, !.timeout = FALSE] ELSE @]
        BY <2>5 DEF Patch
      <4>2. /\ ea[r.app] \in ExecutingApps /\ (~Exists(r.app) => ea' = ea \/ ea' = [ea EXCEPT ![r.app] = @])
            /\ Exists(r.app) => ea' = ea \/ ea' = [ea EXCEPT ![r.app] = [@ EXCEPT !.spec = r.spec, !.timeout = FALSE]]
        BY <1>t, <2>t, <4>1
      <4>3. CASE Exists(r.app)
        <5> DEFINE new == [ea[r.app] EXCEPT !.spec = r.spec, !.timeout = FALSE]
        <5>1. new.spec = r.spec /\ new.timeout = FALSE
          BY <4>2 DEF ExecutingApps
        <5>2. ea' = ea \/ ea' = [ea EXCEPT ![r.app] = new]
          BY <4>2, <4>3
        <5> HIDE DEF new
        <5> QED
          BY <1>t, <2>t, <4>3, <5>1, <5>2
      <4>4. CASE ~Exists(r.app)
        BY <1>t, <2>t, <4>2, <4>4
      <4> QED
        BY <4>3, <4>4
    <3>3. CASE ea' = ea
      BY <1>k, <3>1, <3>3
    <3>4. CASE Exists(r.app) /\ ea'[r.app].spec = r.spec /\ ~ea'[r.app].timeout
      <4>1. \A b \in Existing' : \/ b \in Existing /\ ea'[b] = ea[b]
                                 \/ b = r.app /\ ea'[b].spec = r.spec /\ ~ea'[b].timeout
        BY <3>1, <3>4 DEF Existing, Exists
      <4> QED
        BY <1>w, <3>1, <4>1, RoomIsUsed
    <3> QED
      BY <3>2, <3>3, <3>4
  <2>6. CASE WriteStatus(r)
    <3>1. /\ reqs' = reqs \ {r} /\ \A b \in Apps : b # r.app => ea'[b] = ea[b]
          /\ Exists(r.app)' <=> Exists(r.app)
          /\ ea'[r.app].spec = ea[r.app].spec /\ ea'[r.app].timeout = ea[r.app].timeout
      BY <2>6, WriteStatusFacts, OthersStay DEF Answer
    <3>2. \A b \in Existing' : /\ b \in Existing /\ ea'[b].spec = ea[b].spec
                               /\ ea'[b].timeout => ea[b].timeout
      <4> SUFFICES ASSUME NEW b \in Existing'
                   PROVE  /\ b \in Existing /\ ea'[b].spec = ea[b].spec
                          /\ ea'[b].timeout => ea[b].timeout
        OBVIOUS
      <4>1. CASE b = r.app
        BY <3>1, <4>1 DEF Existing
      <4>2. CASE b # r.app
        BY <3>1, <4>2 DEF Existing, Exists
      <4> QED
        BY <4>1, <4>2
    <3> QED
      BY <1>w, <1>u, <3>1, <3>2, RoomIsKept
  <2>7. CASE HandleDelete(r)
    <3>1. reqs' = reqs \ {r} /\ (ea' = [ea EXCEPT ![r.app] = NoEA] \/ ea' = ea)
      BY <2>7 DEF HandleDelete, Answer
    <3> QED
      BY <1>d, <1>k, <2>t, <3>1
  <2> QED
    BY <1>3, <2>1, <2>2, <2>3, <2>4, <2>5, <2>6, <2>7 DEF RequestStep
<1>4. CASE ToggleApproval \/ SaveWithoutQueue \/ WriteState \/ Restart
  <2>1. ea' = ea /\ reqs' \subseteq reqs
    BY <1>4 DEF ToggleApproval, SaveWithoutQueue, WriteState, Restart
  <2> QED
    BY <1>k, <2>1
<1> QED
  BY <1>1, <1>2, <1>3, <1>4 DEF Next, AppStep, RequestStep

\* One request is between check and creation, unless two met there.
OneAdmitted ==
  "overlap" \notin why => \A p, q \in reqs : p.at = "admitted" /\ q.at = "admitted" => p = q

LEMMA OneAdmittedStep ==
  ASSUME TypeOK, OneAdmitted, [Next]_vars
  PROVE  OneAdmitted'
<1> SUFFICES ASSUME "overlap" \notin why'
             PROVE  \A p, q \in reqs' : p.at = "admitted" /\ q.at = "admitted" => p = q
  BY DEF OneAdmitted
<1>u. \A p, q \in reqs : p.at = "admitted" /\ q.at = "admitted" => p = q
  BY ReasonsStay DEF OneAdmitted
<1>t. reqs \subseteq Request
  BY DEF TypeOK
<1>k. ASSUME \A q \in reqs' : q.at = "admitted" => q \in reqs
      PROVE  \A p, q \in reqs' : p.at = "admitted" /\ q.at = "admitted" => p = q
  BY <1>k, <1>u
<1>n. ASSUME NEW q, NEW S \in SUBSET reqs, reqs' = S \union {q}, \A p \in S : p.at # "admitted"
      PROVE  \A p, r \in reqs' : p.at = "admitted" /\ r.at = "admitted" => p = r
  BY <1>n
<1>1. CASE UNCHANGED vars
  BY <1>1, <1>k DEF vars
<1>2. ASSUME NEW a \in Apps, AppStep(a)
      PROVE  \A p, q \in reqs' : p.at = "admitted" /\ q.at = "admitted" => p = q
  <2>1. CASE Approve(a)
    <3>1. reqs' = reqs \union {Approval(a)} /\ \A p \in reqs : p.at # "admitted"
      BY <2>1 DEF Approve
    <3> QED
      BY <1>n, <3>1
  <2>2. CASE Forward(a)
    <3> DEFINE new == [app |-> a, kind |-> Due(a), spec |-> ra[a].spec, at |-> "wire", waited |-> TRUE]
    <3>1. reqs' = reqs \union {new} /\ new.at = "wire"
      BY <2>2 DEF Forward
    <3> HIDE DEF new
    <3> QED
      BY <1>k, <3>1
  <2>3. CASE ~Approve(a) /\ ~Forward(a)
    BY <1>2, <1>k, <2>3 DEF AppStep, Submit, EditSpec, Delete, CannotDeploy, RejectApp, DeleteEA, TimeOut
  <2> QED
    BY <2>1, <2>2, <2>3
<1>3. ASSUME NEW r \in reqs, RequestStep(r)
      PROVE  \A p, q \in reqs' : p.at = "admitted" /\ q.at = "admitted" => p = q
  <2>1. CASE GiveUp(r)
    <3> DEFINE new == [r EXCEPT !.waited = FALSE]
    <3>1. reqs' = (reqs \ {r}) \union {new} /\ new.at = r.at
      BY <1>t, <2>1, MovedRequest DEF GiveUp
    <3> HIDE DEF new
    <3> QED
      BY <1>u, <3>1
  <2>2. CASE Admit(r)
    <3>1. CASE \E answer \in {"refused", "unwritten", "error"} : Answer(r, answer)
      BY <1>k, <3>1 DEF Answer
    <3>2. CASE Goes(r, "admitted") /\ \A p \in reqs : p.at # "admitted"
      <4> DEFINE new == [r EXCEPT !.at = "admitted"]
      <4>1. reqs' = (reqs \ {r}) \union {new}
        BY <3>2 DEF Goes
      <4> HIDE DEF new
      <4> QED
        BY <1>n, <3>2, <4>1
    <3> QED
      BY <2>2, <3>1, <3>2 DEF Admit, Admission, Refuse, Pass
  <2>3. CASE Create(r)
    <3>1. CASE Goes(r, "status")
      <4> DEFINE new == [r EXCEPT !.at = "status"]
      <4>1. reqs' = (reqs \ {r}) \union {new} /\ new.at = "status"
        BY <1>t, <3>1, MovedRequest DEF Goes
      <4> HIDE DEF new
      <4> QED
        BY <1>k, <4>1
    <3>2. CASE Answer(r, "ok")
      BY <1>k, <3>2 DEF Answer
    <3> QED
      BY <2>3, <3>1, <3>2, CreateFacts
  <2>4. CASE Lose(r) \/ Queue(r) \/ WriteStatus(r) \/ Patch(r) \/ HandleDelete(r)
    BY <1>k, <2>4 DEF Lose, Queue, WriteStatus, Patch, HandleDelete, Answer
  <2> QED
    BY <1>3, <2>1, <2>2, <2>3, <2>4 DEF RequestStep
<1>4. CASE ToggleApproval \/ SaveWithoutQueue \/ WriteState \/ Restart
  BY <1>4, <1>k DEF ToggleApproval, SaveWithoutQueue, WriteState, Restart
<1> QED
  BY <1>1, <1>2, <1>3, <1>4 DEF Next, AppStep, RequestStep

\* Nothing has happened that lets the two sides part.
Straight == why \cap {"late", "overlap", "overtaken", "crash", "api", "forgotten", "lost-push"} = {}

\* A request on its way: an approval is of the spec handled and finds no ExecutingApp,
\* the creation waited for has made one of its spec, and an update finds one.
OnTrack(r) ==
  /\ r.kind = "approve" /\ r.at = "admitted" =>
       ~Exists(r.app) /\ (ra[r.app].handled # 0 => r.spec = ra[r.app].handled)
  /\ r.waited /\ r.at = "status" => Exists(r.app) /\ ea[r.app].spec = r.spec
  /\ r.kind = "update" /\ r.at = "admitted" => Exists(r.app)

\* The spec that kopf has handled is the one running, or else the one queued.
Tracked(a) ==
  /\ ra[a].handled # 0 /\ Exists(a) /\ pending[a] = 0 => ea[a].spec = ra[a].handled
  /\ ra[a].handled # 0 /\ ~Exists(a) /\ pending[a] # 0 => pending[a] = ra[a].handled
  /\ \A r \in reqs : r.app = a => OnTrack(r)

SpecIsTracked ==
  Straight => \A a \in Apps : ra[a].here = "live" /\ ra[a].phase = "Pending" => Tracked(a)

\* No request but r is admitted or waited for, and its workload is tracked.
LEMMA TrackedAlone ==
  ASSUME NEW a \in Apps, NEW S, reqs' = S,
         ra'[a].handled # 0 /\ Exists(a)' /\ pending'[a] = 0 => ea'[a].spec = ra'[a].handled,
         ra'[a].handled # 0 /\ ~Exists(a)' /\ pending'[a] # 0 => pending'[a] = ra'[a].handled,
         \A q \in S : q.app = a => q.at # "admitted" /\ ~q.waited
  PROVE  Tracked(a)'
BY DEF Tracked, OnTrack

\* Requests that stay do so on track while the ExecutingApp and what is handled stay.
LEMMA OnTrackStays ==
  ASSUME NEW a \in Apps, Tracked(a), ra'[a].handled = ra[a].handled,
         Exists(a)' <=> Exists(a), ea'[a].spec = ea[a].spec
  PROVE  \A r \in reqs : r.app = a => OnTrack(r)'
BY DEF Tracked, OnTrack, Exists

\* What the submitting side's kopf and the executing side's operator do.
LEMMA TrackedByAppSteps ==
  ASSUME TypeOK, NotYetSubmitted, SpecIsTracked, [Next]_vars, Straight', NEW a \in Apps, AppStep(a),
         ra'[a].here = "live", ra'[a].phase = "Pending"
  PROVE  Tracked(a)'
<1>w. Straight /\ "forgotten" \notin why
  BY ReasonsStay DEF Straight
<1>t. /\ ra \in [Apps -> RemoteApps] /\ reqs \subseteq Request /\ ea \in [Apps -> ExecutingApps]
      /\ pending \in Queues
  BY DEF TypeOK, RemoteApps, ExecutingApps
<1>p. ra[a].phase = "Pending"
  BY RemoteAppsMoveOn
<1>1. CASE Submit(a)
  <2>1. ra'[a].handled = 0 /\ \A r \in reqs' : r.app # a
    BY <1>t, <1>w, <1>1 DEF Submit, NotYetSubmitted, RemoteApps
  <2> QED
    BY <2>1 DEF Tracked
<1>2. CASE ~Submit(a)
  <2>1. ra[a].here = "live" /\ Tracked(a)
    BY <1>w, <1>p, <1>2, RemoteAppsMoveOn DEF SpecIsTracked
  <2>2. ~RejectApp(a) /\ ~DeleteEA(a) /\ ~CannotDeploy(a) /\ ~Delete(a)
    <3>1. "lost-push" \notin why'
      BY DEF Straight
    <3>2. ASSUME NEW phase \in {"Rejected", "Deleted"}, Push(a, phase)
          PROVE  FALSE
      BY <1>t, <2>1, <3>1, <3>2, PushFacts
    <3>3. ~CannotDeploy(a)
      BY <1>t DEF CannotDeploy, Straight, RemoteApps
    <3>4. ~Delete(a)
      BY <1>t DEF Delete, RemoteApps
    <3> QED
      BY <3>2, <3>3, <3>4 DEF RejectApp, DeleteEA
  <2>3. ra'[a].handled = ra[a].handled
    BY <1>t, <1>2, <2>2 DEF AppStep, EditSpec, Forward, Approve, TimeOut, RemoteApps
  <2>4. (Exists(a)' <=> Exists(a)) /\ ea'[a].spec = ea[a].spec
    BY <1>t, <1>2, <2>2 DEF AppStep, EditSpec, Forward, Approve, TimeOut, Exists, ExecutingApps
  <2>5. \A r \in reqs : r.app = a => OnTrack(r)'
    BY <2>1, <2>3, <2>4, OnTrackStays
  <2>6. CASE Approve(a)
    <3>1. "overtaken" \notin why'
      BY DEF Straight
    <3>2. ~Exists(a) /\ pending[a] # 0 /\ pending'[a] = 0
      BY <1>t, <2>6, <3>1 DEF Approve, Queues
    <3>3. ra[a].handled # 0 => pending[a] = ra[a].handled
      BY <2>1, <3>2 DEF Tracked
    <3>4. PICK new : /\ reqs' = reqs \union {new}
                     /\ new.app = a /\ new.kind = "approve" /\ new.spec = pending[a] /\ ~new.waited
      <4>1. /\ Approval(a).app = a /\ Approval(a).kind = "approve"
            /\ Approval(a).spec = pending[a] /\ ~Approval(a).waited
        BY DEF Approval
      <4>2. reqs' = reqs \union {Approval(a)}
        BY <2>6 DEF Approve
      <4> QED
        BY <4>1, <4>2
    <3>5. OnTrack(new)'
      BY <2>3, <2>4, <3>2, <3>3, <3>4 DEF OnTrack, Exists
    <3> QED
      BY <2>4, <2>5, <3>2, <3>4, <3>5 DEF Tracked
  <2>7. CASE Forward(a)
    <3> DEFINE new == [app |-> a, kind |-> Due(a), spec |-> ra[a].spec, at |-> "wire", waited |-> TRUE]
    <3>1. /\ reqs' = reqs \union {new} /\ new.at = "wire"
          /\ ra' = ra /\ ea' = ea /\ pending' = pending
      BY <2>7 DEF Forward
    <3> HIDE DEF new
    <3>2. \A r \in reqs' : r.app = a => OnTrack(r)'
      BY <2>5, <3>1 DEF OnTrack
    <3> QED
      BY <2>1, <3>1, <3>2 DEF Tracked, Exists
  <2>8. CASE EditSpec(a) \/ TimeOut(a)
    <3>1. reqs' = reqs /\ pending' = pending
      BY <2>8 DEF EditSpec, TimeOut
    <3> QED
      BY <2>1, <2>3, <2>4, <2>5, <3>1 DEF Tracked
  <2> QED
    BY <1>2, <2>2, <2>6, <2>7, <2>8 DEF AppStep
<1> QED
  BY <1>1, <1>2

\* What becomes of a request.
LEMMA TrackedByRequests ==
  ASSUME TypeOK, RequestsFit, OneAdmitted, NotYetSubmitted, SpecIsTracked, [Next]_vars, Straight',
         NEW a \in Apps, NEW r \in reqs, r.app = a, RequestStep(r),
         ra'[a].here = "live", ra'[a].phase = "Pending"
  PROVE  Tracked(a)'
<1>w. Straight /\ "forgotten" \notin why /\ "overlap" \notin why /\ "late" \notin why' /\ "api" \notin why'
  BY ReasonsStay DEF Straight
<1>t. /\ ra \in [Apps -> RemoteApps] /\ reqs \subseteq Request /\ ea \in [Apps -> ExecutingApps]
      /\ pending \in Queues
  BY DEF TypeOK, RemoteApps, ExecutingApps
<1>k. r.spec \in Nat \ {0} /\ ra[a].handled \in Nat /\ pending[a] \in Nat
  BY SpecsAreNumbered
<1>1. ra[a].here = "live" /\ Tracked(a)
  <2>1. ~Submit(a)
    BY <1>w DEF Submit, NotYetSubmitted
  <2> QED
    BY <1>w, <2>1, RemoteAppsMoveOn DEF SpecIsTracked
<1>o. OnTrack(r)
  BY <1>1 DEF Tracked
<1>u. \A q \in reqs \ {r} : /\ r.at = "admitted" => q.at # "admitted"
                            /\ r.waited /\ q.app = a => ~q.waited
  BY <1>w DEF OneAdmitted, RequestsFit
<1>l. ASSUME ~Late(r), r.kind # "approve", r.at = "admitted"
      PROVE  /\ \A q \in reqs \ {r} : q.app = a => q.at # "admitted" /\ ~q.waited
             /\ ~r.waited => ra[a].handled = 0
  BY <1>1, <1>u, <1>l DEF Late, Calling
<1>h. ASSUME Answer(r, "ok"), r.kind # "delete"
      PROVE  /\ reqs' = reqs \ {r}
             /\ r.waited => ra'[a].handled = r.spec
             /\ ~r.waited => ra'[a].handled = ra[a].handled
  BY <1>t, <1>h, AnswerFacts
<1>2. CASE Queue(r)
  <2>1. /\ pending'[a] = r.spec /\ ea' = ea /\ Answer(r, "ok") /\ r.kind = "receive" /\ r.at = "admitted"
        /\ ~Late(r)
    BY <1>t, <1>w, <1>2 DEF Queue, Queues
  <2>2. /\ reqs' = reqs \ {r}
        /\ \A q \in reqs \ {r} : q.app = a => q.at # "admitted" /\ ~q.waited
        /\ ra'[a].handled # 0 => ra'[a].handled = r.spec
    BY <1>h, <1>l, <2>1
  <2> QED
    BY <1>k, <2>1, <2>2, TrackedAlone
<1>3. CASE Create(r)
  <2>1. r.at = "admitted" /\ r.kind \in {"approve", "receive"} /\ pending' = pending
    BY <1>3, CreateFacts
  <2>2. CASE ~Exists(a) /\ ea'[a].here = "bare" /\ ea'[a].spec = r.spec /\ Goes(r, "status") /\ ~Late(r)
    <3> DEFINE new == [r EXCEPT !.at = "status"]
    <3>1. /\ ra' = ra /\ reqs' = (reqs \ {r}) \union {new}
          /\ new.app = a /\ new.kind = r.kind /\ new.spec = r.spec /\ new.waited = r.waited
          /\ new.at = "status"
      BY <1>t, <2>2, MovedRequest DEF Goes
    <3> HIDE DEF new
    <3>2. Exists(a)'
      BY <2>2 DEF Exists
    <3>3. OnTrack(new)'
      BY <2>1, <2>2, <3>1, <3>2 DEF OnTrack, Exists
    <3>4. \A q \in reqs \ {r} : q.app = a => q.at # "admitted" /\ ~(q.waited /\ q.at = "status")
      BY <1>1, <1>u, <2>1, <2>2 DEF Tracked, OnTrack
    <3>5. \A q \in reqs' : q.app = a => OnTrack(q)'
      BY <3>1, <3>3, <3>4 DEF OnTrack
    <3>6. ra'[a].handled # 0 => ea'[a].spec = ra'[a].handled
      <4>1. CASE r.kind = "approve"
        BY <1>o, <2>1, <2>2, <3>1, <4>1 DEF OnTrack
      <4>2. CASE r.kind = "receive"
        <5>1. ra[a].handled = 0
          BY <1>l, <2>1, <2>2, <4>2 DEF RequestsFit
        <5> QED
          BY <3>1, <5>1
      <4> QED
        BY <2>1, <4>1, <4>2
    <3> QED
      BY <3>2, <3>5, <3>6 DEF Tracked
  <2>3. CASE Exists(a) /\ ea'[a].here = ea[a].here /\ ea'[a].spec = r.spec /\ Answer(r, "ok") /\ ~Late(r)
    <3>1. r.kind = "receive" /\ Exists(a)'
      BY <1>o, <2>1, <2>3 DEF OnTrack, Exists
    <3>2. /\ reqs' = reqs \ {r}
          /\ \A q \in reqs \ {r} : q.app = a => q.at # "admitted" /\ ~q.waited
          /\ ra'[a].handled # 0 => ra'[a].handled = r.spec
      BY <1>h, <1>l, <2>1, <2>3, <3>1
    <3> QED
      BY <2>3, <3>1, <3>2, TrackedAlone
  <2> QED
    BY <1>3, <1>w, <2>2, <2>3, CreateFacts
<1>4. CASE WriteStatus(r)
  <2>1. /\ r.at = "status" /\ Answer(r, "ok") /\ pending' = pending
        /\ Exists(a)' <=> Exists(a)
        /\ ea'[a].spec = ea[a].spec
    BY <1>4, WriteStatusFacts DEF Exists
  <2>2. r.kind # "delete"
    BY <2>1 DEF RequestsFit
  <2>3. CASE ~r.waited
    <3>1. reqs' = reqs \ {r} /\ ra'[a].handled = ra[a].handled
      BY <1>h, <2>1, <2>2, <2>3
    <3>2. \A q \in reqs' : q.app = a => OnTrack(q)'
      BY <1>1, <2>1, <3>1, OnTrackStays
    <3> QED
      BY <1>1, <2>1, <3>1, <3>2 DEF Tracked
  <2>4. CASE r.waited
    <3>1. reqs' = reqs \ {r} /\ ra'[a].handled = r.spec
      BY <1>h, <2>1, <2>2, <2>4
    <3>2. Exists(a) /\ ea[a].spec = r.spec
      BY <1>o, <2>1, <2>4 DEF OnTrack
    <3>3. \A q \in reqs \ {r} : q.app = a => ~(q.kind = "approve" /\ q.at = "admitted") /\ ~q.waited
      BY <1>1, <1>u, <2>4, <3>2 DEF Tracked, OnTrack
    <3>4. \A q \in reqs' : q.app = a => OnTrack(q)'
      BY <2>1, <3>1, <3>2, <3>3 DEF OnTrack, Exists
    <3> QED
      BY <2>1, <3>1, <3>2, <3>4 DEF Tracked
  <2> QED
    BY <2>3, <2>4
<1>5. CASE Patch(r)
  <2>1. /\ r.at = "admitted" /\ r.kind = "update" /\ pending' = pending /\ Answer(r, "ok")
        /\ Exists(a)' <=> Exists(a)
        /\ ~Late(r) /\ (Exists(a) => ea'[a].spec = r.spec)
    BY <1>5, <1>w, PatchFacts DEF Exists
  <2>2. Exists(a)
    BY <1>o, <2>1 DEF OnTrack
  <2>3. /\ reqs' = reqs \ {r}
        /\ \A q \in reqs \ {r} : q.app = a => q.at # "admitted" /\ ~q.waited
        /\ ra'[a].handled # 0 => ra'[a].handled = r.spec
    BY <1>h, <1>l, <2>1
  <2> QED
    BY <2>1, <2>2, <2>3, TrackedAlone
<1>6. CASE Admit(r)
  <2>1. ea' = ea /\ pending' = pending /\ r.at = "wire" /\ r.kind \in {"receive", "update"}
    BY <1>6 DEF Admit
  <2>2. CASE Goes(r, "admitted") /\ (r.kind = "update" => Exists(a))
    <3> DEFINE new == [r EXCEPT !.at = "admitted"]
    <3>1. /\ ra' = ra /\ reqs' = (reqs \ {r}) \union {new}
          /\ new.app = a /\ new.kind = r.kind /\ new.at = "admitted"
      BY <1>t, <2>2, MovedRequest DEF Goes
    <3> HIDE DEF new
    <3>2. OnTrack(new)'
      BY <2>1, <2>2, <3>1 DEF OnTrack, Exists
    <3>3. \A q \in reqs' : q.app = a => OnTrack(q)'
      BY <1>1, <2>1, <3>1, <3>2 DEF Tracked, OnTrack, Exists
    <3> QED
      BY <1>1, <2>1, <3>1, <3>3 DEF Tracked, Exists
  <2>3. ASSUME NEW answer \in {"refused", "error"}, Answer(r, answer)
        PROVE  Tracked(a)'
    <3>1. reqs' = reqs \ {r} /\ ra'[a].handled = ra[a].handled
      BY <1>t, <2>1, <2>3, AnswerFacts
    <3> QED
      BY <1>1, <2>1, <3>1 DEF Tracked, OnTrack, Exists
  <2> QED
    BY <1>6, <2>2, <2>3 DEF Admit, Admission, Refuse, Pass, Straight
<1>7. CASE GiveUp(r)
  <2> DEFINE new == [r EXCEPT !.waited = FALSE]
  <2>1. /\ ra' = ra /\ ea' = ea /\ pending' = pending /\ reqs' = (reqs \ {r}) \union {new}
        /\ new.app = a /\ new.kind = r.kind /\ new.at = r.at /\ new.spec = r.spec /\ ~new.waited
    BY <1>t, <1>7, MovedRequest DEF GiveUp
  <2> HIDE DEF new
  <2>2. OnTrack(new)'
    BY <1>o, <2>1 DEF OnTrack, Exists
  <2>3. \A q \in reqs' : q.app = a => OnTrack(q)'
    BY <1>1, <2>1, <2>2 DEF Tracked, OnTrack, Exists
  <2> QED
    BY <1>1, <2>1, <2>3 DEF Tracked, Exists
<1>8. CASE Lose(r)
  BY <1>1, <1>8 DEF Lose, Tracked, OnTrack, Exists
<1>9. ~HandleDelete(r)
  BY <1>1 DEF HandleDelete, RequestsFit
<1> QED
  BY <1>2, <1>3, <1>4, <1>5, <1>6, <1>7, <1>8, <1>9 DEF RequestStep

\* While nothing goes wrong the spec that was handled is the one that runs.
LEMMA SpecIsTrackedStep ==
  ASSUME TypeOK, RequestsFit, OneAdmitted, NotYetSubmitted, SpecIsTracked, [Next]_vars
  PROVE  SpecIsTracked'
<1> SUFFICES ASSUME Straight', NEW a \in Apps, ra'[a].here = "live", ra'[a].phase = "Pending"
             PROVE  Tracked(a)'
  BY DEF SpecIsTracked
<1>1. CASE AppStep(a)
  BY <1>1, TrackedByAppSteps
<1>2. CASE \E r \in reqs : r.app = a /\ RequestStep(r)
  BY <1>2, TrackedByRequests
<1>3. CASE Untouched(a) \/ Restart
  <2>1. Straight
    BY ReasonsStay DEF Straight
  <2>2. /\ ra'[a] = ra[a] /\ ea'[a] = ea[a] /\ pending'[a] = pending[a]
        /\ \A r \in reqs' : r.app = a => r \in reqs
    <3>1. CASE Restart
      BY <3>1 DEF Restart, Straight
    <3> QED
      BY <1>3, <3>1 DEF Untouched
  <2>3. Tracked(a)
    BY <2>1, <2>2 DEF SpecIsTracked
  <2> QED
    BY <2>2, <2>3 DEF Tracked, OnTrack, Exists
<1> QED
  BY <1>1, <1>2, <1>3, OneAtATime

-----------------------------------------------------------------------------
(* The theorems.                                                           *)

\* The inductive invariant: each property with what the requests on their way
\* need to keep it.
IInv ==
  /\ TypeOK /\ RequestsFit /\ OneAdmitted
  /\ LastIsNewest /\ BareIsTransient
  /\ NotYetSubmitted /\ GoneIsGone /\ RefusedIsOut /\ AcceptedIsKept
  /\ HasRoom /\ SpecIsTracked

\* The initial states satisfy the invariant.
LEMMA InitIInv ==
  ASSUME Init
  PROVE  IInv
<1>1. ra \in [Apps -> RemoteApps]
  BY WorkloadAssumption DEF Init, RemoteApps
<1>2. ea \in [Apps -> ExecutingApps] /\ pending \in Queues /\ cm \in Queues
  BY EmptyType DEF Init
<1>3. giveUps \in 0..MaxGiveUps
  BY WorkloadAssumption DEF Init
<1>4. TypeOK
  BY <1>1, <1>2, <1>3 DEF Init, TypeOK, RemoteApps, ExecutingApps
<1>5. LastIsNewest
  BY DEF Init, LastIsNewest
<1>6. BareIsTransient
  BY DEF Init, BareIsTransient, NoEA
<1>7. \A a \in Apps : /\ ra[a].here = "absent" /\ ra[a].phase = "Pending" /\ ra[a].handled = 0
                     /\ ~Exists(a) /\ pending[a] = 0
  BY DEF Init, Exists, NoEA, Empty
<1>8. RequestsFit /\ OneAdmitted
  BY DEF Init, RequestsFit, OneAdmitted
<1>9. NotYetSubmitted /\ GoneIsGone /\ RefusedIsOut /\ AcceptedIsKept
  BY <1>7 DEF Init, NotYetSubmitted, GoneIsGone, RefusedIsOut, AcceptedIsKept
<1>10. HasRoom
  <2>1. Existing = {}
    BY <1>7 DEF Existing
  <2>2. Pods(Existing) = {}
    BY <2>1 DEF Pods
  <2>3. Deploys = 0 /\ PodsUsed = 0
    BY <2>1, <2>2, FS_EmptySet DEF Deploys, PodsUsed
  <2>4. Deploys <= MaxDeploys /\ PodsUsed <= MaxPods
    BY <2>3, WorkloadAssumption
  <2> QED
    BY <2>1, <2>4 DEF Init, HasRoom
<1>11. SpecIsTracked
  BY <1>7 DEF Init, SpecIsTracked, Tracked
<1> QED
  BY <1>4, <1>5, <1>6, <1>8, <1>9, <1>10, <1>11 DEF IInv

\* The invariant holds in every behaviour.
LEMMA IInvHolds == Spec => []IInv
<1>1. Init => IInv
  BY InitIInv
<1>2. IInv /\ [Next]_vars => IInv'
  BY TypeOKStep, RequestsFitStep, OneAdmittedStep, LastIsNewestStep, BareIsTransientStep,
     NotYetSubmittedStep, GoneIsGoneStep, RefusedIsOutStep, AcceptedIsKeptStep, HasRoomStep,
     SpecIsTrackedStep DEF IInv
<1> QED
  BY <1>1, <1>2, PTL DEF Spec

\* Every reachable state of the two clusters has its types.
THEOREM WorkloadTypes == Spec => []TypeOK
<1>1. IInv => TypeOK
  BY DEF IInv
<1> QED
  BY <1>1, IInvHolds, PTL

\* Once the writers are done the ConfigMap holds the approval queue, unless two
\* writers met, one failed, or a peer was removed.
THEOREM QueueSaved == Spec => []QueueIsSaved
<1>1. IInv => QueueIsSaved
  BY DEF IInv, LastIsNewest, QueueIsSaved
<1> QED
  BY <1>1, IInvHolds, PTL

\* An ExecutingApp without status.appId is one that is being created, unless the
\* agent died there or the status was not written.
THEOREM StatusFollows == Spec => []BareIsTransient
<1>1. IInv => BareIsTransient
  BY DEF IInv
<1> QED
  BY <1>1, IInvHolds, PTL

\* kopf has nothing to do for a live RemoteApp only when its spec is the one handled.
LEMMA QuietIsHandled ==
  ASSUME NEW a \in Apps, Quiet(a), ra[a].here = "live"
  PROVE  ra[a].handled # 0 /\ ra[a].handled = ra[a].spec
<1>1. ra[a].handled # 0
  BY DEF Quiet, Due
<1> QED
  BY <1>1 DEF Quiet, Due

\* Neither an ExecutingApp nor an entry of the approval queue outlives its RemoteApp,
\* unless it was deleted while it waited for approval, a request its caller had given
\* up was handled after the delete, or the API server failed at a delete.
THEOREM OrphanFree == Spec => []NoOrphan
<1>1. IInv => NoOrphan
  BY DEF IInv, GoneIsGone, NoOrphan, Queued
<1> QED
  BY <1>1, IInvHolds, PTL

\* A workload that was accepted runs or waits for approval until the submitting side
\* hears otherwise, unless the API server failed, the agent died in a handler or with
\* an unsaved queue, or the push that tells was lost.
THEOREM AcceptedIsNotLost == Spec => []NothingLost
<1>1. IInv => NothingLost
  <2> SUFFICES ASSUME IInv, why \cap {"crash", "forgotten", "api", "lost-push"} = {},
                      NEW a \in Apps, Quiet(a), ra[a].here = "live", ra[a].phase = "Pending"
               PROVE  Exists(a) \/ pending[a] # 0
    BY DEF NothingLost
  <2>1. Exists(a) \/ Awaiting(a)
    BY QuietIsHandled DEF IInv, AcceptedIsKept
  <2> QED
    BY <2>1 DEF Awaiting, Quiet
<1> QED
  BY <1>1, IInvHolds, PTL

\* A RemoteApp that was refused neither runs nor is queued, unless a repeated call
\* was the one refused.
THEOREM RefusedDoesNotRun == Spec => []FailedIsNotRunning
<1>1. IInv => FailedIsNotRunning
  BY DEF IInv, RefusedIsOut, FailedIsNotRunning, Queued
<1> QED
  BY <1>1, IInvHolds, PTL

\* The deployments and the pods of every ExecutingApp together are within the quota,
\* unless two requests were between check and creation at once, an approval came when
\* there was no room, a workload timed out, or the quota could not list what runs and
\* let through what has no room.
THEOREM QuotaIsKept == Spec => []WithinQuota
<1>1. IInv => WithinQuota
  BY DEF IInv, HasRoom, Orderly, WithinQuota, Existing, Deploys, PodsUsed
<1> QED
  BY <1>1, IInvHolds, PTL

\* What runs is the spec of the RemoteApp once kopf has nothing left to forward,
\* unless one of the reasons that SpecFollows excepts has come up.
THEOREM EditsArrive == Spec => []SpecFollows
<1>1. IInv => SpecFollows
  <2> SUFFICES ASSUME IInv, Straight, NEW a \in Apps, Quiet(a), ra[a].here = "live",
                      ra[a].phase = "Pending", Exists(a), pending[a] = 0
               PROVE  ea[a].spec = ra[a].spec
    BY DEF SpecFollows, Straight
  <2>1. Tracked(a)
    BY DEF IInv, SpecIsTracked
  <2> QED
    BY <2>1, QuietIsHandled DEF Tracked
<1> QED
  BY <1>1, IInvHolds, PTL
=============================================================================
