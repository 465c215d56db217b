--------------------------- MODULE ExecutorProofs ---------------------------
(***************************************************************************)
(* For every number of deploys, patches, volumes and edits: the types of   *)
(* module Executor, that two deploys nobody has told to stop never run     *)
(* side by side, and what Ready here and the status there are worth.       *)
(***************************************************************************)
EXTENDS Executor, TLAPS, SequenceTheorems

\* Unless an event was stolen, a deploy that runs and was not told to stop is the
\* one whose event is in the table; so there is at most one.
WatcherIsListed ==
  "stolen" \notin why => \A d \in Deploys : Working(d) /\ ~thread[d].cancelled => stopEvent = d

\* Taking one element out of a sequence leaves a sequence of the same elements.
LEMMA WithoutType ==
  ASSUME NEW S, NEW s \in Seq(S), NEW i \in 1..Len(s)
  PROVE  Without(s, i) \in Seq(S)
<1>1. SubSeq(s, 1, i - 1) \in Seq(S) /\ SubSeq(s, i + 1, Len(s)) \in Seq(S)
  <2>1. \A j \in 1..Len(s) : s[j] \in S
    BY ElementOfSeq
  <2>2. \A j \in 1..(i - 1) : s[j] \in S
    BY <2>1
  <2>3. \A j \in (i + 1)..Len(s) : s[j] \in S
    BY <2>1
  <2> QED
    BY <2>2, <2>3, SubSeqProperties
<1> QED
  BY <1>1, ConcatProperties DEF Without

Threads == [at : Places, spec : Specs, says : Phases, owes : BOOLEAN, cancelled : BOOLEAN]

\* A thread that does not run is a thread.
LEMMA NoThreadType == NoThread \in Threads /\ NoData \in Data
<1>1. NoData \in Data /\ 1 \in 1..MaxEdits
  BY ExecutorAssumption DEF NoData, Data
<1> QED
  BY <1>1 DEF NoThread, Threads, Specs, Places, Phases

\* A thread that changes some of its fields is one still.
LEMMA ThreadTypes ==
  ASSUME thread \in [Deploys -> Threads], NEW d \in Deploys
  PROVE  /\ \A phase \in Phases, next \in Places :
              Report(d, phase, next) => thread' \in [Deploys -> Threads]
         /\ \A next \in Places : Moves(d, next) => thread' \in [Deploys -> Threads]
         /\ Ends(d) => thread' \in [Deploys -> Threads]
<1>1. ASSUME NEW phase \in Phases, NEW next \in Places, Report(d, phase, next)
      PROVE  thread' \in [Deploys -> Threads]
  BY <1>1 DEF Report, Threads
<1>2. ASSUME NEW next \in Places, Moves(d, next)
      PROVE  thread' \in [Deploys -> Threads]
  BY <1>2 DEF Moves, Threads
<1>3. ASSUME Ends(d)
      PROVE  thread' \in [Deploys -> Threads]
  BY <1>3, NoThreadType DEF Ends
<1> QED
  BY <1>1, <1>2, <1>3

\* Telling a thread to stop changes nothing but its mark.
LEMMA CancelType ==
  ASSUME thread \in [Deploys -> Threads], NEW d
  PROVE  /\ Cancel(d) \in [Deploys -> Threads]
         /\ \A e \in Deploys : Cancel(d)[e].at = thread[e].at
         /\ \A e \in Deploys : Cancel(d)[e].cancelled = (thread[e].cancelled \/ (e = d /\ Working(d)))
<1>1. CASE d \in Deploys /\ Working(d)
  BY <1>1 DEF Cancel, Threads
<1>2. CASE ~(d \in Deploys /\ Working(d))
  BY <1>2 DEF Cancel, Threads
<1> QED
  BY <1>1, <1>2

\* The initial states have their types, and no thread.
LEMMA InitTypes ==
  ASSUME Init
  PROVE  TypeOK /\ WatcherIsListed
<1>1. ea \in [here : {"live", "deleting", "gone"}, image : 1..MaxEdits, data : Data, phase : Phases]
  <2>1. [v \in Volumes |-> 1] \in Data /\ 1 \in 1..MaxEdits
    BY ExecutorAssumption DEF Data
  <2> QED
    BY <2>1 DEF Init, Phases
<1>2. thread \in [Deploys -> Threads]
  BY NoThreadType DEF Init
<1>3. patch \in [Patches -> [at : {"idle", "written", "read"}, vol : Volumes \union {"none"},
                             data : 0..MaxEdits, list : Data]]
  BY NoThreadType, ExecutorAssumption DEF Init, NoPatch
<1>4. seen \in [image : 0..MaxEdits, data : Data] /\ live \in Data
  BY NoThreadType, ExecutorAssumption DEF Init
<1>5. edits \in 1..MaxEdits /\ deployment \in 0..MaxEdits
  BY ExecutorAssumption DEF Init
<1>6. pushes \in Seq(Phases \union {"Deleted"}) /\ raPhase \in Phases \union {"Deleted"}
  BY DEF Init, Phases
<1>7. TypeOK
  BY <1>1, <1>2, <1>3, <1>4, <1>5, <1>6 DEF Init, TypeOK, Threads
<1>8. \A d \in Deploys : ~Working(d)
  BY DEF Init, Working, NoThread
<1> QED
  BY <1>7, <1>8 DEF WatcherIsListed

\* Every action keeps the types.
LEMMA TypeOKStep ==
  ASSUME TypeOK, [Next]_vars
  PROVE  TypeOK'
<1> USE DEF TypeOK
<1>t. thread \in [Deploys -> Threads]
  BY DEF Threads
<1>n. Threads = [at : Places, spec : Specs, says : Phases, owes : BOOLEAN, cancelled : BOOLEAN]
  BY DEF Threads
<1>1. CASE SpecUpdate
  <2>1. PICK given \in {0, edits + 1} :
          ea' = [ea EXCEPT !.image = edits + 1, !.data = [v \in Volumes |-> given]]
    BY <1>1 DEF SpecUpdate
  <2>2. edits + 1 \in 1..MaxEdits
    BY <1>1, ExecutorAssumption DEF SpecUpdate
  <2>3. [v \in Volumes |-> given] \in Data
    BY <2>2, ExecutorAssumption DEF Data
  <2>4. ea' \in [here : {"live", "deleting", "gone"}, image : 1..MaxEdits, data : Data, phase : Phases]
    BY <2>1, <2>2, <2>3
  <2> QED
    BY <1>1, <2>2, <2>4 DEF SpecUpdate, threads, cluster, peer
<1>2. CASE DeleteEA
  BY <1>2 DEF DeleteEA, threads, cluster, peer
<1>3. CASE OnDeleted
  <2>1. thread' \in [Deploys -> Threads]
    BY <1>t, <1>3, CancelType DEF OnDeleted, Bury
  <2>2. pushes' \in Seq(Phases \union {"Deleted"})
    <3>1. "Deleted" \in Phases \union {"Deleted"}
      OBVIOUS
    <3>2. pushes' = Append(pushes, "Deleted") \/ pushes' = pushes
      BY <1>3 DEF OnDeleted, Bury
    <3>3. pushes \in Seq(Phases \union {"Deleted"})
      OBVIOUS
    <3>4. Append(pushes, "Deleted") \in Seq(Phases \union {"Deleted"})
      BY <3>1, <3>3, AppendProperties
    <3> QED
      BY <3>2, <3>3, <3>4
  <2>3. why' \subseteq Reasons
    BY <1>3 DEF OnDeleted, Bury, Overlap, Reasons
  <2> QED
    BY <1>3, <1>n, <2>1, <2>2, <2>3 DEF OnDeleted, Bury, cluster
<1>4. CASE Collect
  BY <1>4, NoThreadType, ExecutorAssumption DEF Collect, threads, peer
<1>5. ASSUME NEW d \in Deploys, StartDeploy(d)
      PROVE  TypeOK'
  <2>1. SpecOf(ea) \in Specs /\ SpecOf(ea) \in [image : 0..MaxEdits, data : Data]
    BY ExecutorAssumption DEF SpecOf, Specs
  <2>2. [NoThread EXCEPT !.at = "check", !.spec = SpecOf(ea)] \in Threads
    BY <2>1, NoThreadType DEF Threads, Places
  <2>3. thread' \in [Deploys -> Threads]
    <3>1. Cancel(stopEvent) \in [Deploys -> Threads]
      BY <1>t, CancelType
    <3>2. thread' = [Cancel(stopEvent) EXCEPT ![d] = [NoThread EXCEPT !.at = "check", !.spec = SpecOf(ea)]]
      BY <1>5 DEF StartDeploy, Begin
    <3> QED
      BY <2>2, <3>1, <3>2
  <2>4. why' \subseteq Reasons
    BY <1>5 DEF StartDeploy, Begin, Overlap, Reasons
  <2> QED
    BY <1>5, <1>n, <2>1, <2>3, <2>4 DEF StartDeploy, Begin, cluster, peer
<1>6. ASSUME NEW d \in Deploys, Tell(d)
      PROVE  TypeOK'
  <2>1. thread' \in [Deploys -> Threads]
    <3>1. CASE thread[d].at = "over"
      BY <1>t, <1>6, <3>1, ThreadTypes DEF Tell, Tells
    <3>2. CASE thread[d].at # "over"
      <4>1. thread' = [thread EXCEPT ![d].owes = FALSE]
        BY <1>6, <3>2 DEF Tell, Tells
      <4> QED
        BY <1>t, <4>1 DEF Threads
    <3> QED
      BY <3>1, <3>2
  <2>2. PICK patched \in BOOLEAN, pushed \in BOOLEAN :
          /\ ea' = [ea EXCEPT !.phase = IF patched /\ ea.here # "gone" THEN thread[d].says ELSE @]
          /\ pushes' = IF pushed THEN Append(pushes, thread[d].says) ELSE pushes
          /\ why' = why \union (IF patched THEN {} ELSE {"api"}) \union (IF pushed THEN {} ELSE {"lost-push"})
    BY <1>6 DEF Tell
  <2>3. thread[d].says \in Phases
    OBVIOUS
  <2>4. ea' \in [here : {"live", "deleting", "gone"}, image : 1..MaxEdits, data : Data, phase : Phases]
    BY <2>2, <2>3
  <2>5. pushes' \in Seq(Phases \union {"Deleted"})
    BY <2>2, <2>3, AppendProperties
  <2>6. why' \subseteq Reasons
    BY <2>2 DEF Reasons
  <2> QED
    BY <1>6, <1>n, <2>1, <2>4, <2>5, <2>6 DEF Tell, Tells, cluster
<1>7. ASSUME NEW d \in Deploys, ReadDeployment(d)
      PROVE  TypeOK'
  <2>1. thread' \in [Deploys -> Threads]
    BY <1>t, <1>7, ThreadTypes DEF ReadDeployment, Phases, Places
  <2> QED
    BY <1>7, <1>n, <2>1 DEF ReadDeployment, cluster, peer
<1>8. ASSUME NEW d \in Deploys, ApplyConfigs(d)
      PROVE  TypeOK'
  <2>1. thread' \in [Deploys -> Threads]
    BY <1>t, <1>8, ThreadTypes DEF ApplyConfigs, Phases, Places
  <2>2. ASSUME NEW some PROVE Applied(thread[d].spec.data, some) \in Data
    BY <1>t DEF Applied, Data, Threads, Specs
  <2>3. live' \in Data
    BY <1>8, <2>2 DEF ApplyConfigs
  <2> QED
    BY <1>8, <1>n, <2>1, <2>3 DEF ApplyConfigs, peer
<1>9. ASSUME NEW d \in Deploys, Prepare(d) \/ PutService(d) \/ Poll(d)
      PROVE  TypeOK'
  <2>1. thread' \in [Deploys -> Threads]
    BY <1>t, <1>9, ThreadTypes DEF Prepare, PutService, Poll, Phases, Places
  <2> QED
    BY <1>9, <1>n, <2>1 DEF Prepare, PutService, Poll, cluster, peer
<1>10. ASSUME NEW d \in Deploys, PutDeployment(d)
       PROVE  TypeOK'
  <2>1. thread' \in [Deploys -> Threads]
    BY <1>t, <1>10, ThreadTypes DEF PutDeployment, Phases, Places
  <2>2. deployment' \in 0..MaxEdits
    BY <1>10, <1>t, ExecutorAssumption DEF PutDeployment, Threads, Specs
  <2> QED
    BY <1>10, <1>n, <2>1, <2>2 DEF PutDeployment, peer
<1>11. ASSUME NEW d \in Deploys, Watch(d)
       PROVE  TypeOK'
  <2>1. thread' \in [Deploys -> Threads]
    BY <1>t, <1>11, ThreadTypes DEF Watch, Places
  <2> QED
    BY <1>11, <1>n, <2>1 DEF Watch, cluster, peer
<1>12. ASSUME NEW d \in Deploys, Pop(d)
       PROVE  TypeOK'
  <2>1. thread' \in [Deploys -> Threads]
    BY <1>t, <1>12, ThreadTypes DEF Pop
  <2> QED
    BY <1>12, <1>n, <2>1 DEF Pop, cluster, peer, Reasons
<1>13. ASSUME NEW p \in Patches, PatchLive(p)
       PROVE  TypeOK'
  <2>1. edits + 1 \in 1..MaxEdits
    BY <1>13, ExecutorAssumption DEF PatchLive
  <2>2. PICK v \in Volumes :
          /\ live' = [live EXCEPT ![v] = edits + 1]
          /\ patch' = [patch EXCEPT ![p].at = "written", ![p].vol = v, ![p].data = edits + 1]
    BY <1>13 DEF PatchLive
  <2>3. edits + 1 \in 0..MaxEdits
    BY <2>1
  <2>4. live' \in Data
    BY <2>2, <2>3 DEF Data
  <2>5. patch' \in [Patches -> [at : {"idle", "written", "read"}, vol : Volumes \union {"none"},
                               data : 0..MaxEdits, list : Data]]
    <3>1. patch' = [patch EXCEPT ![p] = [@ EXCEPT !.at = "written", !.vol = v, !.data = edits + 1]]
      BY <2>2
    <3>2. [patch[p] EXCEPT !.at = "written", !.vol = v, !.data = edits + 1]
            \in [at : {"idle", "written", "read"}, vol : Volumes \union {"none"},
                 data : 0..MaxEdits, list : Data]
      BY <2>3
    <3> QED
      BY <3>1, <3>2
  <2> QED
    BY <1>13, <2>1, <2>4, <2>5 DEF PatchLive, threads, peer
<1>14. ASSUME NEW p \in Patches, PatchRead(p)
       PROVE  TypeOK'
  <2>1. NoPatch \in [at : {"idle", "written", "read"}, vol : Volumes \union {"none"},
                     data : 0..MaxEdits, list : Data]
    BY NoThreadType, ExecutorAssumption DEF NoPatch
  <2> QED
    BY <1>14, <2>1, ZenonT(60) DEF PatchRead, threads, cluster, peer
<1>15. ASSUME NEW p \in Patches, PatchWrite(p)
       PROVE  TypeOK'
  <2>1. NoPatch \in [at : {"idle", "written", "read"}, vol : Volumes \union {"none"},
                     data : 0..MaxEdits, list : Data]
    BY NoThreadType, ExecutorAssumption DEF NoPatch
  <2>2. Merged(p) \in Data
    BY DEF Merged, Data
  <2> QED
    BY <1>15, <2>1, <2>2 DEF PatchWrite, threads, cluster, peer, Reasons
<1>16. CASE HandleStatus
  <2>1. PICK i \in 1..Len(pushes) :
          /\ raPhase' \in {raPhase, pushes[i]}
          /\ pushes' = Without(pushes, i)
          /\ why' \subseteq why \union {"reordered", "unwritten"}
          /\ UNCHANGED <<ea, seen, edits, threads, cluster, patch>>
    BY <1>16 DEF HandleStatus
  <2>2. raPhase' \in Phases \union {"Deleted"}
    BY <2>1, ElementOfSeq
  <2>3. pushes' \in Seq(Phases \union {"Deleted"})
    BY <2>1, WithoutType
  <2> QED
    BY <2>1, <2>2, <2>3 DEF threads, cluster, Reasons
<1>17. CASE LosePush
  <2>1. PICK i \in 1..Len(pushes) :
          /\ pushes' = Without(pushes, i)
          /\ why' = why \union {"lost-push"}
          /\ UNCHANGED <<ea, seen, edits, threads, cluster, patch, raPhase>>
    BY <1>17 DEF LosePush
  <2>2. pushes' \in Seq(Phases \union {"Deleted"})
    BY <2>1, WithoutType
  <2> QED
    BY <2>1, <2>2 DEF threads, cluster, Reasons
<1>18. CASE Restart
  <2>1. thread' \in [Deploys -> Threads]
    BY <1>18, NoThreadType DEF Restart
  <2>2. NoPatch \in [at : {"idle", "written", "read"}, vol : Volumes \union {"none"},
                     data : 0..MaxEdits, list : Data]
    BY NoThreadType, ExecutorAssumption DEF NoPatch
  <2>3. pushes' \in Seq(Phases \union {"Deleted"})
    BY <1>18, EmptySeq DEF Restart
  <2> QED
    BY <1>18, <1>n, <2>1, <2>2, <2>3 DEF Restart, cluster, Reasons
<1>19. CASE UNCHANGED vars
  BY <1>19 DEF vars, threads, cluster, peer
<1> QED
  BY <1>1, <1>2, <1>3, <1>4, <1>5, <1>6, <1>7, <1>8, <1>9, <1>10, <1>11, <1>12, <1>13, <1>14,
     <1>15, <1>16, <1>17, <1>18, <1>19 DEF Next

\* A thread that is told to stop no longer counts, and nothing else disturbs the
\* claim of the listed one.
LEMMA WatcherIsListedStep ==
  ASSUME TypeOK, WatcherIsListed, [Next]_vars
  PROVE  WatcherIsListed'
<1>t. thread \in [Deploys -> Threads]
  BY DEF TypeOK, Threads
<1>n. "none" \notin Deploys
  BY ExecutorAssumption
<1> USE DEF WatcherIsListed, Working
<1>1. ASSUME UNCHANGED <<thread, stopEvent>>, why \subseteq why'
      PROVE  WatcherIsListed'
  BY <1>1
<1>2. ASSUME NEW d \in Deploys, UNCHANGED stopEvent, why \subseteq why', Working(d),
             \/ Ends(d)
             \/ \E next \in Places : Moves(d, next)
             \/ \E phase \in Phases, next \in Places : Report(d, phase, next)
      PROVE  WatcherIsListed'
  <2>1. CASE Ends(d)
    BY <1>t, <1>2, <2>1 DEF Ends, NoThread
  <2>2. ASSUME NEW next \in Places, Moves(d, next)
        PROVE  WatcherIsListed'
    BY <1>t, <1>2, <2>2 DEF Moves, Threads
  <2>3. ASSUME NEW phase \in Phases, NEW next \in Places, Report(d, phase, next)
        PROVE  WatcherIsListed'
    BY <1>t, <1>2, <2>3, ZenonT(60) DEF Report, Threads
  <2> QED
    BY <1>2, <2>1, <2>2, <2>3
<1>3. CASE OnDeleted
  <2>1. thread' = Cancel(stopEvent) /\ why \subseteq why'
    BY <1>3 DEF OnDeleted, Bury
  <2> QED
    BY <1>t, <2>1, CancelType
<1>4. ASSUME NEW d \in Deploys, StartDeploy(d)
      PROVE  WatcherIsListed'
  <2>1. /\ thread' = [Cancel(stopEvent) EXCEPT ![d] = [NoThread EXCEPT !.at = "check", !.spec = SpecOf(ea)]]
        /\ stopEvent' = d /\ why \subseteq why'
    BY <1>4 DEF StartDeploy, Begin
  <2>2. ASSUME NEW e \in Deploys, e # d, Working(e)', ~thread'[e].cancelled, "stolen" \notin why
        PROVE  FALSE
    <3>1. thread'[e] = Cancel(stopEvent)[e]
      BY <1>t, <2>1, <2>2, CancelType
    <3>2. Working(e) /\ ~thread[e].cancelled /\ e # stopEvent
      <4>1. /\ Cancel(stopEvent)[e].at = thread[e].at
            /\ Cancel(stopEvent)[e].cancelled = (thread[e].cancelled \/ (e = stopEvent /\ Working(stopEvent)))
        BY <1>t, CancelType
      <4>2. Working(e)
        BY <2>2, <3>1, <4>1
      <4> QED
        BY <2>2, <3>1, <4>1, <4>2
    <3> QED
      BY <2>2, <3>2
  <2> QED
    BY <2>1, <2>2
<1>5. ASSUME NEW d \in Deploys, Pop(d)
      PROVE  WatcherIsListed'
  <2>1. /\ thread' = [thread EXCEPT ![d] = NoThread] /\ stopEvent' = "none" /\ why \subseteq why'
        /\ stopEvent \in Deploys \ {d} /\ Working(stopEvent) => "stolen" \in why'
    BY <1>5 DEF Pop, Ends
  <2> QED
    BY <1>t, <2>1 DEF NoThread
<1>6. ASSUME NEW d \in Deploys, Tell(d)
      PROVE  WatcherIsListed'
  <2>1. UNCHANGED stopEvent /\ why \subseteq why'
    BY <1>6 DEF Tell, Tells
  <2>2. CASE Ends(d)
    BY <1>t, <2>1, <2>2 DEF Ends, NoThread
  <2>3. CASE thread' = [thread EXCEPT ![d].owes = FALSE]
    BY <1>t, <2>1, <2>3 DEF Threads
  <2> QED
    BY <1>6, <2>2, <2>3 DEF Tell, Tells
<1>7. ASSUME NEW d \in Deploys,
             \/ ReadDeployment(d) \/ ApplyConfigs(d) \/ Prepare(d)
             \/ PutDeployment(d) \/ PutService(d) \/ Watch(d) \/ Poll(d)
      PROVE  WatcherIsListed'
  <2>1. UNCHANGED <<stopEvent, why>> /\ Working(d)
    BY <1>7 DEF ReadDeployment, ApplyConfigs, Prepare, PutDeployment, PutService, Watch, Poll, Runs
  <2>2. \/ Ends(d)
        \/ \E next \in Places : Moves(d, next)
        \/ \E phase \in Phases, next \in Places : Report(d, phase, next)
    BY <1>7 DEF ReadDeployment, ApplyConfigs, Prepare, PutDeployment, PutService, Watch, Poll,
                Places, Phases
  <2> QED
    BY <1>2, <2>1, <2>2
<1>8. CASE Restart
  BY <1>8 DEF Restart, NoThread
<1>9. CASE \/ SpecUpdate \/ DeleteEA \/ Collect \/ HandleStatus \/ LosePush \/ UNCHANGED vars
           \/ \E p \in Patches : PatchLive(p) \/ PatchRead(p) \/ PatchWrite(p)
  <2>1. UNCHANGED <<thread, stopEvent>> /\ why \subseteq why'
    BY <1>9 DEF SpecUpdate, DeleteEA, Collect, HandleStatus, LosePush, PatchLive, PatchRead, PatchWrite,
                vars, threads
  <2> QED
    BY <1>1, <2>1
<1> QED
  BY <1>3, <1>4, <1>5, <1>6, <1>7, <1>8, <1>9 DEF Next

Uncancelled(d) == Working(d) /\ ~thread[d].cancelled

\* What a thread's step does to it, field by field, and that it does nothing else.
LEMMA StepFacts ==
  ASSUME thread \in [Deploys -> Threads], NEW d \in Deploys
  PROVE  /\ \A phase, next : Report(d, phase, next) =>
              /\ thread'[d].at = next /\ thread'[d].says = phase /\ thread'[d].owes
              /\ thread'[d].spec = thread[d].spec /\ thread'[d].cancelled = thread[d].cancelled
              /\ \A e \in Deploys : e # d => thread'[e] = thread[e]
         /\ \A next : Moves(d, next) =>
              /\ thread'[d].at = next /\ thread'[d].says = thread[d].says
              /\ thread'[d].owes = thread[d].owes /\ thread'[d].spec = thread[d].spec
              /\ thread'[d].cancelled = thread[d].cancelled
              /\ \A e \in Deploys : e # d => thread'[e] = thread[e]
         /\ Ends(d) => thread'[d].at = "idle" /\ \A e \in Deploys : e # d => thread'[e] = thread[e]
<1>1. ASSUME NEW phase, NEW next, Report(d, phase, next)
      PROVE  /\ thread'[d].at = next /\ thread'[d].says = phase /\ thread'[d].owes
             /\ thread'[d].spec = thread[d].spec /\ thread'[d].cancelled = thread[d].cancelled
             /\ \A e \in Deploys : e # d => thread'[e] = thread[e]
  BY <1>1 DEF Report, Threads
<1>2. ASSUME NEW next, Moves(d, next)
      PROVE  /\ thread'[d].at = next /\ thread'[d].says = thread[d].says
             /\ thread'[d].owes = thread[d].owes /\ thread'[d].spec = thread[d].spec
             /\ thread'[d].cancelled = thread[d].cancelled
             /\ \A e \in Deploys : e # d => thread'[e] = thread[e]
  BY <1>2 DEF Moves, Threads
<1>3. ASSUME Ends(d)
      PROVE  thread'[d].at = "idle" /\ \A e \in Deploys : e # d => thread'[e] = thread[e]
  BY <1>3 DEF Ends, NoThread
<1> QED
  BY <1>1, <1>2, <1>3

\* A thread that has told is over, or goes on as it was.
LEMMA TellFacts ==
  ASSUME thread \in [Deploys -> Threads], NEW d \in Deploys, Tell(d)
  PROVE  /\ thread[d].owes
         /\ \A e \in Deploys : e # d => thread'[e] = thread[e]
         /\ \/ thread[d].at = "over" /\ thread'[d].at = "idle"
            \/ /\ thread[d].at # "over" /\ thread'[d].at = thread[d].at /\ ~thread'[d].owes
               /\ thread'[d].spec = thread[d].spec /\ thread'[d].cancelled = thread[d].cancelled
<1>1. CASE thread[d].at = "over"
  BY <1>1, StepFacts DEF Tell, Tells
<1>2. CASE thread[d].at # "over"
  <2>1. thread[d].owes /\ thread' = [thread EXCEPT ![d].owes = FALSE]
    BY <1>2 DEF Tell, Tells
  <2> QED
    BY <1>2, <2>1 DEF Threads
<1> QED
  BY <1>1, <1>2

\* The thread that starts, and the one it cancels.
LEMMA StartFacts ==
  ASSUME thread \in [Deploys -> Threads], NEW d \in Deploys, StartDeploy(d)
  PROVE  /\ thread'[d].at = "check" /\ thread'[d].spec = SpecOf(ea)
         /\ ~thread'[d].owes /\ ~thread'[d].cancelled
         /\ stopEvent' = d /\ seen' = SpecOf(ea) /\ ea.here = "live"
         /\ \A e \in Deploys : e # d =>
              /\ thread'[e].at = thread[e].at /\ thread'[e].owes = thread[e].owes
              /\ thread'[e].cancelled = (thread[e].cancelled \/ (e = stopEvent /\ Working(e)))
<1> DEFINE new == [NoThread EXCEPT !.at = "check", !.spec = SpecOf(ea)]
<1>1. thread' = [Cancel(stopEvent) EXCEPT ![d] = new]
  BY DEF StartDeploy, Begin
<1>2. new.at = "check" /\ new.spec = SpecOf(ea) /\ ~new.owes /\ ~new.cancelled
  BY DEF NoThread
<1> HIDE DEF new
<1>3. Cancel(stopEvent) \in [Deploys -> Threads]
  BY CancelType
<1>4. \A e \in Deploys : Cancel(stopEvent)[e].owes = thread[e].owes
  BY DEF Cancel, Threads
<1>5. \A e \in Deploys : e # d => thread'[e] = Cancel(stopEvent)[e]
  BY <1>1, <1>3
<1>6. thread'[d] = new
  BY <1>1, <1>3
<1>7. \A e \in Deploys : e # d =>
        /\ thread'[e].at = thread[e].at /\ thread'[e].owes = thread[e].owes
        /\ thread'[e].cancelled = (thread[e].cancelled \/ (e = stopEvent /\ Working(e)))
  BY <1>4, <1>5, CancelType
<1> QED
  BY <1>2, <1>6, <1>7 DEF StartDeploy, Begin

\* The delete handler cancels the listed thread.
LEMMA BuryFacts ==
  ASSUME thread \in [Deploys -> Threads], OnDeleted
  PROVE  /\ ea'.here = "gone"
         /\ \A e \in Deploys :
              /\ thread'[e].at = thread[e].at /\ thread'[e].owes = thread[e].owes
              /\ thread'[e].cancelled = (thread[e].cancelled \/ (e = stopEvent /\ Working(e)))
<1>1. thread' = Cancel(stopEvent) /\ ea' = [ea EXCEPT !.here = "gone"]
  BY DEF OnDeleted, Bury
<1>2. \A e \in Deploys : Cancel(stopEvent)[e].owes = thread[e].owes
  BY DEF Cancel, Threads
<1>3. \A e \in Deploys :
        /\ thread'[e].at = thread[e].at
        /\ thread'[e].cancelled = (thread[e].cancelled \/ (e = stopEvent /\ Working(e)))
  BY <1>1, CancelType
<1>4. ea'.here = "gone"
  BY <1>1
<1> QED
  BY <1>1, <1>2, <1>3, <1>4

\* The reasons are never taken back.
LEMMA ReasonsStay ==
  ASSUME [Next]_vars
  PROVE  why \subseteq why'
BY DEF Next, vars, SpecUpdate, DeleteEA, OnDeleted, Bury, Collect, StartDeploy, Begin, Tell, ReadDeployment,
       ApplyConfigs, Prepare, PutDeployment, PutService, Watch, Poll, Pop, PatchLive, PatchRead, PatchWrite,
       HandleStatus, LosePush, Restart

\* Unless deploys overlapped, a thread that has been told to stop writes nothing
\* more, and the one that has not is listed; none is left once the CR is gone.
OneActive ==
  "overlap" \notin why =>
    /\ \A d \in Deploys : Working(d) => IF thread[d].cancelled THEN Waiting(d) ELSE stopEvent = d
    /\ \A d \in Deploys : thread[d].owes => Working(d)
    /\ ea.here = "gone" => \A d \in Deploys : ~Uncancelled(d)

\* The step of a thread that has something to write.
Writes(d) ==
  \/ Tell(d) \/ ReadDeployment(d) \/ ApplyConfigs(d) \/ Prepare(d) \/ PutDeployment(d)
  \/ PutService(d) \/ Poll(d) \/ Pop(d) \/ (Watch(d) /\ ~thread[d].cancelled)

\* A thread that writes is the one active thread, and stays so until it ends.
LEMMA WriterFacts ==
  ASSUME TypeOK, OneActive, "overlap" \notin why, NEW d \in Deploys, Writes(d)
  PROVE  /\ Uncancelled(d) /\ stopEvent = d /\ ea.here # "gone"
         /\ \A e \in Deploys : e # d => ~Uncancelled(e) /\ thread'[e] = thread[e]
         /\ Working(d)' => Uncancelled(d)' /\ thread'[d].spec = thread[d].spec
<1>t. thread \in [Deploys -> Threads]
  BY DEF TypeOK, Threads
<1>1. Working(d) /\ (Waiting(d) => Watch(d) /\ ~thread[d].cancelled)
  <2>1. CASE Tell(d)
    BY <2>1, <1>t, TellFacts DEF OneActive, Waiting
  <2> QED
    BY <2>1 DEF Writes, ReadDeployment, ApplyConfigs, Prepare, PutDeployment, PutService, Poll, Pop,
                Watch, Runs, Working, Waiting
<1>2. Uncancelled(d) /\ stopEvent = d /\ ea.here # "gone"
  BY <1>1 DEF OneActive, Uncancelled
<1>3. \A e \in Deploys : e # d => ~Uncancelled(e)
  BY <1>2 DEF OneActive, Uncancelled
<1>4. /\ \A e \in Deploys : e # d => thread'[e] = thread[e]
      /\ thread'[d].at = "idle" \/ (thread'[d].cancelled = thread[d].cancelled /\ thread'[d].spec = thread[d].spec)
  <2>1. CASE Tell(d)
    BY <1>t, <2>1, TellFacts
  <2>2. CASE Ends(d) \/ (\E next : Moves(d, next)) \/ (\E phase, next : Report(d, phase, next))
    BY <1>t, <2>2, StepFacts
  <2> QED
    BY <2>1, <2>2 DEF Writes, ReadDeployment, ApplyConfigs, Prepare, PutDeployment, PutService, Poll, Pop, Watch
<1> QED
  BY <1>2, <1>3, <1>4 DEF Uncancelled, Working

\* A step is that of the one thread that writes, or leaves the threads at work alone.
LEMMA ThreadsStay ==
  ASSUME TypeOK, [Next]_vars
  PROVE  \/ \E d \in Deploys : Writes(d) \/ StartDeploy(d) \/ (Watch(d) /\ thread[d].cancelled)
         \/ OnDeleted \/ Restart
         \/ /\ thread' = thread /\ stopEvent' = stopEvent
            /\ ea'.here = "gone" <=> ea.here = "gone"
            /\ \/ SpecUpdate \/ DeleteEA \/ Collect \/ HandleStatus \/ LosePush \/ UNCHANGED vars
               \/ \E p \in Patches : PatchLive(p) \/ PatchRead(p) \/ PatchWrite(p)
<1>1. CASE \/ SpecUpdate \/ DeleteEA \/ Collect \/ HandleStatus \/ LosePush \/ UNCHANGED vars
           \/ \E p \in Patches : PatchLive(p) \/ PatchRead(p) \/ PatchWrite(p)
  <2>1. thread' = thread /\ stopEvent' = stopEvent
    BY <1>1 DEF SpecUpdate, DeleteEA, Collect, HandleStatus, LosePush, PatchLive, PatchRead, PatchWrite,
                vars, threads
  <2>2. ea'.here = "gone" <=> ea.here = "gone"
    BY <1>1 DEF SpecUpdate, DeleteEA, Collect, HandleStatus, LosePush, PatchLive, PatchRead, PatchWrite,
                vars, TypeOK
  <2> QED
    BY <1>1, <2>1, <2>2
<1>2. ASSUME NEW d \in Deploys,
             \/ StartDeploy(d) \/ Tell(d)
             \/ ReadDeployment(d) \/ ApplyConfigs(d)
             \/ Prepare(d) \/ PutDeployment(d) \/ PutService(d) \/ Watch(d) \/ Poll(d) \/ Pop(d)
      PROVE  Writes(d) \/ StartDeploy(d) \/ (Watch(d) /\ thread[d].cancelled)
  BY <1>2 DEF Writes
<1> QED
  BY <1>1, <1>2 DEF Next

\* Whoever starts or goes stops the one before.
LEMMA OneActiveStep ==
  ASSUME TypeOK, OneActive, [Next]_vars
  PROVE  OneActive'
<1> SUFFICES ASSUME "overlap" \notin why'
             PROVE  /\ \A d \in Deploys : Working(d)' => IF thread'[d].cancelled THEN Waiting(d)'
                                                         ELSE stopEvent' = d
                    /\ \A d \in Deploys : thread'[d].owes => Working(d)'
                    /\ ea'.here = "gone" => \A d \in Deploys : ~Uncancelled(d)'
  BY DEF OneActive
<1>t. thread \in [Deploys -> Threads]
  BY DEF TypeOK, Threads
<1>w. "overlap" \notin why
  BY ReasonsStay
<1>0. /\ \A d \in Deploys : Working(d) => IF thread[d].cancelled THEN Waiting(d) ELSE stopEvent = d
      /\ \A d \in Deploys : thread[d].owes => Working(d)
      /\ ea.here = "gone" => \A d \in Deploys : ~Uncancelled(d)
  BY <1>w DEF OneActive
<1>1. ASSUME NEW d \in Deploys, Writes(d)
      PROVE  /\ \A e \in Deploys : Working(e)' => IF thread'[e].cancelled THEN Waiting(e)' ELSE stopEvent' = e
             /\ \A e \in Deploys : thread'[e].owes => Working(e)'
             /\ ea'.here = "gone" => \A e \in Deploys : ~Uncancelled(e)'
  <2>1. /\ Uncancelled(d) /\ stopEvent = d /\ ea.here # "gone"
        /\ \A e \in Deploys : e # d => ~Uncancelled(e) /\ thread'[e] = thread[e]
        /\ Working(d)' => Uncancelled(d)'
    BY <1>1, <1>w, WriterFacts
  <2>2. ea'.here # "gone"
    BY <1>1, <2>1 DEF Writes, Tell, ReadDeployment, ApplyConfigs, Prepare, PutDeployment, PutService,
                      Poll, Pop, Watch, TypeOK
  <2>3. Working(d)' => stopEvent' = d
    <3>1. CASE Pop(d)
      <4>1. thread'[d].at = "idle"
        BY <1>t, <3>1, StepFacts DEF Pop
      <4> QED
        BY <4>1 DEF Working
    <3>2. CASE ~Pop(d)
      BY <1>1, <2>1, <3>2 DEF Writes, Tell, Tells, ReadDeployment, ApplyConfigs, Prepare, PutDeployment,
                              PutService, Poll, Watch
    <3> QED
      BY <3>1, <3>2
  <2>4. thread'[d].owes => Working(d)'
    <3>1. CASE Tell(d)
      <4>1. Working(d)
        BY <2>1 DEF Uncancelled
      <4>2. CASE thread[d].at = "over"
        <5>1. thread' = [thread EXCEPT ![d] = NoThread]
          BY <3>1, <4>2 DEF Tell, Tells, Ends
        <5> QED
          BY <1>t, <5>1 DEF NoThread
      <4>3. CASE thread[d].at # "over"
        BY <1>t, <3>1, <4>1, <4>3, TellFacts DEF Working
      <4> QED
        BY <4>2, <4>3
    <3>2. CASE Ends(d)
      BY <1>t, <3>2 DEF Ends, NoThread
    <3>3. CASE \/ \E next \in Places \ {"idle"} : Moves(d, next)
               \/ \E phase \in Phases, next \in Places \ {"idle"} : Report(d, phase, next)
      BY <1>t, <3>3, StepFacts DEF Working
    <3> QED
      BY <1>1, <3>1, <3>2, <3>3 DEF Writes, ReadDeployment, ApplyConfigs, Prepare, PutDeployment,
                                    PutService, Poll, Pop, Watch, Places, Phases
  <2>5. ASSUME NEW e \in Deploys, e # d
        PROVE  /\ Working(e)' => IF thread'[e].cancelled THEN Waiting(e)' ELSE stopEvent' = e
               /\ thread'[e].owes => Working(e)'
    BY <1>0, <2>1, <2>5 DEF Uncancelled, Working, Waiting
  <2> QED
    BY <2>1, <2>2, <2>3, <2>4, <2>5 DEF Uncancelled
<1>2. ASSUME NEW d \in Deploys, StartDeploy(d)
      PROVE  /\ \A e \in Deploys : Working(e)' => IF thread'[e].cancelled THEN Waiting(e)' ELSE stopEvent' = e
             /\ \A e \in Deploys : thread'[e].owes => Working(e)'
             /\ ea'.here = "gone" => \A e \in Deploys : ~Uncancelled(e)'
  <2>1. \A e \in Deploys : Working(e) => Waiting(e)
    BY <1>2 DEF StartDeploy, Begin, Overlap
  <2>2. ea' = ea
    BY <1>2 DEF StartDeploy, Begin
  <2>3. ASSUME NEW e \in Deploys, e # d
        PROVE  /\ Working(e)' => thread'[e].cancelled /\ Waiting(e)'
               /\ thread'[e].owes => Working(e)'
    BY <1>t, <1>0, <1>2, <2>1, <2>3, StartFacts DEF Working, Waiting
  <2>4. thread'[d].at = "check" /\ ~thread'[d].owes /\ ~thread'[d].cancelled /\ stopEvent' = d /\ ea.here = "live"
    BY <1>t, <1>2, StartFacts
  <2> QED
    BY <2>2, <2>3, <2>4
<1>3. CASE OnDeleted
  <2>1. \A e \in Deploys : Working(e) => Waiting(e)
    BY <1>3 DEF OnDeleted, Bury, Overlap
  <2>2. ASSUME NEW e \in Deploys
        PROVE  /\ Working(e)' => thread'[e].cancelled /\ Waiting(e)'
               /\ thread'[e].owes => Working(e)'
    BY <1>t, <1>0, <1>3, <2>1, BuryFacts DEF Working, Waiting
  <2> QED
    BY <2>2 DEF Uncancelled
<1>4. CASE Restart
  BY <1>4 DEF Restart, NoThread, Working, Uncancelled
<1>5. ASSUME NEW d \in Deploys, Watch(d), thread[d].cancelled
      PROVE  /\ \A e \in Deploys : Working(e)' => IF thread'[e].cancelled THEN Waiting(e)' ELSE stopEvent' = e
             /\ \A e \in Deploys : thread'[e].owes => Working(e)'
             /\ ea'.here = "gone" => \A e \in Deploys : ~Uncancelled(e)'
  <2>1. Ends(d) /\ ea' = ea /\ stopEvent' = stopEvent
    BY <1>5 DEF Watch
  <2>2. /\ thread'[d].at = "idle" /\ ~thread'[d].owes
        /\ \A e \in Deploys : e # d => thread'[e] = thread[e]
    BY <1>t, <2>1 DEF Ends, NoThread
  <2> QED
    BY <1>0, <2>1, <2>2 DEF Working, Waiting, Uncancelled
<1>6. CASE thread' = thread /\ stopEvent' = stopEvent /\ (ea'.here = "gone" <=> ea.here = "gone")
  BY <1>0, <1>6 DEF Working, Waiting, Uncancelled
<1> QED
  BY <1>1, <1>2, <1>3, <1>4, <1>5, <1>6, ThreadsStay

Undisturbed == why \cap {"overlap", "crash", "api"} = {}

\* A deploy of the spec that kopf has handled last: Ready is the last it says, what
\* was said of the spec before is corrected first, and the Deployment is its own
\* once it has put it there.
OnItsWay(d) ==
  /\ thread[d].spec = seen
  /\ thread[d].owes /\ thread[d].at # "pop" => thread[d].says # "Ready"
  /\ thread[d].at \notin {"check", "pop"} /\ ~(thread[d].at = "configs" /\ thread[d].owes)
       => ea.phase # "Ready"
  /\ thread[d].at \in {"service", "watch", "poll", "pop"} => deployment = seen.image

RunsItsSpec ==
  Undisturbed /\ ea.here # "gone" =>
    /\ \A d \in Deploys : Uncancelled(d) => OnItsWay(d)
    /\ (\A d \in Deploys : ~Uncancelled(d)) /\ ea.phase = "Ready" => deployment = seen.image

\* The steps of the thread that writes.
LEMMA RunsItsSpecByWriter ==
  ASSUME TypeOK, OneActive, RunsItsSpec, Undisturbed, Undisturbed', NEW d \in Deploys, Writes(d)
  PROVE  /\ Uncancelled(d)' => OnItsWay(d)'
         /\ ~Working(d)' /\ ea'.phase = "Ready" => deployment' = seen'.image
         /\ seen' = seen
<1>t. /\ thread \in [Deploys -> Threads] /\ thread[d] \in Threads
      /\ ea \in [here : {"live", "deleting", "gone"}, image : 1..MaxEdits, data : Data, phase : Phases]
  BY DEF TypeOK, Threads
<1>w. "overlap" \notin why /\ "api" \notin why'
  BY DEF Undisturbed
<1>1. /\ Uncancelled(d) /\ ea.here # "gone" /\ Working(d)
      /\ Working(d)' => thread'[d].spec = thread[d].spec
  BY <1>w, WriterFacts DEF Uncancelled
<1>2. OnItsWay(d)
  BY <1>1 DEF RunsItsSpec
<1>s. seen' = seen
  BY DEF Writes, Tell, Tells, ReadDeployment, ApplyConfigs, Prepare, PutDeployment, PutService, Poll, Pop, Watch
<1>3. CASE Tell(d)
  <2>1. ea'.phase = thread[d].says /\ deployment' = deployment
    BY <1>t, <1>w, <1>1, <1>3 DEF Tell, Tells, cluster
  <2>2. /\ thread[d].owes
        /\ \/ thread[d].at = "over" /\ thread'[d].at = "idle"
           \/ /\ thread[d].at # "over" /\ thread'[d].at = thread[d].at /\ ~thread'[d].owes
              /\ thread'[d].spec = thread[d].spec
    BY <1>t, <1>3, TellFacts
  <2>3. CASE thread[d].at = "over"
    <3>1. ea'.phase # "Ready" /\ ~Working(d)'
      BY <1>2, <2>1, <2>2, <2>3 DEF OnItsWay, Working
    <3> QED
      BY <1>s, <3>1 DEF Uncancelled
  <2>4. CASE thread[d].at # "over"
    <3>1. Working(d)'
      BY <1>1, <2>2, <2>4 DEF Working
    <3>2. OnItsWay(d)'
      BY <1>2, <1>s, <2>1, <2>2, <2>4 DEF OnItsWay
    <3> QED
      BY <1>s, <3>1, <3>2
  <2> QED
    BY <2>3, <2>4
<1>4. CASE ReadDeployment(d)
  <2>1. PICK phase \in {"Creating", "Updating"} : Report(d, phase, "configs")
    BY <1>4 DEF ReadDeployment
  <2>2. /\ thread'[d].at = "configs" /\ thread'[d].says = phase /\ thread'[d].owes
        /\ thread'[d].spec = thread[d].spec
    BY <1>t, <2>1, StepFacts
  <2> QED
    BY <1>2, <1>s, <2>2 DEF OnItsWay, Working
<1>5. CASE ApplyConfigs(d) \/ Prepare(d)
  <2>1. ea' = ea /\ deployment' = deployment /\ thread[d].at \in {"configs", "prepare"} /\ ~thread[d].owes
    BY <1>5 DEF ApplyConfigs, Prepare, Runs, cluster
  <2>2. CASE \E next \in {"prepare", "deploy"} : Moves(d, next)
    <3>1. /\ thread'[d].at \in {"prepare", "deploy"} /\ ~thread'[d].owes
          /\ thread'[d].spec = thread[d].spec
      BY <1>t, <2>1, <2>2, StepFacts
    <3> QED
      BY <1>2, <1>s, <2>1, <3>1 DEF OnItsWay, Working
  <2>3. CASE Report(d, "Failed", "over")
    <3>1. thread'[d].at = "over" /\ thread'[d].says = "Failed" /\ thread'[d].spec = thread[d].spec
      BY <1>t, <2>3, StepFacts
    <3> QED
      BY <1>2, <1>s, <2>1, <3>1 DEF OnItsWay, Working
  <2> QED
    BY <1>5, <2>2, <2>3 DEF ApplyConfigs, Prepare
<1>6. CASE PutDeployment(d)
  <2>1. ea' = ea /\ thread[d].at = "deploy" /\ ~thread[d].owes
    BY <1>6 DEF PutDeployment, Runs
  <2>p. ea.phase # "Ready"
    BY <1>2, <2>1 DEF OnItsWay
  <2>2. CASE deployment' = thread[d].spec.image /\ Moves(d, "service")
    <3>1. thread'[d].at = "service" /\ ~thread'[d].owes /\ thread'[d].spec = thread[d].spec
      BY <1>t, <2>1, <2>2, StepFacts
    <3> QED
      BY <1>2, <1>s, <2>1, <2>p, <2>2, <3>1 DEF OnItsWay, Working
  <2>3. CASE Report(d, "Failed", "over")
    <3>1. thread'[d].at = "over" /\ thread'[d].says = "Failed" /\ thread'[d].spec = thread[d].spec
      BY <1>t, <2>3, StepFacts
    <3> QED
      BY <1>2, <1>s, <2>1, <2>p, <3>1 DEF OnItsWay, Working
  <2>4. CASE Ends(d)
    <3>1. ~Working(d)'
      BY <1>t, <2>4, StepFacts DEF Working
    <3> QED
      BY <1>s, <2>1, <2>p, <3>1 DEF Uncancelled
  <2> QED
    BY <1>6, <2>2, <2>3, <2>4 DEF PutDeployment
<1>7. CASE PutService(d)
  <2>1. ea' = ea /\ deployment' = deployment /\ thread[d].at = "service" /\ ~thread[d].owes
    BY <1>7 DEF PutService, Runs, cluster
  <2>p. ea.phase # "Ready"
    BY <1>2, <2>1 DEF OnItsWay
  <2>2. ASSUME NEW phase \in {"Running", "Failed"}, NEW next \in {"watch", "over"}, Report(d, phase, next)
        PROVE  Working(d)' /\ OnItsWay(d)'
    <3>1. thread'[d].at = next /\ thread'[d].says = phase /\ thread'[d].spec = thread[d].spec
      BY <1>t, <2>2, StepFacts
    <3> QED
      BY <1>2, <1>s, <2>1, <2>p, <3>1 DEF OnItsWay, Working
  <2>3. CASE Ends(d)
    <3>1. ~Working(d)'
      BY <1>t, <2>3, StepFacts DEF Working
    <3> QED
      BY <1>s, <2>1, <2>p, <3>1 DEF Uncancelled
  <2> QED
    BY <1>7, <1>s, <2>2, <2>3 DEF PutService
<1>8. CASE Watch(d) \/ Poll(d)
  <2>1. ea' = ea /\ deployment' = deployment /\ thread[d].at \in {"watch", "poll"} /\ ~thread[d].owes
    BY <1>8 DEF Watch, Poll, Runs, cluster
  <2>2. ASSUME NEW next \in {"watch", "poll"}, Moves(d, next)
        PROVE  Working(d)' /\ OnItsWay(d)'
    <3>1. thread'[d].at = next /\ ~thread'[d].owes /\ thread'[d].spec = thread[d].spec
      BY <1>t, <2>1, <2>2, StepFacts
    <3> QED
      BY <1>2, <1>s, <2>1, <3>1 DEF OnItsWay, Working
  <2>3. ASSUME NEW phase, Report(d, phase, "pop")
        PROVE  Working(d)' /\ OnItsWay(d)'
    <3>1. thread'[d].at = "pop" /\ thread'[d].spec = thread[d].spec
      BY <1>t, <2>3, StepFacts
    <3> QED
      BY <1>2, <1>s, <2>1, <3>1 DEF OnItsWay, Working
  <2>4. ~thread[d].cancelled
    BY <1>1 DEF Uncancelled
  <2> QED
    BY <1>8, <1>s, <2>2, <2>3, <2>4 DEF Watch, Poll
<1>9. CASE Pop(d)
  <2>1. ea' = ea /\ deployment' = deployment /\ thread[d].at = "pop" /\ Ends(d)
    BY <1>9 DEF Pop, Runs, cluster
  <2>2. ~Working(d)'
    BY <1>t, <2>1, StepFacts DEF Working
  <2> QED
    BY <1>2, <1>s, <2>1, <2>2 DEF OnItsWay, Uncancelled
<1> QED
  BY <1>3, <1>4, <1>5, <1>6, <1>7, <1>8, <1>9 DEF Writes

\* While a deploy is at work nobody else changes what it has to do.
LEMMA RunsItsSpecStep ==
  ASSUME TypeOK, OneActive, OneActive', RunsItsSpec, [Next]_vars
  PROVE  RunsItsSpec'
<1> SUFFICES ASSUME Undisturbed', ea'.here # "gone"
             PROVE  /\ \A d \in Deploys : Uncancelled(d)' => OnItsWay(d)'
                    /\ (\A d \in Deploys : ~Uncancelled(d)') /\ ea'.phase = "Ready" => deployment' = seen'.image
  BY DEF RunsItsSpec
<1>t. thread \in [Deploys -> Threads]
  BY DEF TypeOK, Threads
<1>w. Undisturbed /\ "overlap" \notin why /\ "overlap" \notin why'
  BY ReasonsStay DEF Undisturbed
<1>1. ASSUME NEW d \in Deploys, Writes(d)
      PROVE  /\ \A e \in Deploys : Uncancelled(e)' => OnItsWay(e)'
             /\ (\A e \in Deploys : ~Uncancelled(e)') /\ ea'.phase = "Ready" => deployment' = seen'.image
  <2>1. /\ \A e \in Deploys : e # d => ~Uncancelled(e) /\ thread'[e] = thread[e]
        /\ Working(d)' => Uncancelled(d)'
    BY <1>1, <1>w, WriterFacts
  <2>2. \A e \in Deploys : e # d => ~Uncancelled(e)'
    BY <2>1 DEF Uncancelled, Working
  <2> QED
    BY <1>1, <1>w, <2>1, <2>2, RunsItsSpecByWriter
<1>2. ASSUME NEW d \in Deploys, StartDeploy(d)
      PROVE  /\ \A e \in Deploys : Uncancelled(e)' => OnItsWay(e)'
             /\ (\A e \in Deploys : ~Uncancelled(e)') /\ ea'.phase = "Ready" => deployment' = seen'.image
  <2>1. /\ thread'[d].at = "check" /\ thread'[d].spec = SpecOf(ea)
        /\ ~thread'[d].owes /\ ~thread'[d].cancelled /\ stopEvent' = d /\ seen' = SpecOf(ea)
    BY <1>t, <1>2, StartFacts
  <2>2. \A e \in Deploys : Uncancelled(e)' => e = d
    BY <1>w, <2>1 DEF OneActive, Uncancelled
  <2>3. Uncancelled(d)' /\ OnItsWay(d)'
    BY <2>1 DEF Uncancelled, Working, OnItsWay
  <2> QED
    BY <2>2, <2>3
<1>3. ~OnDeleted
  BY <1>t, BuryFacts
<1>4. CASE Restart
  <2>1. \A d \in Deploys : ~Working(d) /\ ~Working(d)'
    BY <1>4 DEF Restart, Undisturbed, Working, NoThread
  <2>2. ea' = ea /\ seen' = seen /\ deployment' = deployment
    BY <1>4 DEF Restart, cluster
  <2> QED
    BY <1>w, <2>1, <2>2 DEF RunsItsSpec, Uncancelled
<1>5. ASSUME NEW d \in Deploys, Watch(d), thread[d].cancelled
      PROVE  /\ \A e \in Deploys : Uncancelled(e)' => OnItsWay(e)'
             /\ (\A e \in Deploys : ~Uncancelled(e)') /\ ea'.phase = "Ready" => deployment' = seen'.image
  <2>1. Ends(d) /\ ea' = ea /\ seen' = seen /\ deployment' = deployment
    BY <1>5 DEF Watch, cluster
  <2>2. thread'[d].at = "idle" /\ \A e \in Deploys : e # d => thread'[e] = thread[e]
    BY <1>t, <2>1, StepFacts
  <2>3. \A e \in Deploys : (Uncancelled(e)' <=> Uncancelled(e)) /\ (Uncancelled(e) => e # d)
    BY <1>5, <2>2 DEF Uncancelled, Working
  <2>4. /\ \A e \in Deploys : Uncancelled(e) => OnItsWay(e)
        /\ (\A e \in Deploys : ~Uncancelled(e)) /\ ea.phase = "Ready" => deployment = seen.image
    BY <1>w, <2>1 DEF RunsItsSpec
  <2> QED
    BY <2>1, <2>2, <2>3, <2>4 DEF OnItsWay
<1>6. CASE /\ thread' = thread
           /\ \/ SpecUpdate \/ DeleteEA \/ Collect \/ HandleStatus \/ LosePush \/ UNCHANGED vars
              \/ \E p \in Patches : PatchLive(p) \/ PatchRead(p) \/ PatchWrite(p)
  <2>1. ea'.phase = ea.phase /\ seen' = seen /\ ea.here # "gone"
    BY <1>6 DEF SpecUpdate, DeleteEA, Collect, HandleStatus, LosePush, PatchLive, PatchRead, PatchWrite,
                vars, TypeOK
  <2>2. deployment' = deployment
    BY <1>6, <2>1 DEF SpecUpdate, DeleteEA, Collect, HandleStatus, LosePush, PatchLive, PatchRead, PatchWrite,
                vars, cluster
  <2>3. /\ \A e \in Deploys : Uncancelled(e) => OnItsWay(e)
        /\ (\A e \in Deploys : ~Uncancelled(e)) /\ ea.phase = "Ready" => deployment = seen.image
    BY <1>w, <2>1 DEF RunsItsSpec
  <2> QED
    BY <1>6, <2>1, <2>2, <2>3 DEF OnItsWay, Uncancelled, Working
<1> QED
  BY <1>1, <1>2, <1>3, <1>4, <1>5, <1>6, ThreadsStay

\* An edit not yet written to the CR is one that nobody has seen there, or will
\* write for another patch.
EditsAreNew ==
  "lost-update" \notin why =>
    /\ \A v \in Volumes : ea.data[v] <= edits /\ seen.data[v] <= edits
    /\ \A p \in Patches : patch[p].at # "idle" =>
         /\ patch[p].data \in 1..edits /\ patch[p].vol \in Volumes
         /\ \A v \in Volumes : ea.data[v] # patch[p].data /\ seen.data[v] # patch[p].data
         /\ \A q \in Patches : q # p /\ patch[q].at # "idle" => patch[q].data # patch[p].data

PatchType == [at : {"idle", "written", "read"}, vol : Volumes \union {"none"},
              data : 0..MaxEdits, list : Data]

\* What the steps of a config patch do, field by field.
LEMMA PatchFacts ==
  ASSUME TypeOK, NEW p \in Patches
  PROVE  /\ PatchLive(p) =>
              /\ patch[p].at = "idle" /\ edits' = edits + 1 /\ ea' = ea /\ seen' = seen
              /\ \E v \in Volumes :
                   /\ patch'[p].at = "written" /\ patch'[p].vol = v /\ patch'[p].data = edits + 1
                   /\ \A u \in Volumes : u # v => live'[u] = live[u]
         /\ PatchRead(p) =>
              /\ edits' = edits /\ ea' = ea /\ seen' = seen /\ live' = live /\ patch[p].at = "written"
              /\ \/ ea.here = "gone" /\ patch'[p].at = "idle"
                 \/ /\ patch'[p].at = "read" /\ patch'[p].vol = patch[p].vol
                    /\ patch'[p].data = patch[p].data
         /\ PatchWrite(p) =>
              /\ edits' = edits /\ seen' = seen /\ live' = live
              /\ patch[p].at = "read" /\ patch'[p].at = "idle"
              /\ \/ "half-patch" \in why' /\ ea' = ea
                 \/ "lost-update" \in why'
                 \/ \A v \in Volumes : ea'.data[v] = IF v = patch[p].vol THEN patch[p].data ELSE ea.data[v]
         /\ PatchLive(p) \/ PatchRead(p) \/ PatchWrite(p) =>
              \A q \in Patches : q # p => patch'[q] = patch[q]
<1>t. /\ patch \in [Patches -> PatchType] /\ patch[p] \in PatchType /\ live \in Data
      /\ ea \in [here : {"live", "deleting", "gone"}, image : 1..MaxEdits, data : Data, phase : Phases]
  BY DEF TypeOK, PatchType
<1>1. ASSUME PatchLive(p)
      PROVE  /\ patch[p].at = "idle" /\ edits' = edits + 1 /\ ea' = ea /\ seen' = seen
             /\ \E v \in Volumes :
                  /\ patch'[p].at = "written" /\ patch'[p].vol = v /\ patch'[p].data = edits + 1
                  /\ \A u \in Volumes : u # v => live'[u] = live[u]
             /\ \A q \in Patches : q # p => patch'[q] = patch[q]
  <2>1. PICK v \in Volumes :
          /\ live' = [live EXCEPT ![v] = edits + 1]
          /\ patch' = [patch EXCEPT ![p] = [@ EXCEPT !.at = "written", !.vol = v, !.data = edits + 1]]
    BY <1>1 DEF PatchLive
  <2> DEFINE new == [patch[p] EXCEPT !.at = "written", !.vol = v, !.data = edits + 1]
  <2>2. new.at = "written" /\ new.vol = v /\ new.data = edits + 1
    BY <1>t DEF PatchType
  <2>3. patch' = [patch EXCEPT ![p] = new]
    BY <2>1
  <2> HIDE DEF new
  <2>4. patch'[p] = new /\ \A q \in Patches : q # p => patch'[q] = patch[q]
    BY <1>t, <2>3
  <2>5. \A u \in Volumes : u # v => live'[u] = live[u]
    BY <1>t, <2>1 DEF Data
  <2>6. patch[p].at = "idle" /\ edits' = edits + 1 /\ ea' = ea /\ seen' = seen
    BY <1>1 DEF PatchLive
  <2> QED
    BY <2>2, <2>4, <2>5, <2>6
<1>2. ASSUME PatchRead(p)
      PROVE  /\ edits' = edits /\ ea' = ea /\ seen' = seen /\ live' = live /\ patch[p].at = "written"
             /\ \/ ea.here = "gone" /\ patch'[p].at = "idle"
                \/ /\ patch'[p].at = "read" /\ patch'[p].vol = patch[p].vol
                   /\ patch'[p].data = patch[p].data
             /\ \A q \in Patches : q # p => patch'[q] = patch[q]
  <2> DEFINE new == IF ea.here = "gone" THEN NoPatch ELSE [patch[p] EXCEPT !.at = "read", !.list = ea.data]
  <2>1. \/ ea.here = "gone" /\ new.at = "idle"
        \/ new.at = "read" /\ new.vol = patch[p].vol /\ new.data = patch[p].data
    BY <1>t DEF PatchType, NoPatch
  <2>2. patch' = [patch EXCEPT ![p] = new]
    BY <1>2 DEF PatchRead
  <2> HIDE DEF new
  <2>3. patch'[p] = new /\ \A q \in Patches : q # p => patch'[q] = patch[q]
    BY <1>t, <2>2
  <2> QED
    BY <1>2, <2>1, <2>3 DEF PatchRead, cluster
<1>3. ASSUME PatchWrite(p)
      PROVE  /\ edits' = edits /\ seen' = seen /\ live' = live
             /\ patch[p].at = "read" /\ patch'[p].at = "idle"
             /\ \/ "half-patch" \in why' /\ ea' = ea
                \/ "lost-update" \in why'
                \/ \A v \in Volumes : ea'.data[v] = IF v = patch[p].vol THEN patch[p].data ELSE ea.data[v]
             /\ \A q \in Patches : q # p => patch'[q] = patch[q]
  <2>1. patch' = [patch EXCEPT ![p] = NoPatch] /\ NoPatch.at = "idle"
    BY <1>3 DEF PatchWrite, NoPatch
  <2>2. patch'[p].at = "idle" /\ \A q \in Patches : q # p => patch'[q] = patch[q]
    BY <1>t, <2>1
  <2>3. \/ "half-patch" \in why' /\ ea' = ea
        \/ "lost-update" \in why'
        \/ ea' = [ea EXCEPT !.data = Merged(p)] /\ patch[p].list = ea.data
    BY <1>3 DEF PatchWrite
  <2>4. ASSUME ea' = [ea EXCEPT !.data = Merged(p)], patch[p].list = ea.data
        PROVE  \A v \in Volumes : ea'.data[v] = IF v = patch[p].vol THEN patch[p].data ELSE ea.data[v]
    <3>1. ea'.data = Merged(p) /\ ea.data \in Data
      BY <1>t, <2>4
    <3>2. Merged(p) = [ea.data EXCEPT ![patch[p].vol] = patch[p].data]
      BY <2>4 DEF Merged
    <3> QED
      BY <3>1, <3>2 DEF Data
  <2> QED
    BY <1>3, <2>2, <2>3, <2>4 DEF PatchWrite, cluster
<1> QED
  BY <1>1, <1>2, <1>3

\* Every edit is numbered anew.
LEMMA EditsAreNewStep ==
  ASSUME TypeOK, EditsAreNew, [Next]_vars
  PROVE  EditsAreNew'
<1> SUFFICES ASSUME "lost-update" \notin why'
             PROVE  EditsAreNew'
  BY DEF EditsAreNew
<1>w. "lost-update" \notin why
  BY ReasonsStay
<1>t. /\ patch \in [Patches -> PatchType]
      /\ ea \in [here : {"live", "deleting", "gone"}, image : 1..MaxEdits, data : Data, phase : Phases]
      /\ seen \in [image : 0..MaxEdits, data : Data]
  BY DEF TypeOK, PatchType
<1>e. edits \in Nat
  BY DEF TypeOK
<1>v. \A v \in Volumes : ea.data[v] \in Nat /\ seen.data[v] \in Nat
  <2>1. ea.data \in Data /\ seen.data \in Data
    BY <1>t
  <2> QED
    BY <2>1 DEF Data
<1>p. \A p \in Patches : patch[p].data \in Nat
  BY <1>t DEF PatchType
<1>0. /\ \A v \in Volumes : ea.data[v] <= edits /\ seen.data[v] <= edits
      /\ \A p \in Patches : patch[p].at # "idle" =>
           /\ patch[p].data \in 1..edits /\ patch[p].vol \in Volumes
           /\ \A v \in Volumes : ea.data[v] # patch[p].data /\ seen.data[v] # patch[p].data
           /\ \A q \in Patches : q # p /\ patch[q].at # "idle" => patch[q].data # patch[p].data
  BY <1>w DEF EditsAreNew
<1>k. ASSUME edits' = edits, patch' = patch, ea'.data = ea.data, seen'.data \in {seen.data, ea.data}
      PROVE  EditsAreNew'
  BY <1>0, <1>k DEF EditsAreNew
<1>1. CASE SpecUpdate
  <2>1. PICK given \in {0, edits + 1} :
          ea' = [ea EXCEPT !.image = edits + 1, !.data = [v \in Volumes |-> given]]
    BY <1>1 DEF SpecUpdate
  <2>2. edits' = edits + 1 /\ seen' = seen /\ patch' = patch
    BY <1>1 DEF SpecUpdate
  <2>3. \A v \in Volumes : ea'.data[v] \in {0, edits + 1}
    <3>1. ea'.data = [v \in Volumes |-> given]
      BY <1>t, <2>1
    <3> QED
      BY <3>1
  <2>4. \A v \in Volumes : ea'.data[v] <= edits' /\ seen'.data[v] <= edits'
    BY <1>0, <1>e, <1>v, <2>2, <2>3
  <2>5. ASSUME NEW p \in Patches, patch[p].at # "idle"
        PROVE  /\ patch[p].data \in 1..(edits + 1)
               /\ \A v \in Volumes : ea'.data[v] # patch[p].data
    BY <1>0, <1>e, <1>v, <1>p, <2>3, <2>5
  <2> QED
    BY <1>0, <2>2, <2>4, <2>5 DEF EditsAreNew
<1>2. ASSUME NEW p \in Patches, PatchLive(p)
      PROVE  EditsAreNew'
  <2>1. /\ patch[p].at = "idle" /\ edits' = edits + 1 /\ ea' = ea /\ seen' = seen
        /\ patch'[p].vol \in Volumes /\ patch'[p].data = edits + 1
        /\ \A q \in Patches : q # p => patch'[q] = patch[q]
    BY <1>2, PatchFacts
  <2>2. \A v \in Volumes : /\ ea.data[v] <= edits + 1 /\ seen.data[v] <= edits + 1
                           /\ ea.data[v] # edits + 1 /\ seen.data[v] # edits + 1
    BY <1>0, <1>e, <1>v, <1>p
  <2>3. \A q \in Patches : patch[q].at # "idle" => patch[q].data \in 1..(edits + 1) /\ patch[q].data # edits + 1
    BY <1>0, <1>e, <1>v, <1>p
  <2>4. edits + 1 \in 1..(edits + 1)
    BY <1>e
  <2>5. ASSUME NEW r \in Patches, patch'[r].at # "idle"
        PROVE  /\ patch'[r].data \in 1..edits' /\ patch'[r].vol \in Volumes
               /\ \A v \in Volumes : ea'.data[v] # patch'[r].data /\ seen'.data[v] # patch'[r].data
               /\ \A q \in Patches : q # r /\ patch'[q].at # "idle" => patch'[q].data # patch'[r].data
    <3>1. CASE r = p
      BY <2>1, <2>2, <2>3, <2>4, <3>1
    <3>2. CASE r # p
      BY <1>0, <2>1, <2>3, <2>5, <3>2
    <3> QED
      BY <3>1, <3>2
  <2> QED
    BY <2>1, <2>2, <2>5 DEF EditsAreNew
<1>3. ASSUME NEW p \in Patches, PatchRead(p)
      PROVE  EditsAreNew'
  <2>1. /\ edits' = edits /\ ea' = ea /\ seen' = seen /\ patch[p].at = "written"
        /\ patch'[p].at = "idle" \/ (patch'[p].vol = patch[p].vol /\ patch'[p].data = patch[p].data)
        /\ \A q \in Patches : q # p => patch'[q] = patch[q]
    BY <1>3, PatchFacts
  <2>2. \A q \in Patches : patch'[q].at # "idle" =>
          patch[q].at # "idle" /\ patch'[q].vol = patch[q].vol /\ patch'[q].data = patch[q].data
    BY <2>1
  <2> QED
    BY <1>0, <2>1, <2>2 DEF EditsAreNew
<1>4. ASSUME NEW p \in Patches, PatchWrite(p)
      PROVE  EditsAreNew'
  <2>1. /\ edits' = edits /\ seen' = seen
        /\ patch[p].at = "read" /\ patch'[p].at = "idle"
        /\ \A q \in Patches : q # p => patch'[q] = patch[q]
    BY <1>4, PatchFacts
  <2>2. \A v \in Volumes : ea'.data[v] \in {ea.data[v], patch[p].data}
    BY <1>4, PatchFacts
  <2>3. patch[p].data <= edits
    BY <1>0, <1>e, <1>p, <2>1
  <2>4. \A v \in Volumes : ea'.data[v] <= edits' /\ seen'.data[v] <= edits'
    BY <1>0, <2>1, <2>2, <2>3
  <2>5. ASSUME NEW q \in Patches, patch'[q].at # "idle"
        PROVE  \A v \in Volumes : ea'.data[v] # patch'[q].data
    <3>1. q # p /\ patch'[q] = patch[q] /\ patch[p].data # patch[q].data
      BY <1>0, <2>1, <2>5
    <3> QED
      BY <1>0, <2>2, <2>5, <3>1
  <2>6. \A q \in Patches : patch'[q].at # "idle" => q # p /\ patch'[q] = patch[q]
    BY <2>1
  <2> QED
    BY <1>0, <2>1, <2>4, <2>5, <2>6 DEF EditsAreNew
<1>5. CASE Restart
  BY <1>0, <1>5 DEF Restart, NoPatch, EditsAreNew
<1>6. ASSUME NEW d \in Deploys,
             \/ StartDeploy(d) \/ Tell(d)
             \/ ReadDeployment(d) \/ ApplyConfigs(d)
             \/ Prepare(d) \/ PutDeployment(d) \/ PutService(d) \/ Watch(d) \/ Poll(d) \/ Pop(d)
      PROVE  EditsAreNew'
  <2>1. edits' = edits /\ patch' = patch
    BY <1>6 DEF StartDeploy, Begin, Tell, Tells, ReadDeployment, ApplyConfigs, Prepare, PutDeployment,
                PutService, Watch, Poll, Pop
  <2>2. ea'.data = ea.data
    BY <1>t, <1>6 DEF StartDeploy, Begin, Tell, ReadDeployment, ApplyConfigs, Prepare, PutDeployment,
                PutService, Watch, Poll, Pop
  <2>3. seen'.data \in {seen.data, ea.data}
    BY <1>6 DEF StartDeploy, Begin, SpecOf, Tell, Tells, ReadDeployment, ApplyConfigs, Prepare, PutDeployment,
                PutService, Watch, Poll, Pop
  <2> QED
    BY <1>k, <2>1, <2>2, <2>3
<1>7. CASE DeleteEA \/ OnDeleted \/ Collect \/ HandleStatus \/ LosePush \/ UNCHANGED vars
  <2>1. edits' = edits /\ patch' = patch /\ seen' = seen
    BY <1>7 DEF DeleteEA, OnDeleted, Bury, Collect, HandleStatus, LosePush, vars
  <2>2. ea'.data = ea.data
    BY <1>t, <1>7 DEF DeleteEA, OnDeleted, Bury, Collect, HandleStatus, LosePush, vars
  <2> QED
    BY <1>k, <2>1, <2>2
<1> QED
  BY <1>1, <1>2, <1>3, <1>4, <1>5, <1>6, <1>7 DEF Next

Whole == why \cap {"overlap", "crash", "api", "lost-update", "half-patch"} = {}

Patching(v) == \E p \in Patches : patch[p].at # "idle" /\ patch[p].vol = v

\* A volume holds the data of the spec that kopf has handled, or a patch of it is
\* under way, or the CR has moved on.
Fits(v) ==
  seen.data[v] = 0 \/ live[v] = seen.data[v] \/ Patching(v) \/ ea.data[v] # seen.data[v]

AfterConfigs == {"prepare", "deploy", "service", "watch", "poll", "pop"}

HasItsData ==
  Whole /\ ea.here # "gone" =>
    /\ \A d \in Deploys : Uncancelled(d) /\ thread[d].at \in AfterConfigs => \A v \in Volumes : Fits(v)
    /\ (\A d \in Deploys : ~Uncancelled(d)) /\ ea.phase = "Ready" => \A v \in Volumes : Fits(v)

\* Neither an edit nor a step of a patch takes from a volume what fits it.
LEMMA FitsStays ==
  ASSUME TypeOK, EditsAreNew, Whole, Whole', ea'.here # "gone", NEW v \in Volumes, Fits(v),
         \/ SpecUpdate \/ DeleteEA \/ Collect \/ HandleStatus \/ LosePush \/ UNCHANGED vars
         \/ \E p \in Patches : PatchLive(p) \/ PatchRead(p) \/ PatchWrite(p)
  PROVE  Fits(v)'
<1>t. /\ patch \in [Patches -> PatchType]
      /\ ea \in [here : {"live", "deleting", "gone"}, image : 1..MaxEdits, data : Data, phase : Phases]
      /\ seen \in [image : 0..MaxEdits, data : Data] /\ edits \in Nat
  BY DEF TypeOK, PatchType
<1>v. ea.data[v] \in Nat /\ seen.data[v] \in Nat
  <2>1. ea.data \in Data /\ seen.data \in Data
    BY <1>t
  <2> QED
    BY <2>1 DEF Data
<1>w. "lost-update" \notin why /\ "lost-update" \notin why' /\ "half-patch" \notin why'
  BY DEF Whole
<1>0. /\ ea.data[v] <= edits /\ seen.data[v] <= edits
      /\ \A p \in Patches : patch[p].at # "idle" => seen.data[v] # patch[p].data
  BY <1>w DEF EditsAreNew
<1>1. CASE SpecUpdate
  <2>1. PICK given \in {0, edits + 1} :
          ea' = [ea EXCEPT !.image = edits + 1, !.data = [u \in Volumes |-> given]]
    BY <1>1 DEF SpecUpdate
  <2>2. ea'.data[v] \in {0, edits + 1}
    <3>1. ea'.data = [u \in Volumes |-> given]
      BY <1>t, <2>1
    <3> QED
      BY <3>1
  <2>3. seen' = seen /\ patch' = patch /\ live' = live
    BY <1>1 DEF SpecUpdate, cluster
  <2>4. seen.data[v] = 0 \/ ea'.data[v] # seen.data[v]
    BY <1>0, <1>t, <1>v, <2>2
  <2> QED
    BY <2>3, <2>4 DEF Fits
<1>2. ASSUME NEW p \in Patches, PatchLive(p)
      PROVE  Fits(v)'
  <2>1. PICK u \in Volumes :
          /\ patch'[p].at = "written" /\ patch'[p].vol = u
          /\ \A x \in Volumes : x # u => live'[x] = live[x]
    BY <1>2, PatchFacts
  <2>2. /\ patch[p].at = "idle" /\ ea' = ea /\ seen' = seen
        /\ \A q \in Patches : q # p => patch'[q] = patch[q]
    BY <1>2, PatchFacts
  <2>3. CASE v = u
    BY <2>1, <2>3 DEF Fits, Patching
  <2>4. CASE v # u
    BY <2>1, <2>2, <2>4 DEF Fits, Patching
  <2> QED
    BY <2>3, <2>4
<1>3. ASSUME NEW p \in Patches, PatchRead(p)
      PROVE  Fits(v)'
  <2>1. /\ ea' = ea /\ seen' = seen /\ live' = live /\ patch'[p].at = "read" /\ patch'[p].vol = patch[p].vol
        /\ \A q \in Patches : q # p => patch'[q] = patch[q]
    BY <1>3, PatchFacts
  <2>2. Patching(v) => Patching(v)'
    BY <2>1 DEF Patching
  <2> QED
    BY <2>1, <2>2 DEF Fits
<1>4. ASSUME NEW p \in Patches, PatchWrite(p)
      PROVE  Fits(v)'
  <2>1. /\ seen' = seen /\ live' = live /\ patch[p].at = "read"
        /\ ea'.data[v] = IF v = patch[p].vol THEN patch[p].data ELSE ea.data[v]
        /\ \A q \in Patches : q # p => patch'[q] = patch[q]
    BY <1>4, <1>w, PatchFacts
  <2>2. CASE v = patch[p].vol
    BY <1>0, <2>1, <2>2 DEF Fits
  <2>3. CASE v # patch[p].vol
    <3>1. Patching(v) => Patching(v)'
      BY <2>1, <2>3 DEF Patching
    <3> QED
      BY <2>1, <2>3, <3>1 DEF Fits
  <2> QED
    BY <2>2, <2>3
<1>5. CASE DeleteEA \/ Collect \/ HandleStatus \/ LosePush \/ UNCHANGED vars
  <2>1. seen' = seen /\ patch' = patch /\ live' = live
    BY <1>5 DEF DeleteEA, Collect, HandleStatus, LosePush, vars, cluster
  <2>2. ea'.data = ea.data
    BY <1>t, <1>5 DEF DeleteEA, Collect, HandleStatus, LosePush, vars
  <2> QED
    BY <2>1, <2>2 DEF Fits, Patching
<1> QED
  BY <1>1, <1>2, <1>3, <1>4, <1>5

\* The thread that writes brings the volumes into line before it can say Ready.
LEMMA HasItsDataByWriter ==
  ASSUME TypeOK, OneActive, RunsItsSpec, HasItsData, Whole, Whole', NEW d \in Deploys, Writes(d)
  PROVE  /\ Working(d)' /\ thread'[d].at \in AfterConfigs => \A v \in Volumes : Fits(v)'
         /\ ~Working(d)' /\ ea'.phase = "Ready" => \A v \in Volumes : Fits(v)'
<1>t. /\ thread \in [Deploys -> Threads] /\ thread[d] \in Threads
      /\ ea \in [here : {"live", "deleting", "gone"}, image : 1..MaxEdits, data : Data, phase : Phases]
      /\ seen \in [image : 0..MaxEdits, data : Data]
  BY DEF TypeOK, Threads
<1>w. "overlap" \notin why /\ "api" \notin why' /\ Undisturbed
  BY DEF Whole, Undisturbed
<1>1. Uncancelled(d) /\ ea.here # "gone" /\ Working(d)
  BY <1>w, WriterFacts DEF Uncancelled
<1>2. OnItsWay(d)
  BY <1>1, <1>w DEF RunsItsSpec
<1>3. thread[d].at \in AfterConfigs => \A v \in Volumes : Fits(v)
  BY <1>1 DEF HasItsData
<1>s. seen' = seen /\ patch' = patch /\ ea'.data = ea.data
  <2>1. seen' = seen /\ patch' = patch
    BY DEF Writes, Tell, Tells, ReadDeployment, ApplyConfigs, Prepare, PutDeployment, PutService, Poll, Pop, Watch
  <2>2. ea'.data = ea.data
    BY <1>t DEF Writes, Tell, ReadDeployment, ApplyConfigs, Prepare, PutDeployment, PutService, Poll, Pop, Watch
  <2> QED
    BY <2>1, <2>2
<1>k. ASSUME live' = live, NEW v \in Volumes, Fits(v)
      PROVE  Fits(v)'
  BY <1>k, <1>s DEF Fits, Patching
<1>4. CASE ApplyConfigs(d)
  <2>1. CASE live' = Applied(thread[d].spec.data, Volumes)
    <3>1. thread[d].spec.data = seen.data
      BY <1>2 DEF OnItsWay
    <3>2. \A v \in Volumes : seen.data[v] = 0 \/ live'[v] = seen.data[v]
      BY <2>1, <3>1 DEF Applied
    <3> QED
      BY <1>s, <3>2 DEF Fits
  <2>2. CASE Report(d, "Failed", "over")
    <3>1. thread'[d].at = "over"
      BY <1>t, <2>2, StepFacts
    <3> QED
      BY <3>1 DEF AfterConfigs, Working
  <2> QED
    BY <1>4, <2>1, <2>2 DEF ApplyConfigs
<1>5. CASE Tell(d)
  <2>1. ea'.phase = thread[d].says /\ live' = live
    BY <1>t, <1>w, <1>1, <1>5 DEF Tell, Tells, cluster
  <2>2. /\ thread[d].owes
        /\ \/ thread[d].at = "over" /\ thread'[d].at = "idle"
           \/ thread[d].at # "over" /\ thread'[d].at = thread[d].at
    BY <1>t, <1>5, TellFacts
  <2>3. ~Working(d)' => ea'.phase # "Ready"
    BY <1>1, <1>2, <2>1, <2>2 DEF OnItsWay, Working
  <2>4. Working(d)' => thread'[d].at = thread[d].at
    BY <2>2 DEF Working
  <2> QED
    BY <1>3, <1>k, <2>1, <2>3, <2>4
<1>6. CASE ReadDeployment(d)
  <2>1. PICK phase \in {"Creating", "Updating"} : Report(d, phase, "configs")
    BY <1>6 DEF ReadDeployment
  <2>2. thread'[d].at = "configs"
    BY <1>t, <2>1, StepFacts
  <2> QED
    BY <2>2 DEF AfterConfigs, Working
<1>7. CASE Prepare(d) \/ PutDeployment(d) \/ PutService(d) \/ Poll(d) \/ Pop(d) \/ (Watch(d) /\ ~thread[d].cancelled)
  <2>1. thread[d].at \in AfterConfigs /\ live' = live
    BY <1>7 DEF Prepare, PutDeployment, PutService, Poll, Pop, Watch, Runs, AfterConfigs, cluster
  <2> QED
    BY <1>3, <1>k, <2>1
<1> QED
  BY <1>4, <1>5, <1>6, <1>7 DEF Writes

\* While a deploy is past the volumes, only a patch or a newer edit changes them.
LEMMA HasItsDataStep ==
  ASSUME TypeOK, OneActive, OneActive', RunsItsSpec, EditsAreNew, HasItsData, [Next]_vars
  PROVE  HasItsData'
<1> DEFINE Late(d) == Uncancelled(d) /\ thread[d].at \in AfterConfigs
           Fit == \A v \in Volumes : Fits(v)
           Quiet == \A d \in Deploys : ~Uncancelled(d)
<1> SUFFICES ASSUME Whole', ea'.here # "gone"
             PROVE  (\A d \in Deploys : Late(d)' => Fit') /\ (Quiet' /\ ea'.phase = "Ready" => Fit')
  BY DEF HasItsData
<1>t. thread \in [Deploys -> Threads]
  BY DEF TypeOK, Threads
<1>w. Whole /\ "overlap" \notin why /\ "overlap" \notin why' /\ "crash" \notin why' /\ "half-patch" \notin why'
  BY ReasonsStay DEF Whole
<1>0. ea.here # "gone" => (\A d \in Deploys : Late(d) => Fit) /\ (Quiet /\ ea.phase = "Ready" => Fit)
  BY <1>w DEF HasItsData
<1>1. ASSUME NEW d \in Deploys, Writes(d)
      PROVE  (\A e \in Deploys : Late(e)' => Fit') /\ (Quiet' /\ ea'.phase = "Ready" => Fit')
  <2>1. /\ \A e \in Deploys : e # d => ~Uncancelled(e) /\ thread'[e] = thread[e]
        /\ Working(d)' => Uncancelled(d)'
    BY <1>1, <1>w, WriterFacts
  <2>2. \A e \in Deploys : e # d => ~Uncancelled(e)'
    BY <2>1 DEF Uncancelled, Working
  <2>3. /\ Working(d)' /\ thread'[d].at \in AfterConfigs => Fit'
        /\ ~Working(d)' /\ ea'.phase = "Ready" => Fit'
    BY <1>1, <1>w, HasItsDataByWriter
  <2>4. Quiet' => ~Working(d)'
    BY <2>1
  <2>5. Uncancelled(d)' => Working(d)'
    BY DEF Uncancelled
  <2> QED
    BY <2>2, <2>3, <2>4, <2>5
<1>2. ASSUME NEW d \in Deploys, StartDeploy(d)
      PROVE  (\A e \in Deploys : Late(e)' => Fit') /\ (Quiet' /\ ea'.phase = "Ready" => Fit')
  <2>1. thread'[d].at = "check" /\ ~thread'[d].cancelled /\ stopEvent' = d
    BY <1>t, <1>2, StartFacts
  <2>2. \A e \in Deploys : Uncancelled(e)' => e = d
    BY <1>w, <2>1 DEF OneActive, Uncancelled
  <2>3. Uncancelled(d)' /\ thread'[d].at \notin AfterConfigs
    BY <2>1 DEF Uncancelled, Working, AfterConfigs
  <2> QED
    BY <2>2, <2>3
<1>3. ~OnDeleted
  BY <1>t, BuryFacts
<1>4. CASE Restart
  <2>1. /\ \A d \in Deploys : ~Working(d) /\ ~Working(d)'
        /\ \A p \in Patches : patch[p] = NoPatch /\ patch'[p] = NoPatch
    BY <1>4, <1>w DEF Restart, Working, NoThread
  <2>2. ea' = ea /\ seen' = seen /\ live' = live
    BY <1>4 DEF Restart, cluster
  <2>3. \A v \in Volumes : Fits(v) => Fits(v)'
    BY <2>1, <2>2 DEF Fits, Patching
  <2>4. \A d \in Deploys : ~Uncancelled(d) /\ ~Uncancelled(d)'
    BY <2>1 DEF Uncancelled
  <2> QED
    BY <1>0, <2>2, <2>3, <2>4
<1>5. ASSUME NEW d \in Deploys, Watch(d), thread[d].cancelled
      PROVE  (\A e \in Deploys : Late(e)' => Fit') /\ (Quiet' /\ ea'.phase = "Ready" => Fit')
  <2>1. Ends(d) /\ ea' = ea /\ seen' = seen /\ live' = live /\ patch' = patch
    BY <1>5 DEF Watch, cluster
  <2>2. thread'[d].at = "idle" /\ \A e \in Deploys : e # d => thread'[e] = thread[e]
    BY <1>t, <2>1, StepFacts
  <2>3. \A e \in Deploys : (Uncancelled(e)' <=> Uncancelled(e)) /\ (Late(e)' => Late(e))
    BY <1>5, <2>2 DEF Uncancelled, Working
  <2>4. Fit => Fit'
    BY <2>1 DEF Fits, Patching
  <2> HIDE DEF Fit, Late
  <2>5. Quiet' => Quiet
    BY <2>3
  <2> QED
    BY <1>0, <2>1, <2>3, <2>4, <2>5
<1>6. CASE /\ thread' = thread /\ (ea'.here = "gone" <=> ea.here = "gone")
           /\ \/ SpecUpdate \/ DeleteEA \/ Collect \/ HandleStatus \/ LosePush \/ UNCHANGED vars
              \/ \E p \in Patches : PatchLive(p) \/ PatchRead(p) \/ PatchWrite(p)
  <2>1. Fit => Fit'
    BY <1>6, <1>w, FitsStays
  <2>2. ea'.phase = ea.phase
    BY <1>6 DEF SpecUpdate, DeleteEA, Collect, HandleStatus, LosePush, PatchLive, PatchRead, PatchWrite,
                vars, TypeOK
  <2>3. \A d \in Deploys : (Uncancelled(d)' <=> Uncancelled(d)) /\ (Late(d)' <=> Late(d))
    BY <1>6 DEF Uncancelled, Working
  <2> HIDE DEF Fit, Late
  <2>4. Quiet' => Quiet
    BY <2>3
  <2> QED
    BY <1>0, <1>6, <2>1, <2>2, <2>3, <2>4
<1> QED
  BY <1>1, <1>2, <1>3, <1>4, <1>5, <1>6, ThreadsStay

\* The last that the submitting side will have heard when what is on its way has
\* arrived in order is the status of the CR.
Last == IF pushes = <<>> THEN raPhase ELSE pushes[Len(pushes)]

Told ==
  why \cap {"overlap", "crash", "api", "lost-push", "reordered", "unwritten"} = {}
    => Last = IF ea.here = "gone" THEN "Deleted" ELSE ea.phase

\* Without its first element a sequence ends as it did, or is empty.
LEMMA WithoutFirst ==
  ASSUME NEW S, NEW s \in Seq(S), s # <<>>
  PROVE  \/ Len(s) = 1 /\ Without(s, 1) = <<>>
         \/ /\ Len(s) > 1 /\ Without(s, 1) \in Seq(S) /\ Len(Without(s, 1)) = Len(s) - 1
            /\ Without(s, 1)[Len(s) - 1] = s[Len(s)]
<1>n. Len(s) \in Nat \ {0}
  BY EmptySeq
<1>e. SubSeq(s, 1, 1 - 1) = <<>>
  BY SubSeqEmpty
<1>1. CASE Len(s) = 1
  <2>1. SubSeq(s, 1 + 1, Len(s)) = <<>>
    BY <1>1, SubSeqEmpty
  <2>2. <<>> \o <<>> = <<>>
    BY EmptySeq, ConcatEmptySeq
  <2> QED
    BY <1>1, <1>e, <2>1, <2>2 DEF Without
<1>2. CASE Len(s) > 1
  <2> DEFINE rest == SubSeq(s, 2, Len(s))
  <2>1. \A j \in 2..Len(s) : s[j] \in S
    <3>1. \A j \in 2..Len(s) : j \in 1..Len(s)
      BY <1>n
    <3> QED
      BY <3>1, ElementOfSeq
  <2>2. /\ rest \in Seq(S)
        /\ Len(rest) = IF 2 <= Len(s) THEN Len(s) - 2 + 1 ELSE 0
        /\ \A j \in 1..(Len(s) - 2 + 1) : rest[j] = s[2 + j - 1]
    BY <1>n, <2>1, SubSeqProperties
  <2>3. Without(s, 1) = rest
    <3>1. Without(s, 1) = <<>> \o rest
      BY <1>e DEF Without
    <3> QED
      BY <2>2, <3>1, ConcatEmptySeq
  <2>4. Len(rest) = Len(s) - 1
    BY <1>n, <1>2, <2>2
  <2>5. rest[Len(s) - 1] = s[Len(s)]
    <3>1. Len(s) - 1 \in 1..(Len(s) - 2 + 1) /\ 2 + (Len(s) - 1) - 1 = Len(s)
      BY <1>n, <1>2
    <3>2. rest[Len(s) - 1] = s[2 + (Len(s) - 1) - 1]
      BY <2>2, <3>1
    <3> QED
      BY <3>1, <3>2
  <2> QED
    BY <1>2, <2>2, <2>3, <2>4, <2>5
<1>3. Len(s) = 1 \/ Len(s) > 1
  <2>1. \A n \in Nat \ {0} : n = 1 \/ n > 1
    OBVIOUS
  <2> QED
    BY <1>n, <2>1, Zenon
<1> QED
  BY <1>1, <1>2, <1>3, Zenon

\* Whoever changes the status says so, and what is said arrives in order.
LEMMA ToldStep ==
  ASSUME TypeOK, OneActive, Told, [Next]_vars
  PROVE  Told'
<1> SUFFICES ASSUME why' \cap {"overlap", "crash", "api", "lost-push", "reordered", "unwritten"} = {}
             PROVE  Last' = IF ea'.here = "gone" THEN "Deleted" ELSE ea'.phase
  BY DEF Told
<1>t. /\ thread \in [Deploys -> Threads] /\ pushes \in Seq(Phases \union {"Deleted"})
      /\ ea \in [here : {"live", "deleting", "gone"}, image : 1..MaxEdits, data : Data, phase : Phases]
  BY DEF TypeOK, Threads
<1>w. /\ why \cap {"overlap", "crash", "api", "lost-push", "reordered", "unwritten"} = {}
      /\ "overlap" \notin why /\ "api" \notin why' /\ "lost-push" \notin why' /\ "reordered" \notin why'
      /\ "unwritten" \notin why'
  BY ReasonsStay
<1>0. Last = IF ea.here = "gone" THEN "Deleted" ELSE ea.phase
  BY <1>w DEF Told
<1>k. ASSUME ea'.here = "gone" <=> ea.here = "gone", ea'.phase = ea.phase, Last' = Last
      PROVE  Last' = IF ea'.here = "gone" THEN "Deleted" ELSE ea'.phase
  BY <1>0, <1>k
<1>a. ASSUME NEW word \in Phases \union {"Deleted"}, pushes' = Append(pushes, word)
      PROVE  Last' = word
  <2>1. Len(pushes') = Len(pushes) + 1 /\ pushes'[Len(pushes) + 1] = word
    BY <1>t, <1>a, AppendProperties
  <2>2. pushes' # <<>>
    BY <1>t, <2>1, LenProperties, EmptySeq
  <2> QED
    BY <2>1, <2>2 DEF Last
<1>1. ASSUME NEW d \in Deploys, Tell(d)
      PROVE  Last' = IF ea'.here = "gone" THEN "Deleted" ELSE ea'.phase
  <2>1. ea.here # "gone"
    BY <1>1, <1>w, WriterFacts DEF Writes
  <2>2. /\ ea' = [ea EXCEPT !.phase = IF TRUE /\ ea.here # "gone" THEN thread[d].says ELSE @]
        /\ pushes' = Append(pushes, thread[d].says)
    BY <1>1, <1>w DEF Tell
  <2>3. ea'.here = ea.here /\ ea'.phase = thread[d].says
    BY <1>t, <2>1, <2>2
  <2>4. thread[d].says \in Phases
    BY <1>t DEF Threads
  <2>5. Last' = thread[d].says
    BY <1>a, <2>2, <2>4
  <2> QED
    BY <2>1, <2>3, <2>5
<1>2. CASE OnDeleted
  <2>1. ea'.here = "gone" /\ pushes' = Append(pushes, "Deleted")
    BY <1>t, <1>2, <1>w, BuryFacts DEF OnDeleted, Bury
  <2>2. Last' = "Deleted"
    BY <1>a, <2>1
  <2> QED
    BY <2>1, <2>2
<1>3. CASE HandleStatus
  <2>1. PICK i \in 1..Len(pushes) :
          /\ raPhase' = pushes[i]
          /\ pushes' = Without(pushes, i)
          /\ why' = why \union (IF i # 1 THEN {"reordered"} ELSE {})
          /\ UNCHANGED <<ea, seen, edits, threads, cluster, patch>>
    BY <1>3, <1>w DEF HandleStatus
  <2>2. i = 1
    BY <1>w, <2>1
  <2>3. pushes # <<>>
    BY <1>t, <2>1, <2>2, EmptySeq
  <2>7. raPhase' = pushes[1] /\ pushes' = Without(pushes, 1) /\ Last = pushes[Len(pushes)]
    BY <2>1, <2>2, <2>3 DEF Last
  <2>4. ASSUME Len(pushes) = 1, Without(pushes, 1) = <<>>
        PROVE  Last' = Last
    BY <2>4, <2>7 DEF Last
  <2>5. ASSUME Len(pushes) > 1, Without(pushes, 1) \in Seq(Phases \union {"Deleted"}),
               Len(Without(pushes, 1)) = Len(pushes) - 1,
               Without(pushes, 1)[Len(pushes) - 1] = pushes[Len(pushes)]
        PROVE  Last' = Last
    <3>1. pushes' # <<>>
      BY <1>t, <2>5, <2>7, LenProperties, EmptySeq
    <3>2. Last' = pushes'[Len(pushes')]
      BY <3>1 DEF Last
    <3>3. Len(pushes') = Len(pushes) - 1 /\ pushes'[Len(pushes) - 1] = pushes[Len(pushes)]
      BY <2>5, <2>7, Zenon
    <3> QED
      BY <2>7, <3>2, <3>3, Zenon
  <2>8. \/ Len(pushes) = 1 /\ Without(pushes, 1) = <<>>
        \/ /\ Len(pushes) > 1 /\ Without(pushes, 1) \in Seq(Phases \union {"Deleted"})
           /\ Len(Without(pushes, 1)) = Len(pushes) - 1
           /\ Without(pushes, 1)[Len(pushes) - 1] = pushes[Len(pushes)]
    BY <1>t, <2>3, WithoutFirst, Zenon
  <2>6. Last' = Last
    BY <2>4, <2>5, <2>8, Zenon
  <2> QED
    BY <1>k, <2>1, <2>6
<1>4. ~LosePush
  BY <1>w DEF LosePush
<1>5. CASE Restart
  <2>1. pushes' = pushes /\ raPhase' = raPhase /\ ea' = ea
    BY <1>5, <1>w DEF Restart
  <2> QED
    BY <1>k, <2>1 DEF Last
<1>6. ASSUME NEW d \in Deploys,
             \/ StartDeploy(d) \/ ReadDeployment(d) \/ ApplyConfigs(d)
             \/ Prepare(d) \/ PutDeployment(d) \/ PutService(d) \/ Watch(d) \/ Poll(d) \/ Pop(d)
      PROVE  Last' = IF ea'.here = "gone" THEN "Deleted" ELSE ea'.phase
  <2>1. pushes' = pushes /\ raPhase' = raPhase /\ ea' = ea
    BY <1>6 DEF StartDeploy, Begin, ReadDeployment, ApplyConfigs, Prepare, PutDeployment, PutService,
                Watch, Poll, Pop, peer
  <2> QED
    BY <1>k, <2>1 DEF Last
<1>7. CASE \/ SpecUpdate \/ DeleteEA \/ Collect \/ UNCHANGED vars
           \/ \E p \in Patches : PatchLive(p) \/ PatchRead(p) \/ PatchWrite(p)
  <2>1. pushes' = pushes /\ raPhase' = raPhase
    BY <1>7 DEF SpecUpdate, DeleteEA, Collect, PatchLive, PatchRead, PatchWrite, vars, peer
  <2>2. (ea'.here = "gone" <=> ea.here = "gone") /\ ea'.phase = ea.phase
    BY <1>t, <1>7 DEF SpecUpdate, DeleteEA, Collect, PatchLive, PatchRead, PatchWrite, vars
  <2> QED
    BY <1>k, <2>1, <2>2 DEF Last
<1> QED
  BY <1>1, <1>2, <1>3, <1>4, <1>5, <1>6, <1>7 DEF Next

\* The inductive invariant: the table of the threads, what the one at work has
\* still to do for the spec it was started with, and what is still to be heard.
IInv ==
  /\ TypeOK
  /\ WatcherIsListed
  /\ OneActive
  /\ RunsItsSpec
  /\ EditsAreNew
  /\ HasItsData
  /\ Told

LEMMA InitIInv ==
  ASSUME Init
  PROVE  IInv
<1>1. TypeOK /\ WatcherIsListed
  BY InitTypes
<1>2. /\ \A d \in Deploys : thread[d].at = "idle" /\ ~thread[d].owes
      /\ \A p \in Patches : patch[p].at = "idle"
  BY DEF Init, NoThread, NoPatch
<1>3. ea.phase = "Pending" /\ ea.here = "live" /\ raPhase = "Pending" /\ pushes = <<>>
  BY DEF Init
<1>4. OneActive
  BY <1>2 DEF OneActive, Working, Uncancelled
<1>5. RunsItsSpec
  BY <1>2, <1>3 DEF RunsItsSpec, Uncancelled, Working
<1>6. EditsAreNew
  <2>1. \A v \in Volumes : ea.data[v] = 1 /\ seen.data[v] = 0 /\ edits = 1
    BY DEF Init, NoData
  <2> QED
    BY <1>2, <2>1 DEF EditsAreNew
<1>7. HasItsData
  BY <1>2, <1>3 DEF HasItsData, Uncancelled, Working
<1>8. Told
  BY <1>3 DEF Told, Last
<1> QED
  BY <1>1, <1>4, <1>5, <1>6, <1>7, <1>8 DEF IInv

\* The invariant holds in every behaviour.
LEMMA IInvHolds == Spec => []IInv
<1>1. Init => IInv
  BY InitIInv
<1>2. ASSUME IInv, [Next]_vars
      PROVE  IInv'
  <2>1. TypeOK' /\ WatcherIsListed'
    BY <1>2, TypeOKStep, WatcherIsListedStep DEF IInv
  <2>2. OneActive'
    BY <1>2, OneActiveStep DEF IInv
  <2>3. RunsItsSpec' /\ EditsAreNew'
    BY <1>2, <2>2, RunsItsSpecStep, EditsAreNewStep DEF IInv
  <2>4. HasItsData' /\ Told'
    BY <1>2, <2>2, HasItsDataStep, ToldStep DEF IInv
  <2> QED
    BY <2>1, <2>2, <2>3, <2>4 DEF IInv
<1> QED
  BY <1>1, <1>2, PTL DEF Spec

\* Every reachable state of the executing cluster has its types.
THEOREM ExecutorTypes == Spec => []TypeOK
<1>1. IInv => TypeOK
  BY DEF IInv
<1> QED
  BY <1>1, IInvHolds, PTL

\* Two deploys that nobody has told to stop never run side by side, unless a
\* finished deploy took the newer one's event out of the table.
THEOREM AtMostOneWatcher == Spec => []OneWatcher
<1>1. IInv => OneWatcher
  BY DEF IInv, WatcherIsListed, OneWatcher
<1> QED
  BY <1>1, IInvHolds, PTL

\* When all is quiet and the CR says Ready the Deployment is that of its spec,
\* however edits, deploys and their cancelling interleave.
THEOREM ReadyIsDeployed == Spec => []ReadyRunsTheSpec
<1>1. ASSUME IInv, Settled, ea.here = "live", ea.phase = "Ready", why \cap {"overlap", "crash", "api"} = {}
      PROVE  deployment = ea.image
  <2>1. deployment = seen.image
    BY <1>1 DEF IInv, RunsItsSpec, Undisturbed, Settled, Uncancelled
  <2> QED
    BY <1>1, <2>1 DEF Settled, SpecOf
<1>2. IInv => ReadyRunsTheSpec
  BY <1>1 DEF ReadyRunsTheSpec
<1> QED
  BY <1>2, IInvHolds, PTL

\* Then the ConfigMaps and Secrets hold the data of the spec as well, however
\* config patches come between.
THEOREM ReadyIsConfigured == Spec => []ReadyHasTheData
<1>1. ASSUME IInv, Settled, ea.here = "live", ea.phase = "Ready",
             why \cap {"overlap", "crash", "api", "lost-update", "half-patch"} = {}
      PROVE  \A v \in Volumes : ea.data[v] # 0 => live[v] = ea.data[v]
  <2>1. \A v \in Volumes : Fits(v)
    BY <1>1 DEF IInv, HasItsData, Whole, Settled, Uncancelled
  <2>2. seen.data = ea.data
    BY <1>1 DEF Settled, SpecOf
  <2>3. \A v \in Volumes : ~Patching(v)
    BY <1>1 DEF Settled, Patching, NoPatch
  <2> QED
    BY <2>1, <2>2, <2>3 DEF Fits
<1>2. IInv => ReadyHasTheData
  BY <1>1 DEF ReadyHasTheData
<1> QED
  BY <1>2, IInvHolds, PTL

\* Once all that was said has arrived, in order and without a loss, and has been
\* written (channel_handlers.py 99), the submitting side shows the status of the
\* executing side, or Deleted.
THEOREM StatusArrives == Spec => []PeerSeesThePhase
<1>1. ASSUME IInv, Settled, why \cap {"overlap", "crash", "api", "lost-push", "reordered", "unwritten"} = {}
      PROVE  raPhase = IF ea.here = "gone" THEN "Deleted" ELSE ea.phase
  BY <1>1 DEF IInv, Told, Last, Settled
<1>2. IInv => PeerSeesThePhase
  BY <1>1 DEF PeerSeesThePhase
<1> QED
  BY <1>2, IInvHolds, PTL
=============================================================================
