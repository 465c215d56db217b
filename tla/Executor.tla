------------------------------ MODULE Executor -------------------------------
(***************************************************************************)
(* Running one workload on the executing cluster: src/porpulsion/k8s/      *)
(* executor.py with the kopf handlers of its ExecutingApp, the config      *)
(* patches, and the status pushes as the submitting side applies them.     *)
(*                                                                         *)
(* kopf runs the handlers of one object one at a time, but a handler only  *)
(* starts a deploy thread and returns; the deploys of successive specs run *)
(* side by side and look at their stop event in the poll loop alone.  An   *)
(* edit is abstracted to its number; 0 is "no data" and "no deployment".   *)
(*                                                                         *)
(* `why` collects the reasons the properties except.  X_Slip is X with a   *)
(* slip a later edit could make; no behaviour has it.                      *)
(***************************************************************************)
EXTENDS Naturals, Sequences, FiniteSets

CONSTANTS
  Deploys,       (* the deploy threads that may run at once *)
  Patches,       (* the config patches that may do so       *)
  Volumes,       (* the ConfigMaps, or the Secrets          *)
  MaxEdits       (* bound on the edits of the spec          *)

ASSUME ExecutorAssumption ==
  /\ MaxEdits \in Nat \ {0}
  /\ "none" \notin Deploys \union Volumes

VARIABLES
  ea,          (* the ExecutingApp: its state, spec and status.phase         *)
  seen,        (* the spec kopf has handled                                  *)
  edits,       (* edits of the spec so far                                   *)
  thread,      (* the deploy threads: where each is, the spec it deploys, the *)
               (* status it reports, whether it has yet to tell, its event    *)
  stopEvent,   (* the thread whose event is in _stop_events                   *)
  deployment,  (* the edit the Deployment comes from                         *)
  live,        (* the edit the content of each ConfigMap or Secret is from   *)
  patch,       (* the config patches: where each is, its volume, its data    *)
               (* and the list it has read                                   *)
  pushes,      (* remoteapp/status frames on their way                       *)
  raPhase,     (* status.phase of the RemoteApp on the submitting side       *)
  why          (* history: what has gone wrong                               *)

cluster == <<deployment, live>>
threads == <<thread, stopEvent>>
peer    == <<pushes, raPhase>>
vars == <<ea, seen, edits, threads, cluster, patch, peer, why>>

Phases  == {"Pending", "Creating", "Updating", "Running", "Ready", "Timeout", "Failed"}
Places  == {"idle", "check", "configs", "prepare", "deploy", "service", "watch", "poll", "pop", "over"}
Data    == [Volumes -> 0..MaxEdits]
Specs   == [image : 1..MaxEdits, data : Data]
Reasons == {"overlap", "stolen", "crash", "api", "lost-update", "half-patch",
            "lost-push", "reordered", "unwritten"}

NoData  == [v \in Volumes |-> 0]
SpecOf(cr) == [image |-> cr.image, data |-> cr.data]

NoThread == [at |-> "idle", spec |-> [image |-> 1, data |-> NoData], says |-> "Pending",
             owes |-> FALSE, cancelled |-> FALSE]
NoPatch  == [at |-> "idle", vol |-> "none", data |-> 0, list |-> NoData]

Working(d) == thread[d].at # "idle"
\* Where a cancelled thread stops without another write.
Waiting(d) == thread[d].at = "watch" /\ ~thread[d].owes

Settled ==
  /\ \A d \in Deploys : ~Working(d)
  /\ \A p \in Patches : patch[p] = NoPatch
  /\ pushes = <<>>
  /\ ea.here = "gone" \/ (ea.here = "live" /\ seen = SpecOf(ea))

TypeOK ==
  /\ ea \in [here : {"live", "deleting", "gone"}, image : 1..MaxEdits, data : Data, phase : Phases]
  /\ seen \in [image : 0..MaxEdits, data : Data]
  /\ edits \in 1..MaxEdits
  /\ thread \in [Deploys -> [at : Places, spec : Specs, says : Phases,
                            owes : BOOLEAN, cancelled : BOOLEAN]]
  /\ stopEvent \in Deploys \union {"none"}
  /\ deployment \in 0..MaxEdits
  /\ live \in Data
  /\ patch \in [Patches -> [at : {"idle", "written", "read"}, vol : Volumes \union {"none"},
                           data : 0..MaxEdits, list : Data]]
  /\ pushes \in Seq(Phases \union {"Deleted"})
  /\ raPhase \in Phases \union {"Deleted"}
  /\ why \subseteq Reasons

\* The ExecutingApp of edit 1 has just been created, with its status.
Init ==
  /\ ea = [here |-> "live", image |-> 1, data |-> [v \in Volumes |-> 1], phase |-> "Pending"]
  /\ seen = [image |-> 0, data |-> NoData] /\ edits = 1
  /\ thread = [d \in Deploys |-> NoThread] /\ stopEvent = "none"
  /\ deployment = 0 /\ live = NoData
  /\ patch = [p \in Patches |-> NoPatch]
  /\ pushes = <<>> /\ raPhase = "Pending"
  /\ why = {}

-----------------------------------------------------------------------------
(* The ExecutingApp and kopf.                                              *)

\* remoteapp/spec-update: patch_executingapp_spec overwrites the whole spec,
\* the volumes' data with what the submitting side has or with none.
SpecUpdate ==
  /\ ea.here = "live" /\ edits < MaxEdits
  /\ edits' = edits + 1
  /\ \E given \in {0, edits + 1} :
       ea' = [ea EXCEPT !.image = edits + 1, !.data = [v \in Volumes |-> given]]
  /\ UNCHANGED <<seen, threads, cluster, patch, peer, why>>

Overlap == IF \E e \in Deploys : Working(e) /\ ~Waiting(e) THEN {"overlap"} ELSE {}

\* existing.set()
Cancel(d) == IF d \in Deploys /\ Working(d) THEN [thread EXCEPT ![d].cancelled = TRUE] ELSE thread

Begin(d, others) ==
  /\ ea.here = "live" /\ seen # SpecOf(ea)
  /\ ~Working(d)
  /\ seen' = SpecOf(ea)
  /\ thread' = [others EXCEPT ![d] = [NoThread EXCEPT !.at = "check", !.spec = SpecOf(ea)]]
  /\ stopEvent' = d
  /\ why' = why \union Overlap
  /\ UNCHANGED <<ea, edits, cluster, patch, peer>>

\* The new thread's event takes the place of the older one, left unset.
StartDeploy_Slip(d) == Begin(d, thread)

\* kopf sees a spec it has not handled: run_workload sets the stop event of the
\* deploy before and starts a thread.
StartDeploy(d) == Begin(d, Cancel(stopEvent))

\* The CR is deleted, by the submitting side or on this cluster.
DeleteEA ==
  /\ ea.here = "live"
  /\ ea' = [ea EXCEPT !.here = "deleting"]
  /\ UNCHANGED <<seen, edits, threads, cluster, patch, peer, why>>

Bury(others) ==
  /\ ea.here = "deleting"
  /\ ea' = [ea EXCEPT !.here = "gone"]
  /\ thread' = others
  /\ stopEvent' = "none"
  /\ \/ pushes' = Append(pushes, "Deleted") /\ why' = why \union Overlap
     \/ UNCHANGED pushes /\ why' = why \union Overlap \union {"lost-push"}
  /\ UNCHANGED <<seen, edits, cluster, patch, raPhase>>

\* The event is taken out of the table and never set.
OnDeleted_Slip == Bury(thread)

\* kopf runs the delete handler, which cancels the deploy and tells the
\* submitting side once, then lets the CR go.
OnDeleted == Bury(Cancel(stopEvent))

\* Kubernetes collects what the ExecutingApp owned.
Collect ==
  /\ ea.here = "gone" /\ (deployment # 0 \/ live # NoData)
  /\ deployment' = 0 /\ live' = NoData
  /\ UNCHANGED <<ea, seen, edits, threads, patch, peer, why>>

-----------------------------------------------------------------------------
(* A deploy thread.                                                        *)

\* _report_status: the thread goes on at `next` once it has told.
Report(d, phase, next) ==
  thread' = [thread EXCEPT ![d].at = next, ![d].says = phase, ![d].owes = TRUE]

Moves(d, next) == thread' = [thread EXCEPT ![d].at = next]
Ends(d)        == thread' = [thread EXCEPT ![d] = NoThread]
Runs(d, place) == thread[d].at = place /\ ~thread[d].owes

Tells(d) ==
  /\ thread[d].owes
  /\ IF thread[d].at = "over" THEN Ends(d) ELSE thread' = [thread EXCEPT ![d].owes = FALSE]
  /\ UNCHANGED <<seen, edits, stopEvent, cluster, patch, raPhase>>

\* The status of the CR, best effort (an error is logged), then the push, which
\* succeeds in one of three attempts or is given up.
Tell(d) ==
  /\ Tells(d)
  /\ \E patched, pushed \in BOOLEAN :
       /\ ea' = [ea EXCEPT !.phase = IF patched /\ ea.here # "gone" THEN thread[d].says ELSE @]
       /\ pushes' = IF pushed THEN Append(pushes, thread[d].says) ELSE pushes
       /\ why' = why \union (IF patched THEN {} ELSE {"api"})
                     \union (IF pushed THEN {} ELSE {"lost-push"})

\* Is there a Deployment already?  Any error counts as "no".
ReadDeployment(d) ==
  /\ Runs(d, "check")
  /\ \E phase \in {"Creating"} \union (IF deployment = 0 THEN {} ELSE {"Updating"}) :
       Report(d, phase, "configs")
  /\ UNCHANGED <<ea, seen, edits, stopEvent, cluster, patch, peer, why>>

\* _apply_configmap_by_name, _apply_secret_by_name: a volume without data in the
\* spec keeps the content it has.
Applied(data, some) == [v \in Volumes |-> IF v \in some /\ data[v] # 0 THEN data[v] ELSE live[v]]

\* All volumes, or some of them before one fails.
ApplyConfigs(d) ==
  /\ Runs(d, "configs")
  /\ \/ live' = Applied(thread[d].spec.data, Volumes) /\ Moves(d, "prepare")
     \/ \E some \in SUBSET Volumes :
          some # Volumes /\ live' = Applied(thread[d].spec.data, some) /\ Report(d, "Failed", "over")
  /\ UNCHANGED <<ea, seen, edits, stopEvent, deployment, patch, peer, why>>

\* The PVCs against their quotas, the PVCs themselves, and a look for each image
\* pull secret; the rest is put together in memory.
Prepare(d) ==
  /\ Runs(d, "prepare")
  /\ Moves(d, "deploy") \/ Report(d, "Failed", "over")
  /\ UNCHANGED <<ea, seen, edits, stopEvent, cluster, patch, peer, why>>

PutDeployment_Slip(d) ==
  /\ Runs(d, "deploy")
  /\ Moves(d, "service")
  /\ deployment' = IF deployment = 0 THEN thread[d].spec.image ELSE deployment
  /\ UNCHANGED <<ea, seen, edits, stopEvent, live, patch, peer, why>>

\* Created, or replaced after a 409.  A failed create is reported; a failed
\* replace raises out of the except clause and ends the thread in silence.
PutDeployment(d) ==
  /\ Runs(d, "deploy")
  /\ \/ deployment' = thread[d].spec.image /\ Moves(d, "service")
     \/ UNCHANGED deployment /\ Report(d, "Failed", "over")
     \/ deployment # 0 /\ UNCHANGED deployment /\ Ends(d)
  /\ UNCHANGED <<ea, seen, edits, stopEvent, live, patch, peer, why>>

\* The service, likewise.
PutService(d) ==
  /\ Runs(d, "service")
  /\ Report(d, "Running", "watch") \/ Report(d, "Failed", "over") \/ Ends(d)
  /\ UNCHANGED <<ea, seen, edits, stopEvent, cluster, patch, peer, why>>

\* The stop event is looked at before each of the 150 polls.
Watch(d) ==
  /\ Runs(d, "watch")
  /\ IF thread[d].cancelled THEN Ends(d) ELSE Moves(d, "poll")
  /\ UNCHANGED <<ea, seen, edits, stopEvent, cluster, patch, peer, why>>

Poll_Slip(d) ==
  /\ Runs(d, "poll")
  /\ \/ deployment # 0 /\ Report(d, "Ready", "pop")
     \/ Moves(d, "watch")
     \/ Report(d, "TimedOut", "pop")   \* a word the other side does not know
  /\ UNCHANGED <<ea, seen, edits, stopEvent, cluster, patch, peer, why>>

\* Ready, not yet, or no more polls.
Poll(d) ==
  /\ Runs(d, "poll")
  /\ \/ deployment # 0 /\ Report(d, "Ready", "pop")
     \/ Moves(d, "watch")
     \/ Report(d, "Timeout", "pop")
  /\ UNCHANGED <<ea, seen, edits, stopEvent, cluster, patch, peer, why>>

\* _stop_events.pop(id): whichever event is there, a newer deploy's too.
Pop(d) ==
  /\ Runs(d, "pop")
  /\ Ends(d)
  /\ stopEvent' = "none"
  /\ why' = why \union (IF stopEvent \in Deploys \ {d} /\ Working(stopEvent) THEN {"stolen"} ELSE {})
  /\ UNCHANGED <<ea, seen, edits, cluster, patch, peer>>

-----------------------------------------------------------------------------
(* Config patches, from the dashboard here or through remoteapp/config-patch. *)

\* patch_configmap_data, patch_secret_data: the live object first, which a
\* deploy must have made.
PatchLive(p) ==
  /\ patch[p].at = "idle" /\ ea.here = "live" /\ edits < MaxEdits
  /\ \E v \in Volumes :
       /\ deployment # 0 \/ live[v] # 0
       /\ live' = [live EXCEPT ![v] = edits + 1]
       /\ patch' = [patch EXCEPT ![p].at = "written", ![p].vol = v, ![p].data = edits + 1]
  /\ edits' = edits + 1
  /\ UNCHANGED <<ea, seen, threads, deployment, peer, why>>

\* patch_cr_volume_data reads the CR's list of volumes ...
PatchRead(p) ==
  /\ patch[p].at = "written"
  /\ patch' = [patch EXCEPT ![p] = IF ea.here = "gone" THEN NoPatch
                                  ELSE [@ EXCEPT !.at = "read", !.list = ea.data]]
  /\ UNCHANGED <<ea, seen, edits, threads, cluster, peer, why>>

Merged(p) == [patch[p].list EXCEPT ![patch[p].vol] = patch[p].data]

PatchWrite_Slip(p) ==
  /\ patch[p].at = "read"
  /\ patch' = [patch EXCEPT ![p] = NoPatch]
  /\ UNCHANGED <<ea, seen, edits, threads, cluster, peer, why>>

\* ... and writes the whole list back with its entry changed, which loses what
\* was written in between; an error, here or at the read, is logged and the
\* request succeeds.
PatchWrite(p) ==
  /\ patch[p].at = "read"
  /\ patch' = [patch EXCEPT ![p] = NoPatch]
  /\ \/ /\ ea' = [ea EXCEPT !.data = Merged(p)]
        /\ why' = why \union (IF ea.data # patch[p].list THEN {"lost-update"} ELSE {})
     \/ UNCHANGED ea /\ why' = why \union {"half-patch"}
  /\ UNCHANGED <<seen, edits, threads, cluster, peer>>

-----------------------------------------------------------------------------
(* The submitting side, and failures.                                      *)

Without(s, i) == SubSeq(s, 1, i - 1) \o SubSeq(s, i + 1, Len(s))

\* handle_remoteapp_status, run by any of the eight workers of the channel.  When
\* the list of RemoteApps cannot be had the workload counts as unknown, and when
\* the patch of its status fails that is logged: either way the push is spent.
HandleStatus ==
  \E i \in 1..Len(pushes) :
    /\ pushes' = Without(pushes, i)
    /\ \/ /\ raPhase' = pushes[i]
          /\ why' = why \union (IF i # 1 THEN {"reordered"} ELSE {})
       \/ UNCHANGED raPhase /\ why' = why \union {"unwritten"}
    /\ UNCHANGED <<ea, seen, edits, threads, cluster, patch>>

\* The connection breaks with a frame on it.
LosePush ==
  \E i \in 1..Len(pushes) :
    /\ pushes' = Without(pushes, i)
    /\ why' = why \union {"lost-push"}
    /\ UNCHANGED <<ea, seen, edits, threads, cluster, patch, raPhase>>

\* The agent restarts: threads, events and requests are gone, and kopf does not
\* run a handler again that had returned.
Restart ==
  /\ thread' = [d \in Deploys |-> NoThread] /\ stopEvent' = "none"
  /\ patch' = [p \in Patches |-> NoPatch]
  /\ pushes' = <<>>
  /\ why' = why \union (IF \E d \in Deploys : Working(d) THEN {"crash"} ELSE {})
                \union (IF \E p \in Patches : patch[p] # NoPatch THEN {"half-patch"} ELSE {})
                \union (IF pushes # <<>> THEN {"lost-push"} ELSE {})
  /\ UNCHANGED <<ea, seen, edits, cluster, raPhase>>

Next ==
  \/ SpecUpdate \/ DeleteEA \/ OnDeleted \/ Collect
  \/ \E d \in Deploys :
       \/ StartDeploy(d) \/ Tell(d)
       \/ ReadDeployment(d) \/ ApplyConfigs(d)
       \/ Prepare(d) \/ PutDeployment(d) \/ PutService(d) \/ Watch(d) \/ Poll(d) \/ Pop(d)
  \/ \E p \in Patches : PatchLive(p) \/ PatchRead(p) \/ PatchWrite(p)
  \/ HandleStatus \/ LosePush \/ Restart

Spec == Init /\ [][Next]_vars

-----------------------------------------------------------------------------
(* Properties.                                                             *)

\* Two deploys that nobody has told to stop never run side by side, unless a
\* finished deploy took the newer one's event out of _stop_events: the older
\* watcher would report Ready or Timeout for a spec that is no longer deployed.
OneWatcher ==
  "stolen" \notin why =>
    \A d, e \in Deploys :
      Working(d) /\ Working(e) /\ ~thread[d].cancelled /\ ~thread[e].cancelled => d = e

\* When all is quiet and the CR says Ready, the cluster runs the image of its
\* spec, unless a deploy began while an older one was still writing, the agent
\* restarted under one, or a status patch failed.
ReadyRunsTheSpec ==
  Settled /\ ea.here = "live" /\ ea.phase = "Ready" /\ why \cap {"overlap", "crash", "api"} = {}
    => deployment = ea.image

\* Likewise the ConfigMaps and Secrets hold the data of the spec, where it has
\* any, however config patches and deploys interleave, unless two edits of the
\* list met (lost update) or a patch stopped half way.
ReadyHasTheData ==
  Settled /\ ea.here = "live" /\ ea.phase = "Ready"
          /\ why \cap {"overlap", "crash", "api", "lost-update", "half-patch"} = {}
    => \A v \in Volumes : ea.data[v] # 0 => live[v] = ea.data[v]

\* The submitting side ends up with the status of the executing side, and with
\* Deleted after a delete, unless a push was lost, handled out of order or not
\* written by the submitting side, a status patch of the executing side failed,
\* the agent restarted under a deploy, or two deploys reported at once.
PeerSeesThePhase ==
  Settled /\ why \cap {"overlap", "crash", "api", "lost-push", "reordered", "unwritten"} = {}
    => raPhase = IF ea.here = "gone" THEN "Deleted" ELSE ea.phase
=============================================================================
