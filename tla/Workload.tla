------------------------------ MODULE Workload -------------------------------
(***************************************************************************)
(* The life of remote workloads between two clusters.                      *)
(*                                                                         *)
(* Submitting side: RemoteApp CRs and their kopf handlers (k8s/            *)
(* kopf_handlers.py), which forward by call() and are tried again on error. *)
(* Executing side: the remoteapp handlers of channel_handlers.py, the quota *)
(* and the approval queue of routes/workloads.py, ExecutingApp CRs (k8s/   *)
(* store.py), and the state ConfigMap of tls.py that keeps the queue.      *)
(*                                                                         *)
(* The channel is abstracted to what RequestReply promises: a call returns *)
(* the answer or raises, and a request whose caller has given up may still *)
(* be handled, once.  A spec is its number, which is also its replicas.    *)
(*                                                                         *)
(* `why` collects the reasons the properties except.  X_Slip is X with a   *)
(* slip a later edit could make; no behaviour has it.                      *)
(***************************************************************************)
EXTENDS Naturals, Sequences, FiniteSets

CONSTANTS
  Apps,          (* the RemoteApps of a behaviour             *)
  MaxSpec,       (* bound on the edits of one spec            *)
  MaxDeploys,    (* settings.max_total_deployments, 0 for none *)
  MaxPods,       (* settings.max_total_pods, 0 for none       *)
  MaxGiveUps     (* bound on the calls that time out          *)

ASSUME WorkloadAssumption ==
  /\ IsFiniteSet(Apps)
  /\ MaxSpec \in Nat \ {0} /\ MaxGiveUps \in Nat
  /\ MaxDeploys \in Nat \ {0} /\ MaxPods \in Nat \ {0}   \* both limits are set

VARIABLES
  ra,         (* the RemoteApps: state, spec, status.phase and the spec kopf *)
              (* has handled, 0 while the create handler is not over         *)
  reqs,       (* calls being made, and the approvals being carried out       *)
  approval,   (* settings.require_remoteapp_approval                         *)
  ea,         (* the ExecutingApps: "bare" has no status.appId yet           *)
  pending,    (* state.pending_approval: the spec, 0 for none                *)
  cm,         (* the queue in the state ConfigMap                            *)
  writers,    (* the queues that _write threads have yet to persist          *)
  giveUps,    (* calls given up so far                                       *)
  why         (* history: what has gone wrong                                *)

vars == <<ra, reqs, approval, ea, pending, cm, writers, giveUps, why>>

Kinds   == {"receive", "update", "delete", "approve"}
Queues  == [Apps -> 0..MaxSpec]
Reasons == {"late", "repeated", "queued", "overlap", "no-room", "timed-out", "crash",
            "overtaken", "forgotten", "api", "lost-push", "raced", "unsaved", "kept", "blind"}
Request == [app : Apps, kind : Kinds, spec : 1..MaxSpec,
            at : {"wire", "admitted", "status"}, waited : BOOLEAN]

TypeOK ==
  /\ ra \in [Apps -> [here : {"absent", "live", "deleting", "gone"}, spec : 1..MaxSpec,
                      phase : {"Pending", "Failed", "Rejected", "Deleted"}, handled : 0..MaxSpec]]
  /\ reqs \subseteq Request
  /\ approval \in BOOLEAN
  /\ ea \in [Apps -> [here : {"absent", "bare", "live"}, spec : 1..MaxSpec, timeout : BOOLEAN]]
  /\ pending \in Queues /\ cm \in Queues
  /\ writers \in Seq(Queues)
  /\ giveUps \in 0..MaxGiveUps
  /\ why \subseteq Reasons

NoEA  == [here |-> "absent", spec |-> 1, timeout |-> FALSE]
Empty == [a \in Apps |-> 0]

Init ==
  /\ ra = [a \in Apps |-> [here |-> "absent", spec |-> 1, phase |-> "Pending", handled |-> 0]]
  /\ reqs = {} /\ approval \in BOOLEAN
  /\ ea = [a \in Apps |-> NoEA]
  /\ pending = Empty /\ cm = Empty /\ writers = <<>>
  /\ giveUps = 0 /\ why = {}

Exists(a)  == ea[a].here # "absent"
Calling(a) == \E r \in reqs : r.app = a /\ r.waited
\* In the approval queue, or out of it and about to be created.
Queued(a)  == pending[a] # 0 \/ \E r \in reqs : r.app = a /\ r.kind = "approve"

-----------------------------------------------------------------------------
(* _check_resource_quota.                                                  *)

Active  == {a \in Apps : Exists(a) /\ ~ea[a].timeout}
\* The pods of some applications, numbered in each of them.
Pods(S) == {p \in S \X (1..MaxSpec) : p[2] <= ea[p[1]].spec}

\* The application itself is counted when it is received again or updated.
Quota(spec, listed) ==
  IF Cardinality(listed) >= MaxDeploys THEN "limit"
  ELSE IF Cardinality(Pods(listed)) + spec > MaxPods THEN "capacity"
  ELSE "fits"

\* list_executingapp_crs: what is there, or nothing when the API server fails.
Listed == {Active, {}}

-----------------------------------------------------------------------------
(* The submitting side.                                                    *)

\* POST /remoteapp, once the name is free and a peer is found.
Submit(a) ==
  /\ ra[a].here = "absent"
  /\ ra' = [ra EXCEPT ![a].here = "live"]
  /\ UNCHANGED <<reqs, approval, ea, pending, cm, writers, giveUps, why>>

\* PUT /remoteapp/<id>/spec, or a new replica count.
EditSpec(a) ==
  /\ ra[a].here = "live" /\ ra[a].spec < MaxSpec
  /\ ra' = [ra EXCEPT ![a].spec = @ + 1]
  /\ UNCHANGED <<reqs, approval, ea, pending, cm, writers, giveUps, why>>

Delete(a) ==
  /\ ra[a].here = "live"
  /\ ra' = [ra EXCEPT ![a].here = "deleting"]
  /\ UNCHANGED <<reqs, approval, ea, pending, cm, writers, giveUps, why>>

\* What kopf has to do for a CR; its handlers run one at a time.
Due(a) ==
  CASE ra[a].here = "deleting" -> "delete"
    [] ra[a].here = "live" /\ ra[a].handled = 0 -> "receive"
    [] ra[a].here = "live" /\ ra[a].handled \notin {0, ra[a].spec} -> "update"
    [] OTHER -> "nothing"

\* A handler runs, for the first time or again after a TemporaryError.
Forward(a) ==
  /\ Due(a) # "nothing" /\ ~Calling(a)
  /\ reqs' = reqs \union {[app |-> a, kind |-> Due(a), spec |-> ra[a].spec,
                           at |-> "wire", waited |-> TRUE]}
  /\ UNCHANGED <<ra, approval, ea, pending, cm, writers, giveUps, why>>

\* A workload that is refused although an earlier call has brought it here.
Repeated(a) == IF Exists(a) \/ Queued(a) THEN {"repeated"} ELSE {}

\* The peer has turned incoming-only: the create handler fails for good, whether
\* _patch_status could write the phase or only log an error.
CannotDeploy(a) ==
  /\ Due(a) = "receive" /\ ~Calling(a)
  /\ \/ /\ ra' = [ra EXCEPT ![a].phase = "Failed", ![a].handled = ra[a].spec]
        /\ why' = why \union Repeated(a)
     \/ /\ ra' = [ra EXCEPT ![a].handled = ra[a].spec]
        /\ why' = why \union Repeated(a) \union {"api"}
  /\ UNCHANGED <<reqs, approval, ea, pending, cm, writers, giveUps>>

\* call() raises: a timeout, a broken connection or a restart of the agent, and
\* the peer still has the request.
GiveUp(r) ==
  /\ r.waited /\ giveUps < MaxGiveUps
  /\ giveUps' = giveUps + 1
  /\ reqs' = (reqs \ {r}) \union {[r EXCEPT !.waited = FALSE]}
  /\ UNCHANGED <<ra, approval, ea, pending, cm, writers, why>>

\* The request is lost with the connection.
Lose(r) ==
  /\ r.at = "wire"
  /\ reqs' = reqs \ {r}
  /\ UNCHANGED <<ra, approval, ea, pending, cm, writers, giveUps, why>>

After_Slip(r, answer) ==
  LET a == r.app IN
  IF ~r.waited THEN ra
  ELSE CASE answer = "ok" /\ r.kind = "delete" -> [ra EXCEPT ![a].here = "gone"]
         [] answer = "ok" /\ r.kind # "delete" -> [ra EXCEPT ![a].handled = r.spec]
         [] answer = "refused" -> [ra EXCEPT ![a].handled = r.spec, ![a].phase = "Failed"]
         [] OTHER -> ra

\* What the handler does with the answer: done, refused in one of the phrases it
\* knows (a PermanentError; "unwritten" when its phase could not be patched), or an
\* error it tries again after.
After(r, answer) ==
  LET a == r.app IN
  IF ~r.waited THEN ra
  ELSE CASE answer = "ok" /\ r.kind = "delete" -> [ra EXCEPT ![a].here = "gone"]
         [] answer = "ok" /\ r.kind # "delete" -> [ra EXCEPT ![a].handled = r.spec]
         [] answer = "refused" /\ r.kind = "receive" ->
              [ra EXCEPT ![a].handled = r.spec, ![a].phase = "Failed"]
         [] answer = "unwritten" -> [ra EXCEPT ![a].handled = r.spec]
         [] OTHER -> ra

Answer(r, answer) == ra' = After(r, answer) /\ reqs' = reqs \ {r}

\* A status push reaches the RemoteApp, or is lost, or handled without effect.
Push(a, phase) ==
  \/ /\ ra' = [ra EXCEPT ![a].phase = IF ra[a].here \in {"absent", "gone"} THEN @ ELSE phase]
     /\ UNCHANGED why
  \/ UNCHANGED ra /\ why' = why \union {"lost-push"}

-----------------------------------------------------------------------------
(* The executing side: remoteapp/receive and remoteapp/spec-update.        *)

Goes(r, place) == reqs' = (reqs \ {r}) \union {[r EXCEPT !.at = place]} /\ UNCHANGED ra

Refuse(r, listed) ==
  LET repeated == IF r.kind = "receive" THEN Repeated(r.app) ELSE {} IN
  \/ Quota(r.spec, listed) = "capacity" /\ Answer(r, "refused") /\ why' = why \union repeated
  \/ /\ Quota(r.spec, listed) = "capacity" /\ r.kind = "receive" /\ r.waited
     /\ Answer(r, "unwritten") /\ why' = why \union repeated \union {"api"}
  \/ /\ Quota(r.spec, listed) = "limit"   \* not among the phrases
     /\ Answer(r, "error") /\ why' = why \union repeated

Pass(r, listed) ==
  /\ Quota(r.spec, listed) = "fits"
  /\ Goes(r, "admitted")
  /\ why' = why \union (IF \E q \in reqs : q.at = "admitted" THEN {"overlap"} ELSE {})
                \union (IF Quota(r.spec, Active) # "fits" THEN {"blind"} ELSE {})

Admission(r) == \E listed \in Listed : Refuse(r, listed) \/ Pass(r, listed)

Admit_Slip(r) ==
  /\ r.at = "wire" /\ r.kind \in {"receive", "update"}
  /\ Goes(r, "admitted")
  /\ why' = why \union (IF \E q \in reqs : q.at = "admitted" THEN {"overlap"} ELSE {})
  /\ UNCHANGED <<approval, ea, pending, cm, writers, giveUps>>

\* The checks of handle_remoteapp_receive and handle_remoteapp_spec_update; an
\* update finds no ExecutingApp while it waits for approval, or when the API server
\* fails.
Admit(r) ==
  /\ r.at = "wire" /\ r.kind \in {"receive", "update"}
  /\ \/ r.kind = "update" /\ Answer(r, "error") /\ UNCHANGED why
     \/ (r.kind = "update" => Exists(r.app)) /\ Admission(r)
  /\ UNCHANGED <<approval, ea, pending, cm, writers, giveUps>>

\* Handled after its caller gave up, and called again or got over it.
Late(r) ==
  /\ ~r.waited /\ r.kind # "approve"
  /\ ra[r.app].here # "live" \/ ra[r.app].handled # 0 \/ Calling(r.app)

Queue_Slip(r) ==
  /\ r.at = "admitted" /\ r.kind = "receive" /\ approval
  /\ pending' = [pending EXCEPT ![r.app] = r.spec]
  /\ Answer(r, "ok")
  /\ why' = why \union (IF Late(r) THEN {"late"} ELSE {})
  /\ UNCHANGED <<approval, ea, cm, writers, giveUps>>

\* Approval is required: the entry is queued and the queue is saved.
Queue(r) ==
  /\ r.at = "admitted" /\ r.kind = "receive" /\ approval
  /\ pending' = [pending EXCEPT ![r.app] = r.spec]
  /\ writers' = Append(writers, pending')
  /\ Answer(r, "ok")
  /\ why' = why \union (IF Late(r) THEN {"late"} ELSE {})
  /\ UNCHANGED <<approval, ea, cm, giveUps>>

\* create_executingapp_cr, whose result nobody looks at: created, its status to
\* be written by a second request; there already, its spec replaced; or failed.
Create(r) ==
  /\ r.at = "admitted"
  /\ r.kind = "approve" \/ (r.kind = "receive" /\ ~approval)
  /\ \/ /\ ~Exists(r.app)
        /\ ea' = [ea EXCEPT ![r.app] = [NoEA EXCEPT !.here = "bare", !.spec = r.spec]]
        /\ Goes(r, "status")
        /\ why' = why \union (IF Late(r) THEN {"late"} ELSE {})
     \/ /\ Exists(r.app)
        /\ ea' = [ea EXCEPT ![r.app].spec = r.spec, ![r.app].timeout = FALSE]
        /\ Answer(r, "ok")
        /\ why' = why \union (IF Late(r) THEN {"late"} ELSE {})
     \/ UNCHANGED ea /\ Answer(r, "ok") /\ why' = why \union {"api"}
  /\ UNCHANGED <<approval, pending, cm, writers, giveUps>>

WriteStatus_Slip(r) ==
  /\ r.at = "status"
  /\ Answer(r, "ok")
  /\ UNCHANGED <<approval, ea, pending, cm, writers, giveUps, why>>

\* The second request; until then kopf retries the ExecutingApp every second.
WriteStatus(r) ==
  /\ r.at = "status"
  /\ Answer(r, "ok")
  /\ \/ ea' = [ea EXCEPT ![r.app].here = IF @ = "bare" THEN "live" ELSE @] /\ UNCHANGED why
     \/ UNCHANGED ea /\ why' = why \union {"api"}
  /\ UNCHANGED <<approval, pending, cm, writers, giveUps>>

Patch_Slip(r) ==
  /\ r.at = "admitted" /\ r.kind = "update"
  /\ Answer(r, "ok")
  /\ UNCHANGED <<approval, ea, pending, cm, writers, giveUps, why>>

\* patch_executingapp_spec; a failure is logged and the answer is ok.
Patch(r) ==
  /\ r.at = "admitted" /\ r.kind = "update"
  /\ Answer(r, "ok")
  /\ \/ /\ ea' = [ea EXCEPT ![r.app] = IF Exists(r.app) THEN [@ EXCEPT !.spec = r.spec, !.timeout = FALSE]
                                       ELSE @]
        /\ why' = why \union (IF Late(r) THEN {"late"} ELSE {})
     \/ UNCHANGED ea /\ why' = why \union {"api"}
  /\ UNCHANGED <<approval, pending, cm, writers, giveUps>>

HandleDelete_Slip(r) ==
  /\ r.at = "wire" /\ r.kind = "delete"
  /\ ea' = [ea EXCEPT ![r.app] = IF ea[r.app].here = "live" THEN NoEA ELSE @]
  /\ Answer(r, "ok")
  /\ why' = why \union (IF Queued(r.app) THEN {"queued"} ELSE {})
  /\ UNCHANGED <<approval, pending, cm, writers, giveUps>>

\* handle_remoteapp_delete: an ExecutingApp that is not found is as good as one
\* deleted, and so is one the API server would not list or delete: either error is
\* logged and the answer is ok.  The approval queue is not looked at.
HandleDelete(r) ==
  /\ r.at = "wire" /\ r.kind = "delete"
  /\ Answer(r, "ok")
  /\ LET queued == IF Queued(r.app) THEN {"queued"} ELSE {} IN
     \/ ea' = [ea EXCEPT ![r.app] = NoEA] /\ why' = why \union queued
     \/ Exists(r.app) /\ UNCHANGED ea /\ why' = why \union queued \union {"kept"}
  /\ UNCHANGED <<approval, pending, cm, writers, giveUps>>

-----------------------------------------------------------------------------
(* The executing side: its operator, its executor and its state ConfigMap. *)

Approval(a) == [app |-> a, kind |-> "approve", spec |-> pending[a], at |-> "admitted", waited |-> FALSE]

Approve_Slip(a) ==
  /\ pending[a] # 0
  /\ pending' = [pending EXCEPT ![a] = 0]
  /\ UNCHANGED <<ra, reqs, approval, ea, cm, writers, giveUps, why>>

\* approve_remoteapp takes the entry out and saves the queue; the ExecutingApp is
\* created next, whatever the quota says by now.
Approve(a) ==
  /\ pending[a] # 0
  /\ pending' = [pending EXCEPT ![a] = 0]
  /\ writers' = Append(writers, pending')
  /\ reqs' = reqs \union {Approval(a)}
  /\ why' = why \union (IF Quota(pending[a], Active) # "fits" THEN {"no-room"} ELSE {})
                \union (IF \E q \in reqs : q.at = "admitted" THEN {"overlap"} ELSE {})
                \union (IF Exists(a) THEN {"overtaken"} ELSE {})
  /\ UNCHANGED <<ra, approval, ea, cm, giveUps>>

RejectApp_Slip(a) ==
  /\ pending[a] # 0
  /\ pending' = [pending EXCEPT ![a] = 0]
  /\ writers' = Append(writers, pending')
  /\ Push(a, "Refused")   \* a word the submitting side does not know
  /\ UNCHANGED <<reqs, approval, ea, cm, giveUps>>

\* reject_remoteapp takes the entry out, saves the queue and tells the submitter.
RejectApp(a) ==
  /\ pending[a] # 0
  /\ pending' = [pending EXCEPT ![a] = 0]
  /\ writers' = Append(writers, pending')
  /\ Push(a, "Rejected")
  /\ UNCHANGED <<reqs, approval, ea, cm, giveUps>>

\* The CR is deleted on this cluster; kopf tells the submitting side.
DeleteEA(a) ==
  /\ ea[a].here = "live"
  /\ ea' = [ea EXCEPT ![a] = NoEA]
  /\ Push(a, "Deleted")
  /\ UNCHANGED <<reqs, approval, pending, cm, writers, giveUps>>

\* The executor reports Timeout: the workload is no longer counted, though its
\* Deployment is still there.
TimeOut(a) ==
  /\ ea[a].here = "live" /\ ~ea[a].timeout
  /\ ea' = [ea EXCEPT ![a].timeout = TRUE]
  /\ why' = why \union {"timed-out"}
  /\ UNCHANGED <<ra, reqs, approval, pending, cm, writers, giveUps>>

\* POST /settings, which saves the settings with the queue.
ToggleApproval ==
  /\ approval' = ~approval
  /\ writers' = Append(writers, pending)
  /\ UNCHANGED <<ra, reqs, ea, pending, cm, giveUps, why>>

\* remove_peer saves the settings without the queue.
SaveWithoutQueue ==
  /\ writers' = Append(writers, Empty)
  /\ why' = why \union {"unsaved"}
  /\ UNCHANGED <<ra, reqs, approval, ea, pending, cm, giveUps>>

\* _write: the threads finish in any order, and an error is logged.
WriteState ==
  \E i \in 1..Len(writers) :
    /\ writers' = SubSeq(writers, 1, i - 1) \o SubSeq(writers, i + 1, Len(writers))
    /\ \/ cm' = writers[i] /\ why' = why \union (IF i # 1 THEN {"raced"} ELSE {})
       \/ UNCHANGED cm /\ why' = why \union {"api"}
    /\ UNCHANGED <<ra, reqs, approval, ea, pending, giveUps>>

\* The executing agent restarts with the settings and the queue of the ConfigMap,
\* or with neither when it cannot be read; its handlers and writers are gone and
\* the calls raise.
Restart ==
  /\ pending' \in {cm, Empty} /\ approval' \in BOOLEAN
  /\ writers' = <<>>
  /\ reqs' = {}
  /\ why' = why \union (IF \E r \in reqs : r.at # "wire" THEN {"crash"} ELSE {})
                \union (IF pending' # pending THEN {"forgotten"} ELSE {})
                \union (IF pending' # cm THEN {"api"} ELSE {})
  /\ UNCHANGED <<ra, ea, cm, giveUps>>

Next ==
  \/ \E a \in Apps : \/ Submit(a) \/ EditSpec(a) \/ Delete(a) \/ Forward(a) \/ CannotDeploy(a)
                     \/ Approve(a) \/ RejectApp(a) \/ DeleteEA(a) \/ TimeOut(a)
  \/ \E r \in reqs : \/ GiveUp(r) \/ Lose(r) \/ Admit(r) \/ Queue(r) \/ Create(r)
                     \/ WriteStatus(r) \/ Patch(r) \/ HandleDelete(r)
  \/ ToggleApproval \/ SaveWithoutQueue \/ WriteState \/ Restart

Spec == Init /\ [][Next]_vars

-----------------------------------------------------------------------------
(* Properties.                                                             *)

Quiet(a) == (\A r \in reqs : r.app # a) /\ Due(a) = "nothing"

\* A RemoteApp that kopf has let go leaves nothing running or queued behind on
\* the other cluster, unless it was deleted while it waited for approval, a request
\* its caller had given up was handled after the delete, or the API server failed at
\* a delete, which is answered ok all the same.
NoOrphan ==
  why \cap {"late", "queued", "forgotten", "kept"} = {} =>
    \A a \in Apps : Quiet(a) /\ ra[a].here = "gone" => ~Exists(a) /\ pending[a] = 0

\* A workload the other cluster has accepted is running there or waiting for
\* approval until the submitting side is told otherwise, unless the API server
\* failed, the agent died in the middle of a handler or with a queue that was
\* not written, or the push that tells was lost.
NothingLost ==
  why \cap {"crash", "forgotten", "api", "lost-push"} = {} =>
    \A a \in Apps : Quiet(a) /\ ra[a].here = "live" /\ ra[a].phase = "Pending"
                      => Exists(a) \/ pending[a] # 0

\* A RemoteApp that was refused does not run, unless a call that timed out was
\* repeated and the repetition refused (the quota counts the workload itself).
FailedIsNotRunning ==
  why \cap {"late", "repeated", "forgotten"} = {} =>
    \A a \in Apps : Quiet(a) /\ ra[a].here = "live" /\ ra[a].phase = "Failed"
                      => ~Exists(a) /\ pending[a] = 0

\* What runs is within the quota, however receives, updates, duplicates and
\* deletes interleave, unless two requests were between check and creation at
\* once, an approval came when there was no room, a workload timed out, or the quota
\* could not list what runs and let through what has no room.
WithinQuota ==
  why \cap {"overlap", "no-room", "timed-out", "blind"} = {} =>
    Cardinality({a \in Apps : Exists(a)}) <= MaxDeploys
      /\ Cardinality(Pods({a \in Apps : Exists(a)})) <= MaxPods

\* An ExecutingApp runs the spec of its RemoteApp once kopf has nothing left to
\* forward, unless a request given up was handled late, two requests were between
\* check and creation at once, an approval came for a workload running by now, the
\* API server failed, the agent died in a handler or forgot the queue, or a push
\* was lost.
SpecFollows ==
  why \cap {"late", "overlap", "overtaken", "crash", "api", "forgotten", "lost-push"} = {} =>
    \A a \in Apps : Quiet(a) /\ ra[a].here = "live" /\ ra[a].phase = "Pending"
                    /\ Exists(a) /\ pending[a] = 0 => ea[a].spec = ra[a].spec

\* Once the writers are done the ConfigMap holds the approval queue, unless two
\* writers met, one failed, or a peer was removed.
QueueIsSaved ==
  writers = <<>> /\ why \cap {"raced", "api", "unsaved"} = {} => cm = pending

\* An ExecutingApp without status.appId, which kopf retries for ever, is one that
\* is being created, unless the agent died there or the status was not written.
BareIsTransient ==
  why \cap {"crash", "api"} = {} =>
    \A a \in Apps : ea[a].here = "bare" => \E r \in reqs : r.app = a /\ r.at = "status"
=============================================================================
