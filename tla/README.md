# Porpulsion: formal models

TLA+ specifications of the porpulsion agent, checked with TLC, and their
safety properties proved with TLAPS. Line numbers are those of the files under
`src/porpulsion/` at this commit.

An agent runs in a Kubernetes cluster (one gunicorn worker, four threads, plus
the threads it starts). Two agents peer by an invite bundle and then keep one
WebSocket between them, over which one submits workloads to the other. There
is no consensus and no shared database: everything the two agents agree on
they agree on by messages over a connection that may break, and everything an
agent remembers after a restart is what background threads managed to write to
its cluster.

- [1. Inventory](#1-inventory)
- [2. Plan](#2-plan)
- [3. What is modelled](#3-what-is-modelled)
- [4. Runs](#4-runs)
- [5. Proofs](#5-proofs)
- [6. Findings](#6-findings)
- [7. What is left out](#7-what-is-left-out)

## 1. Inventory

| component | code | state | operations |
|---|---|---|---|
| peer channel | `channel.py` 172-751 | `_ws`, `connected_event`, `_running`, `_pending`, the executor of 8 workers, one receive and one keepalive thread | `call`, `push`, `close`, `connect_and_maintain`, `attach_inbound`, receive loops, `_dispatch`, `_ping_loop` |
| peering and channel registry | `routes/peers.py`, `channel.py` 753-823, `channel_handlers.py` 546-663, `agent.py` 95-148 | `state.peers` (with a direction each), `state.peer_channels` | `connect_peer`, `remove_peer`, `open_channel_to`, `accept_channel`, peer pushes, restart |
| peers Secret | `tls.py` 254-308 | the Secret, `_save_peers_seq`, writer threads | `save_peers`, `load_peers` |
| state ConfigMap | `tls.py` 311-378 | settings, approval queue and proxy-auth set in one object | `save_state_configmap`, `load_state_configmap` |
| identity, invites | `tls.py` 1-250 | CA key and certificate | signing, verification, bundles |
| workloads, submitting side | `k8s/kopf_handlers.py` 107-241, `k8s/store.py`, `routes/workloads.py` | RemoteApp CRs | create, update, delete handlers with retries, `remoteapp/status` |
| workloads, executing side | `channel_handlers.py` 20-152, 341-432, `kopf_handlers.py` 30-102 | ExecutingApp CRs, `pending_approval` | receive, approve, reject, delete, scale, spec-update |
| admission and quotas | `routes/workloads.py` 72-208 | none of its own; reads settings and CRs | `_check_resource_quota` and its callers |
| executor | `k8s/executor.py` 254-655 | `_stop_events`, a thread for each deployment | `run_workload`, `_report_status` |
| exec sessions | `executor.py` 797-916, `channel_handlers.py` 247-339, `agent.py` 185-387 | session table, stdout queues | open, stdin, resize, close, read loop |
| tunnels, image proxy | `k8s/tunnel.py`, `routes/tunnels.py`, `image_proxy.py`, `registry_proxy.py` | two time-based caches | forward a request |
| accounts, login limiter | `routes/auth.py`, `agent.py` Basic auth | users Secret, browser sessions, failure queues | sign-up, add, edit, remove, login |
| registry set-up | `k8s/registry_proxy.py`, `routes/settings.py` | system user, image pull secret, a switch | set-up, teardown, set-up at start |
| settings | `routes/settings.py` | `state.settings` | partial update, save |
| dashboard, logs, notifications | `routes/ui.py`, `log_buffer.py`, `notifications.py`, ... | bounded buffers | render, list |

**How they interact.** Every cross-agent operation goes through a channel:
`call` (a request with a reply) or `push` (no reply). HTTP routes and kopf
handlers call it from their own threads; on the other side `_dispatch` hands
the message to one of eight workers of the channel, which runs a handler of
`channel_handlers.py`. Handlers change `state.peers` and the CRs; kopf reacts to
the CRs. Each change of `state.peers` is followed by `save_peers`, each change
of the queue or the settings by `save_state_configmap`; both leave the write to
a new thread.

**What is hard.** `PROJECT.json` lists the hazards by line. In short:

- *Channel*: the socket, the event and `_pending` are touched by callers,
  workers, the keepalive thread, the receive thread and `close()`, and the
  lock covers reads and writes of `_ws` only. Correct means: nobody is left
  waiting after a drop, a call is handled at most once and only returns what its
  handler returned, calls come back, the dialer dials again.
- *Peering*: both agents may dial, accept, remove, drop and restart at any
  time, and each replaces "the" channel of the other. Correct means: a channel
  that runs is the registered one, a peer we dial is always being dialled,
  directions follow what the two sides asked for.
- *Secret*: writes overlap and the process may die. Correct means: the Secret
  ends up equal to the table and does not go back.
- *Workloads*: at-least-once delivery with retries against handlers that are
  not idempotent, an approval queue beside the CRs, status reports out of
  order, crashes between two API calls.
- *Quota*: check, then create, without a lock; what is counted is what the CRs
  say, not what runs. Correct means: what runs is within the limits.
- *Executor*: deploy threads that replace and cancel one another by id, several
  writes for each deploy, a status that two clusters keep. Correct means: a
  workload that says Ready runs its spec with its data, on both sides.
- *Exec sessions*: the browser, the shell, the read loop and the connection may
  each end first. Correct means: output and keys arrive whole and in order, and
  no shell outlives its terminal.
- *Accounts, registry*: read the Secret, hash, write it back, in four threads;
  one password in two Secrets. Correct means: somebody can log in, and the
  cluster can pull.

## 2. Plan

In order, the most important behaviour first. All of it is written.

1. `RequestReply` (abstract) and `Channel`: everything else goes through it.
   `Channel` implements `RequestReply`. Proved.
2. `Peering`: the life of the peer entry and its channels on two agents. It
   takes from `Channel` only that a connection is dialled, comes up, and drops.
   Proved.
3. `PeerStore`: the write of the peers table that `Peering` restarts from.
   Proved.
4. `Workload`: RemoteApp and ExecutingApp with the kopf retries, the approval
   queue, the quota, delete, crashes, and the unsequenced writes of the state
   ConfigMap; calls behave as `RequestReply` says. The quota and the ConfigMap
   were planned as modules of their own, but what can go wrong with them needs
   the retries and the approvals. Proved.
5. `Executor`: deploy threads, `_stop_events`, config patches and status
   reports, from the moment `Workload` has an ExecutingApp. Proved.
6. `ExecSession`: interactive shells, direct and relayed. Proved.
7. `Accounts`: accounts, the registry's system user, the login limiter. Proved.

`Workload`, `Executor` and `ExecSession` stand on the same channel and share no
other state but the ExecutingApp: `Workload` reduces the executor to one action
(`TimeOut`) and `Executor` reduces the submitting side to `SpecUpdate`,
`DeleteEA` and the status it is told. Left for later:
a bound on `_pending` and liveness of the kopf retries.

Modules meant for proofs declare no RECURSIVE operator, take their parameters
as constants with a named assumption, and write the inductive invariant as a
conjunction of named parts.

## 3. What is modelled

| module | what it is |
|---|---|
| `RequestReply` | what `call()` promises: at most one execution, a normal return only after a normal handler |
| `Channel` | both ends of the channel, one action for each step between two points where other threads can get in |
| `ChannelInvariant` | the inductive invariant of `Channel` |
| `ChannelProofs` | its theorems |
| `Peering` | two agents, their peer entries, registries, dialled and accepted channels |
| `PeeringProofs` | its theorems |
| `PeerStore` | `save_peers`, `load_peers`, with inductive invariant |
| `PeerStoreProofs` | its theorems |
| `Workload` | remote workloads between two clusters, up to the ExecutingApp |
| `WorkloadProofs` | its theorems |
| `Executor` | deploys, config patches and the status of one workload |
| `ExecutorProofs` | its theorems |
| `ExecSession` | interactive shells |
| `ExecSessionProofs` | its types, and the end of a terminal |
| `ExecStreamProofs` | its other theorems, session by session |
| `Accounts` | user accounts, the system user and its pull secret, the login limiter |
| `AccountsProofs` | its theorems |
| `MCChannel`, `MCChannelSmall`, `MCPeering`, `MCPeerStore`, `MCWorkload`, `MCExecutor`, `MCExecSession`, `MCAccounts` | the instances TLC checks |

Definitions called `X_Slip` are not part of any specification. Each is the
action `X` with a mistake a later edit could make; they are kept to show that
the properties notice.

In the modules from `Workload` on, a history variable `why` collects what has
gone wrong (in `ExecSession` for each session). The code has races and lost
writes its authors may or may not accept; a property names the ones that break
it and holds whenever none of these happened. So each property is also the list
of everything that breaks it: with one reason left out, TLC shows how, where the
bounds follow a behaviour that far.

### Channel

`Channel` has a dialer, with one `PeerChannel` (number 0) for its whole life,
and an acceptor, with a new one for every connection it accepts: channel `k`
serves connection `k`. Where the code is:

| model | code |
|---|---|
| `ws`, `event`, `running`, `pending` | `_ws`, `connected_event`, `_running`, keys of `_pending` |
| `fired`, `result` | the `event` and `result` of an entry of `_pending` |
| `at` | where the receive thread is: `connect_and_maintain` and `_recv_loop`, or `attach_inbound` and `_inbound_recv_loop` |
| `held` | the message for which `msg_id in self._pending` was true (672), until it is looked up again (673) |
| `woken`, `size` | the iteration over `_pending` when the loop ends (663) |
| `pc`, `chan`, `csock` | a thread in `get_channel().call()`: its program counter, channel, and the socket `_send_raw` read |
| `exec`, `reply`, `worker` | `_run_request` in the executor |
| `reg` | the acceptor's `state.peer_channels` entry |
| `link`, `wire` | the TCP connections and the frames in flight |

Steps are as small as the interleavings need. `call()` is `GetChannel`,
`Register`, `ReadSocket`, `Send` or `SendRaises`, `Return`. A matching reply is
two steps, `Match` and `Deliver`, since the caller may pop its entry between
them. The wake-up at the end of a loop is one step for each entry, and ends in
`WakeRaises` when Python would find the dict resized. `close()` is one step:
the lock keeps others from `_ws`, and between `_running` and the socket nobody
can tell the difference except by one more failed send.

A send on a connection that is down may succeed (the frame is lost) or raise.
A raise sets `_ws` to None, whichever socket is there, and leaves
`connected_event` alone, as the code does. An exception that leaves the receive
thread ends it (`Crash`): nothing restarts `connect_and_maintain`.

Frames in flight are a set. WebSocket keeps their order, but requests go to a
pool and replies are matched by id, so nothing here depends on it. Timeouts are
"any time": a call may give up whenever it waits. Back-off delays are dropped
for the same reason.

### Peering

Each agent has one possible peer, the other. A channel is `Out(g)`, the `g`-th
that agent opened, or `In(c)`, the one that accepted connection `c`. The
peer entry is reduced to its direction, with `"none"` for no entry, and `stored`
is the entry the Secret holds, which follows `dir` with any delay. `RemovePeer`
and `TearDown` are two steps, as are a removal notice and its teardown, because
the code calls out between `state.peers.pop` and the closing of whatever
channel is then registered. `open_channel_to` runs some time after the change of
the entry, in `OpenChannel`. A `Restart` loses threads, sockets, registry and
whatever was not stored.

Accepting takes two steps, as there is time between them for the peer to be
removed: `Greet` checks the hello, changes the entry and sends the ack; `Accept`
registers the channel, closes the one it replaces and pushes
`peer/bidirectional`. `AcceptFails` is the case where the ack could not be sent.
`OutDies` and `InDies` are what `Crash` is in `Channel`: an exception leaves the
receive loop. On the dialling side that ends `connect_and_maintain` too (468), and the
channel stays registered, running and with its socket (`"died"`) until it is
replaced or removed; on the accepting side the handler ends without taking its
channel out of the registry, and the server shuts the socket.
`crossed` is a history variable: it notes a peer added again before all that
belongs to its removal is gone (`Lingers`). The look-up of an entry and its change
in `connect_peer` are one step.

### PeerStore

A save is a change of `state.peers` followed by `save_peers`, in the steps
between which other saves can get in: `Change`, `Serialise`, `Number`, `Check`,
`Patch`. The table is the number of changes made to it, which is all that the
properties tell apart. `raced` is a history variable and names the two windows
of the code: a number taken after a newer table got its own, and two writers
past the check at once. `failed` notes an error of the API server, on a patch
(logged, not retried) or on the load (taken for an empty table).

### Workload

Two sides in one module. A RemoteApp has its state, spec and phase, and
`handled`, the spec kopf has dealt with. `Forward` is a kopf handler that runs
(`kopf_handlers.py` 107-241): it puts a call into `reqs`, and `After` is what it
makes of the answer: done, a refusal in one of the phrases it knows
(PermanentError, phase Failed, or the old phase when `_patch_status` failed, which is
only logged), or anything else, which kopf tries again. A call
given up stays in `reqs` with `waited` FALSE, so the other side may handle it at
any later time beside its repetition; that is the channel of `RequestReply`.

Requests are a set: two that agree in everything, a late one and its repetition, are
one. A request on the executing side stops where others get in: `wire`, `admitted`
(the quota has been looked at), `status` (the CR exists without its appId).

| model | code |
|---|---|
| `Quota`, `Admit` | `_check_resource_quota`, `handle_remoteapp_receive`, `handle_remoteapp_spec_update` up to the write |
| `Listed` | `list_executingapp_crs`, which returns nothing on an error: a refusal (`Refuse`) or a pass (`Pass`) from either list |
| `Queue`, `Approve`, `RejectApp` | `pending_approval` and the two routes |
| `Create`, `WriteStatus`, `Patch` | `create_executingapp_cr` and its second request, `patch_executingapp_spec` |
| `HandleDelete`, `DeleteEA` | `handle_remoteapp_delete`, which answers ok though the list or the delete failed ("kept"); a delete on this cluster |
| `writers`, `WriteState`, `cm` | `save_state_configmap` and its `_write` threads |
| `SaveWithoutQueue` | `remove_peer`, which passes no queue |
| `TimeOut` | `_report_status` with Timeout, which the quota does not count |

A spec is its number and its replica count at once, so that an edit raises the
use of the quota. An approval is a request without a caller. `Late` marks a
request handled after its caller gave up and called again or went on, which is
the reason most properties except.

### Executor

One ExecutingApp. `seen` is what kopf has handled; a deploy thread keeps its
place in `run_workload` in `at`, and `owes` says that it is inside
`_report_status`, where it stops twice: `Tell` patches the CR (an error is
logged) and pushes. `stopEvent` is the entry of `_stop_events`; `StartDeploy`
sets the event there and puts its own in. A thread looks at its event in the
poll loop only (`Watch`), and `Pop` takes out whatever event is there.

| model | code (`k8s/executor.py` unless said) |
|---|---|
| `StartDeploy`, `Cancel` | `run_workload`, the create, update and resume handlers of `kopf_handlers.py` 30-75 |
| `ReadDeployment` ... `PutService` | the steps of `_run` |
| `Watch`, `Poll`, `Pop` | the poll loop and the `pop` after it |
| `OnDeleted`, `Collect` | `on_executingapp_deleted`, owner references |
| `PatchLive`, `PatchRead`, `PatchWrite` | `patch_configmap_data` or `patch_secret_data`, then `patch_cr_volume_data` (`k8s/store.py`) |
| `pushes`, `HandleStatus` | `remoteapp/status` frames, `handle_remoteapp_status`, which may spend one without effect when the list or the patch fails ("unwritten") |

A volume's data and the image are the number of the edit they come from; 0 is
none, as in a spec whose volume has no data, which leaves the live object alone.
A failed replace inside an `except` clause leaves the thread without a report,
which is the third alternative of `PutDeployment` and `PutService`.

### ExecSession

`handler` is the WebSocket handler of `agent.py` 185-387, `registered` and `queue`
the table of output queues, `shell` the stream and its read loop, `listed` the
session table. A relayed session has frames on `wire`; `shell[s].ch` is the
connection its output goes to, the one the request came on. `why` notes for a
session that its call was given up, its connection broke, or a worker
overtook another. `Finish` is the `finally` clause of the handler, part of each
action that ends it. `Closed` sets the stop event; `ReadLoopEnds` is the
`finally` of the read loop, which sends the end of the output and takes the
session out.

### Accounts

Three parts with one Secret between them. A change of accounts is `Reads`
(`_load_users` and the checks) and `SaveUsers`, with the hash in between, so two
of the four threads may overlap; `stale` marks a request that has read before
another wrote. The registry switch is `Switch`, `SetupReads` or `TeardownReads`,
`SwitchSaves` and `SwitchPulls`; `SwitchEnds` has `POST /settings` start a thread that
saves the settings, or answer 400 for a later field without one. `saving` counts the
threads that have yet to write each value of the switch (`SaveState` is every other
save of the settings), `WriteState` is one that finishes, in any order or with an error,
and `saved` is what the ConfigMap holds. `Restart` loses the threads and comes up with
`saved`, or with the default when the ConfigMap cannot be read.

The limiter is `StartLogin` (the check), then `LoginSucceeds` or `RecordFailure`,
with `Tick` for time. It is that of one client address, and in memory: a `Restart`
forgets its failures and its lockout. What it should bound outlives the restart:
`tries` is the failures since then, `earlier` those before, and `forgot` the
restarts within the window that forgot some.

## 4. Runs

Counts are distinct states.

| run | instance | checks | result |
|---|---|---|---|
| `channel` | 3 calls (2 from the dialer), 2 connections, 1 ping | `TypeOK`, `IInv`, `NoCallerStranded`, `LiveIsRegistered`, `CallsAreHandledOnce` | holds, 1.3 million |
| `channel_live` | 1 call, 2 connections | `KeepsDialing`, `CallsReturn` | holds, 99 593 |
| `channel_survives` | 1 call, 1 connection, 1 ping | `ReconnectLoopSurvives` | violated, see 6 |
| `channel_echo` | 1 call, 1 connection | `RepliesDieOut` | violated, see 6 |
| `peering` | 2 agents, 2 opened channels each, 2 connections, 1 removal or restart, 5 of these and of threads that died together | `TypeOK`, `LiveIsRegistered`, `OutgoingKeepsDialling`, `UpgradeNeedsBothSides` | holds, 3.5 million |
| `peering_glare` | 2 agents, 1 channel each, 3 connections | `BidirectionalReconnects` | violated, see 6 |
| `peer_store` | 4 saves, 1 restart | `TypeOK`, `IInv`, `SettledSecretIsTable`, `SecretMovesForward` | holds, 138 718 |
| `peer_store_stale` | 4 saves | `NoStaleOverwrite` | violated, see 6 |
| `workload` | 2 workloads, 2 deployments and 2 pods allowed, 2 specs, 1 call given up | `TypeOK`, `NoOrphan`, `NothingLost`, `FailedIsNotRunning`, `WithinQuota`, `SpecFollows`, `QueueIsSaved`, `BareIsTransient` | holds, 1.4 million |
| `executor` | 2 deploys, 2 config patches, 2 volumes, 3 edits | `TypeOK`, `OneWatcher`, `ReadyRunsTheSpec`, `ReadyHasTheData`, `PeerSeesThePhase` | holds, 2.1 million |
| `exec_session` | 2 sessions, 2 pieces of output or keys, 2 connections | `TypeOK`, `NothingSkipped`, `KeysInOrder`, `OwnEnd`, `EndIsSeen`, `NoShellLeft` | holds, 1.5 million |
| `accounts` | 2 people, 2 requests, 3 logins, 2 system passwords; limit 3, window 2, lockout 4; 1 restart within the window that forgets failures | `TypeOK`, `SomebodyCanLogIn`, `PullSecretMatches`, `TriesAreBounded` | holds, 1.1 million |

What the properties say:

- `NoCallerStranded`: a caller asleep in `call()` always has somebody who will
  wake it: its receive thread is still on the socket the request went out on,
  or has yet to reach its entry in the wake-up loop. The exception is a
  receive thread that died.
- `LiveIsRegistered` (`Channel` and `Peering`): a channel that runs and reads is
  the one in `peer_channels`, so a replaced channel is always shut and the end of
  an old one never takes out its successor.
- `CallsAreHandledOnce`: `Channel` implements `RequestReply`.
- `KeepsDialing`, `CallsReturn`: liveness, below.
- `OutgoingKeepsDialling`: an outgoing peer has a dialler, or one about to be
  opened, through restarts, drops and removals by either side. There are two
  exceptions. One is a registered channel whose thread died of an exception in its
  receive loop, which is finding 1 again: nobody dials until the channel is
  replaced. The other is a peer added again too early: the teardown of its removal pops whatever channel
  it finds (`routes/peers.py` 252-255), and the handler of a hello it had sent
  before the removal closes whatever channel it finds (`channel.py` 393-397), the
  new one too. Without the exceptions TLC finds all three.
- `UpgradeNeedsBothSides`: a pair is bidirectional only if both users asked.
- `SettledSecretIsTable`: when no save is under way the Secret is the table,
  unless saves met in one of the two windows or the API server failed.
- `SecretMovesForward`: with the same exceptions, no step takes the Secret back.
- `NoOrphan`: a RemoteApp that is gone leaves nothing running or queued on the
  other cluster. It fails when it was deleted while it waited for approval (the
  delete looks at CRs only), when a given-up call was handled after the delete or the
  queue was forgotten in a restart, and when the API server failed at the list or at the
  delete, which is answered ok (`channel_handlers.py` 121-128).
- `NothingLost`: an accepted workload runs or waits for approval until the
  submitter is told otherwise, crashes, API errors between the writes and lost
  pushes apart.
- `FailedIsNotRunning`: a refused workload does not run. It fails when a
  receive is repeated after a timeout: the quota then counts the workload
  itself and refuses it, while its first copy runs.
- `WithinQuota`: two requests between check and creation, an approval without a
  second look, a workload in phase Timeout, and a list of ExecutingApps that failed
  and so counted nothing (`store.py` 484) are the four ways past it.
- `SpecFollows`: what runs is the RemoteApp's spec once nothing is left to
  forward.
- `QueueIsSaved`: the ConfigMap ends with the approval queue, unless writers
  met, one failed, or a peer was removed (which saves an empty queue).
- `BareIsTransient`: a CR without its appId is one that is being created.
- `OneWatcher`: two deploys that were not told to stop never run together.
- `ReadyRunsTheSpec`, `ReadyHasTheData`: with everything quiet and the phase
  Ready, the Deployment, ConfigMaps and Secrets are those of the spec. They fail
  when a deploy begins while an older one still writes (the stop event is not
  looked at there), or when two changes of the volume list meet.
- `PeerSeesThePhase`: the submitting side ends with the same phase, or Deleted. It
  fails when a push was lost or reordered, when it arrived and was not written (the
  list or the patch failed on the submitting side), when the executing side could not
  patch its own status, and when deploys overlapped or died in a restart.
- `NothingSkipped`, `KeysInOrder`: output and keys arrive in order, none
  skipped or doubled, unless the connection broke or workers overtook.
- `OwnEnd`: a terminal whose browser is there is stopped by the end of its own
  shell only. No exception.
- `EndIsSeen`, `NoShellLeft`: the end of a shell sets the stop event of its terminal
  (its handler may still sit in `ws.receive()` until the browser acts), and a
  terminal that ends stops its shell, once all is quiet. `exec-open` given up
  after 15 s is the exception nothing cleans up after. Quiet includes that output has
  been shown, so `NoShellLeft` says nothing of a session with output nobody takes.
- `SomebodyCanLogIn`: the signup page is open or a person has an account.
- `PullSecretMatches`: with no request at work the system user and the pull
  secret are both there with one password when the registry is on, and neither when
  it is off. It fails when requests overlapped, when a step failed or the agent died
  between two, when the system user was changed or removed on the users page, when
  the settings were not saved (an error, two saves in the wrong order, a restart
  before one, or a 400 for a later field), and when a start could not read them.
- `TriesAreBounded`: one address has at most so many passwords refused within
  the window and without a success, lockouts and overlapping checks included, and as
  many again for each restart of the agent within the window.

A hazard of `PROJECT.json` is caught by a property that would fail if the code
handled it wrongly, or named by one that fails where the code does and therefore
excepts it. The second kind are the loading error of the peers Secret and the number
taken after the table (`raced`, `failed`), a dead receive thread (`Died`), workers
that overtake one another (`reordered`), an approval cut short by a crash (`crash`),
the event of another deploy (`stolen`), a cancelled deploy that goes on (`overlap`), a
deploy that a restart ends (`crash`), a lost push (`lost-push`), an `exec-open` given
up (`gave-up`), output to a dead channel (`broken`), two writers of the users Secret
(`overlap`), and every error of the API server that is logged and forgotten (`api`,
`kept`, `blind`, `unwritten`, `half`, `unsaved`, `unread`). There the property says that
nothing else breaks it.

**Bounds.** `MaxConn`, `MaxPing`, `MaxGen` and `MaxUpsets` bound what the
environment may go on doing for ever; `BoundedWork` in the MC modules bounds
their sum. In `channel` two connections are the least that have a replacement,
a send on a socket that is no longer the channel's, and a reply that leaves on
another connection than its request; two callers on one channel are the
least for a wake-up loop to be disturbed by another caller. `BoundedWork` lets
a behaviour have two calls on one connection or one call across two, and the
proofs cover the rest. In `peering` each agent may open two channels, which is
what replacing, removing and adding again, or restarting takes, and one upset
(a removal or a restart) against an ongoing peering already meets every
other action; `BoundedWork` leaves out only the behaviours that use all of these
up at once. A third connection adds nothing that is not a repetition for the
safety properties, but the glare run takes three, so that the dead end is not
one of the bound. Four saves give each window both its parties and two
bystanders.

In `workload` two workloads are what a quota needs to be exceeded by neither
alone; the quota holds one workload at each spec, or two at the first.
`BoundedWork` keeps requests and writers at two together (each race named in
`why` has two parties), lets one workload be edited and one deleted, and follows
a behaviour until a second thing goes wrong: a property that excepts one reason
is checked against every other, one at a time. It also stops where the
ConfigMap was written without the queue or out of order: the others read it
at a restart only, where a queue that differs is "forgotten". In `executor` two deploys, two
patches and two volumes give each race its parties, and three edits make an old
value different from the one before and the one after. `BoundedWork` there
stops a behaviour when a status is lost, reordered or not written on either side, or
when a second thing goes wrong. `PeerSeesThePhase` excepts these; of the other
properties, which do not all, TLC sees nothing beyond that point, and the theorems cover it. `exec_session` needs no constraint: two sessions of
one workload, the bounds on items (output and keys together) and connections
make it finite. In `accounts` two people are the least who can remove each
other, three logins the least that reach the limit while one is still being
verified; the limiter is exercised while no request and no writer is at work, as it
shares no state with the Secret but who exists, over one restart within the
window that forgets failures. There is one save under way of each value of
the switch, which is what it takes for two to finish in the wrong order, and one thing
at a time that went wrong and has not been repaired. A behaviour is followed until
requests overlapped or a session was no person's, which leaves `PullSecretMatches` or
`SomebodyCanLogIn` to the theorems. The
theorems of section 5 have none of these bounds.

**Symmetry** is over interchangeable calls, agents, saves, workloads, threads,
sessions, names or requests, in the runs without liveness only.

**Deadlock** is not checked: every run ends when the bounded work is done.

**Fairness** is assumed in `Channel` only; the properties of the later modules
are about states in which all work is over, and say what such a state must be
(`Quiet`, `Settled`), not that it comes. In `channel_live` and `channel_echo` a
thread of the channel that can move does: the dial thread, the receive threads, the acceptor's handler of a hello and
a caller after it has its channel are weakly fair, since they are operating-system
threads and hold no lock across a blocking call. `Hello` is strongly fair: the
dialer tries without end, and the properties are about a peer that can be reached
in the end. Nothing is assumed of handlers (one may run for ever), of the
network (a connection may break at any time), or of users. `CallsReturn` needs
the timeout of `event.wait`, which is the second alternative of `Return`.

## 5. Proofs

Every invariant that a run checks is a theorem, and so are the action property
and the refinement.

| theorem | states |
|---|---|
| `ChannelProofs!TypeCorrect` | `Spec => []TypeOK` |
| `ChannelProofs!CallersAreWoken` | `Spec => []NoCallerStranded` |
| `ChannelProofs!OneLiveChannel` | `Spec => []LiveIsRegistered` |
| `ChannelProofs!ImplementsRequestReply` | `Spec => CallsAreHandledOnce` |
| `ChannelProofs!InductiveInvariant` | `Spec => []IInv` |
| `PeeringProofs!PeeringTypes` | `Spec => []TypeOK` |
| `PeeringProofs!RunningIsRegistered` | `Spec => []LiveIsRegistered` |
| `PeeringProofs!DiallerIsKept` | `Spec => []OutgoingKeepsDialling` |
| `PeeringProofs!BothAsked` | `Spec => []UpgradeNeedsBothSides` |
| `PeerStoreProofs!TypeCorrect` | `Spec => []TypeOK` |
| `PeerStoreProofs!SettledIsSaved` | `Spec => []SettledSecretIsTable` |
| `PeerStoreProofs!SecretNeverGoesBack` | `Spec => SecretMovesForward` |
| `PeerStoreProofs!InductiveInvariant` | `Spec => []IInv` |
| `WorkloadProofs!WorkloadTypes` | `Spec => []TypeOK` |
| `WorkloadProofs!QueueSaved` | `Spec => []QueueIsSaved` |
| `WorkloadProofs!StatusFollows` | `Spec => []BareIsTransient` |
| `WorkloadProofs!OrphanFree` | `Spec => []NoOrphan` |
| `WorkloadProofs!AcceptedIsNotLost` | `Spec => []NothingLost` |
| `WorkloadProofs!RefusedDoesNotRun` | `Spec => []FailedIsNotRunning` |
| `WorkloadProofs!QuotaIsKept` | `Spec => []WithinQuota` |
| `WorkloadProofs!EditsArrive` | `Spec => []SpecFollows` |
| `ExecutorProofs!ExecutorTypes` | `Spec => []TypeOK` |
| `ExecutorProofs!AtMostOneWatcher` | `Spec => []OneWatcher` |
| `ExecutorProofs!ReadyIsDeployed` | `Spec => []ReadyRunsTheSpec` |
| `ExecutorProofs!ReadyIsConfigured` | `Spec => []ReadyHasTheData` |
| `ExecutorProofs!StatusArrives` | `Spec => []PeerSeesThePhase` |
| `ExecSessionProofs!EndsAreOwn` | `Spec => []OwnEnd` |
| `ExecStreamProofs!ExecTypeCorrect` | `Spec => []TypeOK` |
| `ExecStreamProofs!OutputIsWhole` | `Spec => []NothingSkipped` |
| `ExecStreamProofs!KeysAreRead` | `Spec => []KeysInOrder` |
| `ExecStreamProofs!EndsAreSeen` | `Spec => []EndIsSeen` |
| `ExecStreamProofs!ShellsAreClosed` | `Spec => []NoShellLeft` |
| `AccountsProofs!NobodyIsLockedOut` | `Spec => []SomebodyCanLogIn` |
| `AccountsProofs!AccountsTypeCorrect` | `Spec => []TypeOK` |
| `AccountsProofs!PullSecretFollows` | `Spec => []PullSecretMatches` |
| `AccountsProofs!TriesStayBounded` | `Spec => []TriesAreBounded` |

They hold for every value of the constants. `Channel` assumes a finite set of
calls (their ids), some of them the dialer's, an id that is not a call's, at
least one connection and any bound on pings; `Peering` two agents and natural
bounds; `PeerStore` assumes a natural bound
on restarts and nothing about the set of saves; `Workload` limits of at least one (0 means no limit in the settings, and both
are set here), a natural bound on calls given up and a
finite set of workloads (the quota counts them); `Executor` that "none" is no deploy
or volume and at least one edit; `ExecSession` a finite set of sessions; `Accounts`
finite sets of names and logins, a system user who is not among the names, a thread
that answers, a limit of at least one, and a lockout longer than the window (300
and 60 seconds in `auth.py` 39-41): if it were not, the failures that began it
could still be counted when it is over.

**Channel.** `IInv` (module `ChannelInvariant`) has the parts one needs in turn.
`NoCallerStranded` is about callers that wait, but a caller that has read its
socket and not sent yet must be covered already, which is `SomeoneWakes`; its
proof needs that a call under way has its entry in `_pending`
(`PendingIsCallers`), that a channel with a socket has a receive thread on it
(`SocketHasReader`), and that connections not opened yet have no thread
(`NotOpenedYet`). The refinement needs that a request in flight has not been
handled (`RequestsAreFresh`) and that an "ok" on its way to a caller comes from
a handler that returned (`AnswersAreHandlers`). Each part has a lemma, with a
step for each action. TLC checks `IInv` in run `channel`.

**Peering.** `LiveIsRegistered` is inductive with the types: every replacement
closes what it replaces. `OutgoingKeepsDialling` needs `NothingLeft`: an outgoing
peer that is not marked as crossed has no teardown and no answered hello left
that could close its dialler. A dialler whose thread died stays the registered
channel until something replaces or removes it, which is the exception `Died`. `UpgradeNeedsBothSides` follows from who asked:
an entry tells it (`EntryWasAsked`), a thread that dials and a connection that
was dialled do (`DiallerAsked`), a notice does (`PushWasAsked`), and each action
passes it on from one to the next.

**PeerStore.** `SettledSecretIsTable` follows from `NewestWins` (outside the
windows, numbers follow the tables, and the newest save is not skipped),
`SecretHasWriter` (the Secret is what the save it is from had serialised) and
`TableIsCovered` (the table is on its way, or was when the process started).

**Workload.** A property speaks of a workload nobody is asking about; each part of
the invariant says before that what the requests on their way may still do.
`RequestsFit` is the base: one caller waits for each RemoteApp, and the kind of a
request fits the state of the RemoteApp (a delete is of one that is being deleted,
an update of one kopf has handled). `NotYetSubmitted` says that nothing is known of a
workload before it is submitted. Then:

- `QueueIsSaved` from `LastIsNewest`: the newest writer has the queue as it is, so
  the last to finish in order leaves the ConfigMap right.
- `BareIsTransient` is inductive as it stands: the request that made the CR is there.
- `NoOrphan` from `GoneIsGone`, `FailedIsNotRunning` from `RefusedIsOut`: the delete
  or the refusal is the last request that could create anything.
- `NothingLost` from `AcceptedIsKept`: an entry taken out of the queue is a request
  that will create the CR.
- `WithinQuota` from `OneAdmitted` and `HasRoom`: what runs, and the one request
  between check and creation, fit together. Pods are counted as a set of pairs of
  a workload and the number of a pod, so that one more workload adds as many.
- `SpecFollows` from `SpecIsTracked`: the spec kopf has handled is the one running
  or else the one queued, and the requests on their way carry it.

`OneAtATime` says what a step may do to one workload, and the other parts are kept
workload by workload.

**Executor.** `WatcherIsListed`: a deploy that runs and was not told to stop is the
one whose event is in `_stop_events`. Two such deploys are then one (`OneWatcher`);
only `Pop` by another thread breaks it, and sets "stolen". `OneActive` adds that a
deploy told to stop writes nothing more unless deploys overlapped. So there is one
writer, and `RunsItsSpec` follows it: it deploys the spec kopf has handled, does not
leave Ready in the CR while it writes, and has put its own Deployment once it is past
that step. `HasItsData` does the same for volumes: each holds the data of the spec, or
a patch of it is under way, or the CR has moved on; it needs that a patch not yet
written has data nobody has seen (`EditsAreNew`). `Told` is the status: the last
push on its way, or the phase there if there is none, is that of the CR.

**ExecSession.** `OwnEnd` follows the end of the output back: a handler is stopped
by a 0 in its queue, which came from a frame marked as the end (`ZeroIsEnd`,
`EndIsReal`), which only a read loop that is over sends. A shell that is over
stays over because a session is opened once: its request is the only one, and
none is on its way when the session has a shell (`OpenIsFirst`,
`NotOpenedYet`). The proof first shows what a step may do to a shell, a
handler, the wire and a queue, and derives each conjunct from these. `TypeOK`
enters without its bounds, as `ExecTypes`.

The other theorems (`ExecStreamProofs`) go session by session. `Mail(s)` is what is on
the wire for session `s`; lemma `SessionSteps` shows once that every step of the module
is, for a given session, one of a score of small steps (`SessionStep`) that say what
becomes of its handler, queue, keys, shell, mail and connection. The invariant
`StreamIInv` has the same parts for each session: `Begins` and `AnsweredOnce` for the
opening, `Linked` (a relayed session that has begun still has its connection),
`OutputFlows` and `KeysArrive` (what is shown, queued and on its way are consecutive
numbers), `EndComes` and `CallIsAnswered` (a terminal whose shell is over has its end
queued, on its way, or owed), `NothingLeft` (a shell whose terminal is over has its
close on its way) and `Bounded`, with which the bounds of `TypeOK` follow. The items
made are counted as a set of pairs, one for each item of a session.

**Accounts.** Each property has an invariant of its own over the types.

- `SomebodyCanLogIn`: `SomebodyOrNothing` (with no account there is no session, and
  otherwise a person has one) and `WritesLeaveSomebody`, which is about requests in
  flight: a dictionary read from the Secret as it still is has a person in it.
- `PullSecretMatches`: `SwitchParts`. One request switches at a time (`OneSwitch`) and
  the setting in memory is where it goes (`SwitchDecides`); what it will write is one
  password, as hash and as plaintext (`WritesMatch`, `PlainMatches`), and when it has
  come to the pull secret it holds the password of the system user (`PullFollows`).
  The settings in memory, in the ConfigMap and in the writers on their way agree
  as long as nothing was left unsaved (`SaveFollows`), so a restart that reads them
  comes up with the switch its Secrets were made for.
- `TriesAreBounded`: the failures remembered and all failures since the last success
  end alike (`SameEnd`), so that what the limiter drops is beyond the window, and the
  rest can be counted. While there is a lockout (`WhileLocked`) the failures
  remembered are of logins that were being verified when it began, one fewer than
  there can be; what was forgotten at its beginning is at least as old as it, hence
  beyond the window when it is over. `Within` is the loop that drops the oldest until
  one is within the window; that it stops takes the least number of a set
  (`LeastNumber`), proved from the well-foundedness of finite sets. Over restarts the
  window is cut at each one that forgot failures: between two of them the failures
  are those of one run of the agent and keep its bound (`PerRun`), the older they are
  the earlier they come (`EarlierFirst`), and there is one run more than
  restarts in the window (`RestartsBetween`).

**Model-checked only.** `KeepsDialing` and `CallsReturn` (proofs of liveness under
fairness are out of the prover's reach), and the four disagreements of section 6,
each of which is a counterexample.

## 6. Findings

Each is a run that TLC ends with a counterexample.

1. `channel_survives`. `connect_and_maintain` "keep[s] the connection alive,
   reconnecting on failure", but `_recv_loop()` is called outside its `try`
   (468). A pong sent on a dead socket (699), an entry popped between test
   and use (672-674), a resized `_pending` (663) or an executor already shut
   down (690) raise there, and the thread ends. Nobody dials again until a
   restart.
2. `channel_echo`. A reply that comes after its call gave up is no longer in
   `_pending` and is treated as a request of unknown type "reply" (691). The
   answer has the same id, so the other side answers in turn, for as long as
   the connection lasts.
3. `peering_glare`. `agent.py` 126-129 says that both sides may dial at once and
   that reconnection then works whoever restarted. `attach_inbound` closes the
   channel it replaces for good (396). When two bidirectional agents accept each
   other's connection before either dialler is done, both diallers are closed,
   both connections end, and neither side dials again.
4. `peer_store_stale`. `save_peers` checks its sequence number under the lock and
   writes after it, so the stale writer it is meant to stop can still be the last
   to write.

What the later modules showed of the code is in the exceptions of their
properties. Besides these:

- A refusal with "deployment limit" is in none of the phrases of
  `kopf_handlers.py` 150, so such a RemoteApp is retried every 5 s and stays
  Pending. Phases `Failed: ...` are not `Failed`, so failed ExecutingApps count in
  the quota.
- `on_remoteapp_deleted` tests `status["status"]` (231), but the code writes
  `status.phase`: the branch is never taken.
- The scale and detail handlers (`channel_handlers.py` 132-175) and exec build a
  RemoteApp without its resource name, hence look for another Deployment.
- A restart in the middle of a deploy is not made up for (`executor.py` 652).
- A new password for the system user on the users page leaves its old plaintext
  beside the new hash, and the next set-up makes the pull secret from that.
- The system user counts for the "last account" check (`auth.py` 374) and may log
  in on the page itself.
- A submitting agent that restarts leaves its relayed shells running.
- `POST /settings` answers 400 after changing some fields in memory and acting on
  them (`settings.py` 100); the next restart takes them back.
- Errors of the API server are mostly logged and answered as success: a delete
  that did not happen is "already gone", the quota of an unknown list is not
  exhausted, a status that could not be written is forgotten, and unreadable settings
  are the defaults.
- The login limiter starts afresh with the agent.

## 7. What is left out

- The checks of the hello and of its ack: signatures and fingerprints either
  pass, or the attempt fails. Bundles, certificates and encodings.
- In `Channel`: pushes other than ping, back-off delays, the failure
  notification, latency, and `PeerChannel.disconnect()`: it is called for a
  `peer/disconnect` whose reason is not "removed", and nothing sends one.
- In `Peering`: the url, certificate and proxy address of the entry; the
  workloads deleted with a peer; an unreadable Secret at start-up, which is in
  `PeerStore`.
- In `PeerStore`: a patch already sent when the process dies and applied after
  the next one has read the Secret; a `RuntimeError` from iterating the table
  while it changes.
- In `Workload`: choosing the peer, the switch `allow_inbound_remoteapps`, CPU and
  memory totals (the same sum as pods) and the limits that look at one spec, the
  scale and restart operations (they touch the Deployment only), the proxy-auth
  set in the ConfigMap, the CRs deleted with a peer.
- In `Executor`: what the objects contain, PVC contents, pod listings and logs,
  `rollout_restart` and `scale_workload`.
- In `ExecSession`: resizing, `exec_in_pod`.
- In `Accounts`: hashing itself, more than one client address, the system user's
  name taken by a person or changed. In settings: validation and the fields no
  modelled part reads.
- The components without a module in section 2, with the reasons given in
  `PROJECT.json`. Tunnels, the image proxy, the dashboard and the logs hold no
  state that other parts rely on.
