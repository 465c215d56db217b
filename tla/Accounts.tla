------------------------------ MODULE Accounts ------------------------------
(***************************************************************************)
(* User accounts, the login limiter and the registry's system user:        *)
(* routes/auth.py, the Basic auth of agent.py, k8s/registry_proxy.py and   *)
(* the registry switch of routes/settings.py.                              *)
(*                                                                         *)
(* Every change of the porpulsion-users Secret reads the whole dictionary, *)
(* hashes a password and writes the dictionary back, in one of several     *)
(* threads.  A password is its number, 0 is "no account" or "no secret".   *)
(* The limiter is that of one client address; time is counted in ages.     *)
(* Accounts are not given the system user's name, nor is it renamed.       *)
(*                                                                         *)
(* `why` collects the reasons the properties except.  X_Slip is X with a   *)
(* slip a later edit could make; no behaviour has it.                      *)
(***************************************************************************)
EXTENDS Naturals, Sequences, FiniteSets

CONSTANTS
  Names,      (* of the accounts people have                          *)
  Registry,   (* _REGISTRY_USER                                       *)
  Requests,   (* the requests that may change accounts at once        *)
  Attempts,   (* the logins that may be verified at once              *)
  MaxPw,      (* bound on the passwords of the system user            *)
  Failures, Window, Lockout   (* _LOCKOUT_FAILURES, _RATE_WINDOW, _LOCKOUT_SECONDS *)

ASSUME AccountsAssumption ==
  /\ IsFiniteSet(Names) /\ IsFiniteSet(Attempts)
  /\ Registry \notin Names /\ {"idle", "bad"} \cap (Names \union {Registry}) = {}
  /\ MaxPw \in Nat \ {0} /\ Failures \in Nat \ {0} /\ Window \in Nat
  /\ Attempts # {}                             \* a thread answers
  /\ Lockout \in Nat /\ Lockout > Window        \* 300 seconds and 60

VARIABLES
  users,      (* the hashes in the Secret                                *)
  plain,      (* the password kept beside the system user's hash         *)
  pull,       (* the password in the image pull secret                   *)
  enabled,    (* settings.registry_pull_enabled                          *)
  saved,      (* the same in the state ConfigMap                         *)
  saving,     (* how many threads have yet to write each value there     *)
  lastPw,     (* the last password generated                             *)
  sess,       (* the names in browser sessions, whatever became of them  *)
  req,        (* the requests: what they are, and what they will write   *)
  attempt,    (* the logins being verified                               *)
  failures,   (* _rate_failures: the ages of the failures, oldest first  *)
  lock,       (* _rate_lockout: whether there is one, and what is left   *)
  tries,      (* history: the ages of the failures since the last success *)
              (* and since the agent started                             *)
  earlier,    (* history: the same of its earlier runs                   *)
  forgot,     (* history: the ages of the restarts that forgot some of them *)
  why         (* history: what has gone wrong                            *)

secrets == <<users, plain, pull, enabled, saved, saving, lastPw>>
limiter == <<attempt, failures, lock, tries, earlier, forgot>>
vars == <<secrets, sess, req, limiter, why>>

Accounts == Names \union {Registry}
Dict     == [Accounts -> 0..MaxPw]
Ages     == Seq(0..Window + 1)
Reasons  == {"overlap", "stale-session", "system-session", "edited", "removed", "half",
             "unsaved", "unread"}

TypeOK ==
  /\ users \in Dict
  /\ {plain, pull, lastPw} \subseteq 0..MaxPw
  /\ {enabled, saved} \subseteq BOOLEAN /\ saving \in [BOOLEAN -> Nat]
  /\ sess \subseteq Accounts
  /\ req \in [Requests -> [kind : {"none", "users", "setup", "boot", "teardown"}, at : {"idle", "start", "read", "pull"},
                           dict : Dict, pw : 0..MaxPw, session : SUBSET Names, stale : BOOLEAN]]
  /\ attempt \in [Attempts -> {"idle", "bad"} \union Accounts]
  /\ failures \in Ages /\ tries \in Ages /\ earlier \in Ages /\ forgot \in Ages
  /\ lock \in [on : BOOLEAN, left : 0..Lockout]
  /\ why \subseteq Reasons

Nobody == [a \in Accounts |-> 0]
Idle   == [kind |-> "none", at |-> "idle", dict |-> Nobody, pw |-> 0, session |-> {}, stale |-> FALSE]
NoLock == [on |-> FALSE, left |-> 0]

Init ==
  /\ users = Nobody /\ plain = 0 /\ pull = 0 /\ lastPw = 0
  /\ enabled = FALSE /\ saved = FALSE /\ saving = [on \in BOOLEAN |-> 0] /\ sess = {}
  /\ req = [r \in Requests |-> Idle] /\ attempt = [t \in Attempts |-> "idle"]
  /\ failures = <<>> /\ lock = NoLock /\ why = {}
  /\ tries = <<>> /\ earlier = <<>> /\ forgot = <<>>

Present   == {a \in Accounts : users[a] # 0}
Switching == \E r \in Requests : req[r].kind \in {"setup", "boot", "teardown"}

-----------------------------------------------------------------------------
(* The pages that change accounts: _load_users and the checks, then         *)
(* _save_users.                                                            *)

\* A request has read the Secret and will write dict; session is what it makes
\* of its browser's name.
Reads(r, dict, session) ==
  /\ req[r].at = "idle"
  /\ req' = [req EXCEPT ![r] = [Idle EXCEPT !.kind = "users", !.at = "read", !.dict = dict, !.pw = plain,
                                       !.session = session]]
  /\ UNCHANGED <<users, plain, pull, enabled, saved, saving, sess, limiter>>

\* The first account, or one more from a session.
Signup(r) ==
  \E n \in Names \ Present :
    /\ Present = {} \/ sess # {}
    /\ Reads(r, [users EXCEPT ![n] = 1], IF Present = {} THEN {n} ELSE {})
    /\ UNCHANGED <<lastPw, why>>

AddUser(r) ==
  /\ sess # {}
  /\ \E n \in Names \ Present : Reads(r, [users EXCEPT ![n] = 1], {})
  /\ UNCHANGED <<lastPw, why>>

\* A new name, a new password or both; a browser that renames its own account
\* goes on under the new name.
EditUser(r) ==
  /\ \E by \in sess, o \in Present :
       \/ \E n \in Names \ Present :
            /\ o # Registry
            /\ Reads(r, [users EXCEPT ![o] = 0, ![n] = users[o]], IF o = by THEN {n} ELSE {})
            /\ UNCHANGED lastPw
       \/ /\ o = Registry /\ lastPw < MaxPw   \* a new hash beside the old password
          /\ lastPw' = lastPw + 1
          /\ Reads(r, [users EXCEPT ![o] = lastPw'], {})
  /\ UNCHANGED why

Removes(r, by, target) ==
  /\ Reads(r, [users EXCEPT ![target] = 0], {})
  /\ why' = why \union (IF by \notin Present THEN {"stale-session"} ELSE {})
                \union (IF by = Registry THEN {"system-session"} ELSE {})
  /\ UNCHANGED lastPw

RemoveUser_Slip(r) ==
  \E by \in sess, target \in Present : Cardinality(Present) > 1 /\ Removes(r, by, target)

\* Not oneself, and not the last account; the system user counts as one.
RemoveUser(r) ==
  \E by \in sess, target \in Present :
    target # by /\ Cardinality(Present) > 1 /\ Removes(r, by, target)

\* Who has read before has an old dictionary now.
Outdated(r) == [q \in Requests |-> IF q # r /\ req[q].at = "read" THEN [req[q] EXCEPT !.stale = TRUE] ELSE req[q]]

\* Created, or patched after a 409, or an error the user is shown.
SaveUsers(r) ==
  LET dict == req[r].dict IN
  /\ req[r].kind = "users" /\ req[r].at = "read"
  /\ \/ /\ users' = dict
        /\ plain' = IF dict[Registry] = 0 THEN 0 ELSE req[r].pw
        /\ \E left \in {{}, sess} : sess' = IF req[r].session = {} THEN sess ELSE left \union req[r].session
        /\ req' = [Outdated(r) EXCEPT ![r] = Idle]
        /\ why' = why \union (IF req[r].stale THEN {"overlap"} ELSE {})
                      \union (IF users[Registry] # 0 /\ dict[Registry] = 0 THEN {"removed"} ELSE {})
                      \union (IF dict[Registry] \notin {0, users[Registry]} THEN {"edited"} ELSE {})
     \/ UNCHANGED <<users, plain, sess, why>> /\ req' = [req EXCEPT ![r] = Idle]
  /\ UNCHANGED <<pull, enabled, saved, saving, lastPw, limiter>>

Logout ==
  \E n \in sess : sess' = sess \ {n} /\ UNCHANGED <<secrets, req, limiter, why>>

-----------------------------------------------------------------------------
(* The registry switch.                                                    *)

Begins(r, kind) == req' = [req EXCEPT ![r] = [Idle EXCEPT !.kind = kind, !.at = "start"]]

\* POST /settings with registry_pull_enabled, set before it is acted on.
Switch(r) ==
  /\ req[r].at = "idle" /\ sess # {}
  /\ \E on \in BOOLEAN : enabled' = on /\ Begins(r, IF on THEN "setup" ELSE "teardown")
  /\ why' = why \union (IF Switching THEN {"overlap"} ELSE {})
  /\ UNCHANGED <<users, plain, pull, saved, saving, lastPw, sess, limiter>>

\* _ensure_registry_user keeps a password there is, or makes one; from here on a
\* setup repairs what was missing.  A read that fails ends like a write that fails.
SetupReads(r) ==
  /\ req[r].kind \in {"setup", "boot"} /\ req[r].at = "start"
  /\ IF users[Registry] # 0 THEN req' = [req EXCEPT ![r].at = "pull", ![r].pw = plain] /\ UNCHANGED lastPw
     ELSE /\ lastPw < MaxPw /\ lastPw' = lastPw + 1
          /\ req' = [req EXCEPT ![r].at = "read", ![r].pw = lastPw + 1,
                                ![r].dict = [users EXCEPT ![Registry] = lastPw + 1]]
  /\ why' = why \ {"half", "removed", "unsaved", "unread"}
  /\ UNCHANGED <<users, plain, pull, enabled, saved, saving, sess, limiter>>

TeardownReads(r) ==
  /\ req[r].kind = "teardown" /\ req[r].at = "start"
  /\ req' = IF users[Registry] = 0 THEN [req EXCEPT ![r].at = "pull"]
            ELSE [req EXCEPT ![r].at = "read", ![r].dict = [users EXCEPT ![Registry] = 0]]
  /\ UNCHANGED <<secrets, sess, limiter, why>>

\* The switch is over, and POST /settings has the settings saved, by a thread that
\* may meet one with other settings; or it answers 400 for a later field and saves
\* nothing, as does the agent that starts.
SwitchEnds(r, reasons) ==
  /\ req' = [req EXCEPT ![r] = Idle]
  /\ \/ /\ req[r].kind # "boot"
        /\ saving' = [saving EXCEPT ![enabled] = @ + 1]
        /\ why' = why \union reasons \union (IF saving[~enabled] > 0 THEN {"unsaved"} ELSE {})
     \/ /\ UNCHANGED saving
        /\ why' = why \union reasons \union (IF req[r].kind = "boot" THEN {} ELSE {"unsaved"})

\* Both go on to the pull secret; a failure ends the setup, not the teardown.
SwitchSaves(r) ==
  /\ req[r].kind \in {"setup", "boot", "teardown"} /\ req[r].at = "read"
  /\ \/ /\ users' = req[r].dict /\ plain' = req[r].pw
        /\ req' = [Outdated(r) EXCEPT ![r].at = "pull"]
        /\ why' = why \union (IF req[r].stale THEN {"overlap"} ELSE {})
        /\ UNCHANGED saving
     \/ /\ req[r].kind # "teardown" /\ SwitchEnds(r, {"half"})
        /\ UNCHANGED <<users, plain>>
     \/ /\ req[r].kind = "teardown" /\ req' = [req EXCEPT ![r].at = "pull"]
        /\ why' = why \union {"half"}
        /\ UNCHANGED <<users, plain, saving>>
  /\ UNCHANGED <<pull, enabled, saved, lastPw, sess, limiter>>

SwitchPulls_Slip(r) ==
  /\ req[r].at = "pull"
  /\ SwitchEnds(r, {})
  /\ pull' = IF pull = 0 \/ req[r].pw = 0 THEN req[r].pw ELSE pull
  /\ UNCHANGED <<users, plain, enabled, saved, lastPw, sess, limiter>>

\* _ensure_pull_secret creates or replaces the secret, the teardown deletes it.
SwitchPulls(r) ==
  /\ req[r].at = "pull"
  /\ \/ pull' = req[r].pw /\ SwitchEnds(r, {})
     \/ UNCHANGED pull /\ SwitchEnds(r, {"half"})
  /\ UNCHANGED <<users, plain, enabled, saved, lastPw, sess, limiter>>

\* Whatever else is kept beside the settings is saved with them.
SaveState ==
  /\ saving' = [saving EXCEPT ![enabled] = @ + 1]
  /\ UNCHANGED <<users, plain, pull, enabled, saved, lastPw, sess, req, limiter, why>>

\* _write: the threads finish in any order, and an error is only logged.
WriteState(on) ==
  /\ saving[on] > 0
  /\ saving' = [saving EXCEPT ![on] = @ - 1]
  /\ \/ saved' = on /\ UNCHANGED why
     \/ UNCHANGED saved /\ why' = why \union (IF saved # on THEN {"unsaved"} ELSE {})
  /\ UNCHANGED <<users, plain, pull, enabled, lastPw, sess, req, limiter>>

\* The agent starts again, its browser sessions kept or not, with the settings of
\* the ConfigMap, or the defaults when it cannot be read, and sets the registry up
\* when they say so.  The saves under way are lost, and the limiter forgets.
Restart ==
  /\ enabled' \in {saved, FALSE} /\ saving' = [on \in BOOLEAN |-> 0]
  /\ \E r \in Requests : req' = [q \in Requests |->
       IF q = r /\ enabled' THEN [Idle EXCEPT !.kind = "boot", !.at = "start"] ELSE Idle]
  /\ sess' \in {sess, {}}
  /\ attempt' = [t \in Attempts |-> "idle"] /\ failures' = <<>> /\ lock' = NoLock
  /\ tries' = <<>> /\ earlier' = earlier \o tries
  /\ forgot' = IF tries = <<>> THEN forgot ELSE Append(forgot, 0)
  /\ why' = why \union (IF Switching THEN {"half"} ELSE {})
                \union (IF saving[~saved] > 0 THEN {"unsaved"} ELSE {})
                \union (IF enabled' # saved THEN {"unread"} ELSE {})
  /\ UNCHANGED <<users, plain, pull, saved, lastPw>>

-----------------------------------------------------------------------------
(* Logging in, by the page or with Basic auth.                             *)

\* _is_rate_limited, with the users as they are now; the verification follows.
StartLogin(t) ==
  /\ attempt[t] = "idle" /\ Present # {}
  /\ lock.left = 0
  /\ lock' = NoLock
  /\ failures' = IF lock.on THEN <<>> ELSE failures
  /\ \E result \in {"bad"} \union Present : attempt' = [attempt EXCEPT ![t] = result]
  /\ UNCHANGED <<secrets, sess, req, tries, earlier, forgot, why>>

\* The session is made before the password is looked at.
LoginSucceeds_Slip(t) ==
  /\ attempt[t] # "idle"
  /\ attempt' = [attempt EXCEPT ![t] = "idle"]
  /\ failures' = <<>> /\ lock' = NoLock /\ tries' = <<>> /\ earlier' = <<>> /\ forgot' = <<>>
  /\ sess' = sess \union {attempt[t]}
  /\ UNCHANGED <<secrets, req, why>>

\* _clear_failures, which lifts a lockout that came meanwhile, too.  The page makes
\* a session, for the system user as for anybody; Basic auth makes none.
LoginSucceeds(t) ==
  /\ attempt[t] \in Accounts
  /\ attempt' = [attempt EXCEPT ![t] = "idle"]
  /\ failures' = <<>> /\ lock' = NoLock /\ tries' = <<>> /\ earlier' = <<>> /\ forgot' = <<>>
  /\ sess' \in {sess, sess \union {attempt[t]}}
  /\ UNCHANGED <<secrets, req, why>>

\* The oldest are dropped until one is within the window.
Within(ages) ==
  LET old == CHOOSE k \in 0..Len(ages) :
               /\ \A i \in 1..k : ages[i] > Window
               /\ k < Len(ages) => ages[k + 1] <= Window
  IN  SubSeq(ages, old + 1, Len(ages))

RecordFailure_Slip(t) ==
  LET q == Append(Within(failures), 0) IN
  /\ attempt[t] = "bad"
  /\ attempt' = [attempt EXCEPT ![t] = "idle"]
  /\ tries' = Append(tries, 0)
  /\ failures' = q
  /\ lock' = IF Len(q) > Failures THEN [on |-> TRUE, left |-> Lockout] ELSE lock
  /\ UNCHANGED <<secrets, sess, req, earlier, forgot, why>>

\* _record_failure.
RecordFailure(t) ==
  LET q == Append(Within(failures), 0) IN
  /\ attempt[t] = "bad"
  /\ attempt' = [attempt EXCEPT ![t] = "idle"]
  /\ tries' = Append(tries, 0)
  /\ IF Len(q) >= Failures THEN failures' = <<>> /\ lock' = [on |-> TRUE, left |-> Lockout]
     ELSE failures' = q /\ UNCHANGED lock
  /\ UNCHANGED <<secrets, sess, req, earlier, forgot, why>>

Older(ages) == [i \in 1..Len(ages) |-> IF ages[i] > Window THEN ages[i] ELSE ages[i] + 1]

Tick ==
  /\ failures' = Older(failures)
  /\ tries' = Within(Older(tries)) /\ earlier' = Within(Older(earlier)) /\ forgot' = Within(Older(forgot))
  /\ lock' = [lock EXCEPT !.left = IF @ = 0 THEN 0 ELSE @ - 1]
  /\ UNCHANGED <<secrets, sess, req, attempt, why>>

Next ==
  \/ \E r \in Requests : \/ Signup(r) \/ AddUser(r) \/ EditUser(r) \/ RemoveUser(r) \/ SaveUsers(r)
                         \/ Switch(r) \/ SetupReads(r) \/ TeardownReads(r) \/ SwitchSaves(r) \/ SwitchPulls(r)
  \/ \E t \in Attempts : StartLogin(t) \/ LoginSucceeds(t) \/ RecordFailure(t)
  \/ \E on \in BOOLEAN : WriteState(on)
  \/ Logout \/ SaveState \/ Restart \/ Tick

Spec == Init /\ [][Next]_vars

-----------------------------------------------------------------------------
(* Properties.                                                             *)

\* Either nobody has an account and the signup page is open, or somebody has one
\* and may log in: the system user alone never closes the door, unless two
\* requests wrote what they had read before the other (auth.py:374), or a removal
\* came from the session of the system user or of an account that is gone.
SomebodyCanLogIn ==
  why \cap {"overlap", "stale-session", "system-session"} = {} => Present = {} \/ Present \cap Names # {}

\* Once no request is at work, the system user and the pull secret exist when the
\* registry is on, with one password, and neither does when it is off, unless a
\* step failed or the agent died between the two, requests overlapped, the system
\* user was changed or removed on the users page, the settings were not saved (a
\* save failed, met one with the switch the other way, or was lost in a restart, or
\* a later field was refused), or an agent that started could not read them.
PullSecretMatches ==
  (\A r \in Requests : req[r].at = "idle") /\ why = {} =>
    IF enabled THEN users[Registry] # 0 /\ pull = users[Registry]
    ELSE users[Registry] = 0 /\ pull = 0

\* However logins overlap, one address has at most so many passwords refused
\* within the window and without a success: those that reach the limit, and twice
\* those that were being verified beside them (the check that finds a lockout
\* over forgets failures recorded during it).  The limiter is in memory: each
\* restart of the agent within the window lets in as many again.
TriesAreBounded ==
  Len(earlier) + Len(tries) <= (Len(forgot) + 1) * (Failures + 2 * (Cardinality(Attempts) - 1))
=============================================================================
