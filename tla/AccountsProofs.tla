--------------------------- MODULE AccountsProofs ---------------------------
(***************************************************************************)
(* For every number of people, requests and logins, every safety property  *)
(* of module Accounts: its types, that somebody can always log in, that    *)
(* the pull secret holds the password of the system user, and how many     *)
(* passwords one address may try.  Each has an inductive invariant of its  *)
(* own, over the types.                                                    *)
(***************************************************************************)
EXTENDS Accounts, SequenceTheorems, FiniteSetTheorems, WellFoundedInduction, TLAPS

Request == [kind : {"none", "users", "setup", "boot", "teardown"}, at : {"idle", "start", "read", "pull"},
            dict : Dict, pw : 0..MaxPw, session : SUBSET Names, stale : BOOLEAN]

\* The types of what is not the limiter's.
AccountTypes ==
  /\ users \in Dict
  /\ {plain, pull, lastPw} \subseteq 0..MaxPw
  /\ {enabled, saved} \subseteq BOOLEAN /\ saving \in [BOOLEAN -> Nat]
  /\ sess \subseteq Accounts
  /\ req \in [Requests -> Request]
  /\ attempt \in [Attempts -> {"idle", "bad"} \union Accounts]

Exempt    == why \cap {"overlap", "stale-session", "system-session"} # {}
HasPerson(dict) == \E n \in Names : dict[n] # 0

AtTheSwitch == \E r \in Requests : req[r].kind \in {"setup", "boot", "teardown"} \/ req[r].at = "pull"

\* The registry is off, and nobody will write that it is on.
RegistryIsOff == enabled = FALSE /\ saved = FALSE /\ saving[TRUE] = 0

\* Until the first account nobody has a session, no login is verified and the
\* registry is off; from then on somebody has an account.
SomebodyOrNothing ==
  \/ Exempt
  \/ HasPerson(users)
  \/ /\ Present = {} /\ sess = {} /\ RegistryIsOff /\ ~AtTheSwitch
     /\ \A t \in Attempts : attempt[t] \notin Accounts

\* Who will write a dictionary that is not outdated leaves somebody in it.
WritesLeaveSomebody ==
  Exempt \/ \A r \in Requests : req[r].at = "read" /\ ~req[r].stale => HasPerson(req[r].dict)

IInv == AccountTypes /\ SomebodyOrNothing /\ WritesLeaveSomebody

\* A request that has not begun is a request.
LEMMA IdleType == Idle \in Request /\ Nobody \in Dict
<1>1. Nobody \in Dict
  BY AccountsAssumption DEF Nobody, Dict
<1> QED
  BY <1>1, AccountsAssumption DEF Idle, Request

\* The initial states satisfy the invariant.
LEMMA InitIInv ==
  ASSUME Init
  PROVE  IInv
<1>1. AccountTypes
  <2>1. 0 \in 0..MaxPw
    BY AccountsAssumption
  <2>2. req \in [Requests -> Request] /\ users \in Dict
    BY IdleType DEF Init
  <2>3. attempt \in [Attempts -> {"idle", "bad"} \union Accounts]
    BY DEF Init
  <2>4. saving \in [BOOLEAN -> Nat]
    BY DEF Init
  <2> QED
    BY <2>1, <2>2, <2>3, <2>4 DEF Init, AccountTypes
<1>2. SomebodyOrNothing
  <2>1. Present = {} /\ ~AtTheSwitch
    BY DEF Init, Present, Nobody, AtTheSwitch, Idle
  <2>2. \A t \in Attempts : attempt[t] \notin Accounts
    BY AccountsAssumption DEF Init, Accounts
  <2> QED
    BY <2>1, <2>2 DEF Init, SomebodyOrNothing, RegistryIsOff
<1>3. WritesLeaveSomebody
  BY DEF Init, WritesLeaveSomebody, Idle
<1> QED
  BY <1>1, <1>2, <1>3 DEF IInv

\* A request that reads the Secret is one that will write it.
LEMMA ReadsType ==
  ASSUME AccountTypes, NEW r \in Requests, NEW dict \in Dict, NEW session \in SUBSET Names,
         Reads(r, dict, session)
  PROVE  /\ req' \in [Requests -> Request]
         /\ UNCHANGED <<users, plain, pull, enabled, saved, saving, sess, attempt>>
         /\ req'[r].kind = "users" /\ req'[r].dict = dict
         /\ \A q \in Requests \ {r} : req'[q] = req[q]
<1>1. [Idle EXCEPT !.kind = "users", !.at = "read", !.dict = dict, !.pw = plain, !.session = session]
        \in Request
  BY IdleType DEF AccountTypes, Request
<1> QED
  BY <1>1 DEF AccountTypes, Reads, limiter, Idle

\* One count of several goes up, or down, and another stays.
LEMMA OneCount ==
  ASSUME NEW S, NEW f \in [S -> Nat], NEW x \in S, NEW y \in S, x # y
  PROVE  /\ [f EXCEPT ![x] = @ + 1] \in [S -> Nat]
         /\ [f EXCEPT ![x] = @ + 1][x] > 0 /\ [f EXCEPT ![x] = @ + 1][y] = f[y]
         /\ f[x] > 0 => [f EXCEPT ![x] = @ - 1] \in [S -> Nat] /\ [f EXCEPT ![x] = @ - 1][y] = f[y]
  OBVIOUS

\* A save that begins is one thread more, one that ends a thread less.
LEMMA SavesAreCounted ==
  ASSUME AccountTypes, NEW on \in BOOLEAN
  PROVE  /\ saving' = [saving EXCEPT ![on] = @ + 1] =>
              saving' \in [BOOLEAN -> Nat] /\ saving'[on] > 0 /\ saving'[~on] = saving[~on]
         /\ saving[on] > 0 /\ saving' = [saving EXCEPT ![on] = @ - 1] =>
              saving' \in [BOOLEAN -> Nat] /\ saving'[~on] = saving[~on]
<1>1. saving \in [BOOLEAN -> Nat]
  BY DEF AccountTypes
<1>2. (~on) \in BOOLEAN /\ on # ~on
  OBVIOUS
<1>3. /\ [saving EXCEPT ![on] = @ + 1] \in [BOOLEAN -> Nat]
      /\ [saving EXCEPT ![on] = @ + 1][on] > 0 /\ [saving EXCEPT ![on] = @ + 1][~on] = saving[~on]
      /\ saving[on] > 0 => /\ [saving EXCEPT ![on] = @ - 1] \in [BOOLEAN -> Nat]
                           /\ [saving EXCEPT ![on] = @ - 1][~on] = saving[~on]
  BY <1>1, <1>2, OneCount, Zenon
<1> QED
  BY <1>3, Zenon

\* A switch that ends is no request any more, and at most begins a save.
LEMMA SwitchEndType ==
  ASSUME AccountTypes, NEW r \in Requests, NEW reasons, SwitchEnds(r, reasons)
  PROVE  /\ req' \in [Requests -> Request] /\ saving' \in [BOOLEAN -> Nat]
         /\ why \subseteq why' /\ reasons \subseteq why'
         /\ why' \subseteq why \union reasons \union {"unsaved"}
<1>1. enabled \in BOOLEAN
  BY DEF AccountTypes
<1>2. req' \in [Requests -> Request]
  BY IdleType DEF SwitchEnds, AccountTypes
<1>3. saving' \in [BOOLEAN -> Nat]
  BY <1>1, SavesAreCounted DEF SwitchEnds, AccountTypes
<1> QED
  BY <1>2, <1>3 DEF SwitchEnds

\* A request whose dictionary is outdated is a request still.
LEMMA OutdatedType ==
  ASSUME AccountTypes, NEW r \in Requests
  PROVE  /\ Outdated(r) \in [Requests -> Request]
         /\ \A q \in Requests : /\ Outdated(r)[q].kind = req[q].kind
                                /\ Outdated(r)[q].at = req[q].at
                                /\ Outdated(r)[q].dict = req[q].dict
                                /\ req[q].stale => Outdated(r)[q].stale
  BY ZenonT(60) DEF AccountTypes, Outdated, Request

\* The dictionary a page will write is a dictionary.
LEMMA PageReads ==
  ASSUME AccountTypes, NEW r \in Requests, Signup(r) \/ AddUser(r) \/ EditUser(r) \/ RemoveUser(r)
  PROVE  /\ lastPw' \in 0..MaxPw /\ why \subseteq why'
         /\ \E dict \in Dict, session \in SUBSET Names : Reads(r, dict, session)
<1> USE DEF AccountTypes, Dict, Accounts
<1>1. CASE Signup(r) \/ AddUser(r)
  <2>1. PICK n \in Names, session \in SUBSET Names : Reads(r, [users EXCEPT ![n] = 1], session)
    BY <1>1 DEF Signup, AddUser
  <2>2. [users EXCEPT ![n] = 1] \in Dict
    BY AccountsAssumption
  <2> QED
    BY <1>1, <2>1, <2>2 DEF Signup, AddUser
<1>2. CASE EditUser(r)
  <2>1. PICK by \in sess, o \in Present :
       \/ \E n \in Names \ Present :
            /\ Reads(r, [users EXCEPT ![o] = 0, ![n] = users[o]], IF o = by THEN {n} ELSE {})
            /\ UNCHANGED lastPw
       \/ /\ lastPw < MaxPw
          /\ lastPw' = lastPw + 1
          /\ Reads(r, [users EXCEPT ![o] = lastPw'], {})
    BY <1>2 DEF EditUser
  <2>2. ASSUME NEW n \in Names \ Present, UNCHANGED lastPw,
               Reads(r, [users EXCEPT ![o] = 0, ![n] = users[o]], IF o = by THEN {n} ELSE {})
        PROVE  \E dict \in Dict, session \in SUBSET Names : Reads(r, dict, session)
    <3>1. [users EXCEPT ![o] = 0, ![n] = users[o]] \in Dict
      BY AccountsAssumption DEF Present
    <3> QED
      BY <2>2, <3>1
  <2>3. ASSUME lastPw < MaxPw, lastPw' = lastPw + 1, Reads(r, [users EXCEPT ![o] = lastPw'], {})
        PROVE  lastPw' \in 0..MaxPw /\ \E dict \in Dict, session \in SUBSET Names : Reads(r, dict, session)
    <3>1. lastPw' \in 0..MaxPw
      BY <2>3, AccountsAssumption
    <3>2. [users EXCEPT ![o] = lastPw'] \in Dict
      BY <3>1 DEF Present
    <3> QED
      BY <2>3, <3>1, <3>2
  <2> QED
    BY <1>2, <2>1, <2>2, <2>3 DEF EditUser
<1>3. CASE RemoveUser(r)
  <2>1. PICK by \in sess, target \in Present : Removes(r, by, target)
    BY <1>3 DEF RemoveUser
  <2>2. [users EXCEPT ![target] = 0] \in Dict
    BY AccountsAssumption DEF Present
  <2> QED
    BY <2>1, <2>2 DEF Removes
<1> QED
  BY <1>1, <1>2, <1>3

\* Every action keeps the types.
LEMMA AccountTypesStep ==
  ASSUME AccountTypes, [Next]_vars
  PROVE  AccountTypes'
<1> USE DEF AccountTypes
<1>1. ASSUME NEW r \in Requests, Signup(r) \/ AddUser(r) \/ EditUser(r) \/ RemoveUser(r)
      PROVE  AccountTypes'
  BY <1>1, PageReads, ReadsType
<1>2. ASSUME NEW r \in Requests, SaveUsers(r)
      PROVE  AccountTypes'
  <2>1. req[r].dict \in Dict /\ req[r].pw \in 0..MaxPw /\ req[r].session \subseteq Names
    BY DEF Request
  <2>2. users' \in Dict /\ plain' \in 0..MaxPw /\ sess' \subseteq Accounts
    BY <1>2, <2>1, AccountsAssumption DEF SaveUsers, Accounts
  <2>3. req' \in [Requests -> Request]
    BY <1>2, OutdatedType, IdleType DEF SaveUsers
  <2> QED
    BY <1>2, <2>2, <2>3 DEF SaveUsers, limiter
<1>3. CASE Logout
  BY <1>3 DEF Logout, secrets, limiter
<1>4. ASSUME NEW r \in Requests, Switch(r)
      PROVE  AccountTypes'
  <2>1. PICK on \in BOOLEAN : enabled' = on /\ Begins(r, IF on THEN "setup" ELSE "teardown")
    BY <1>4 DEF Switch
  <2>2. [Idle EXCEPT !.kind = IF on THEN "setup" ELSE "teardown", !.at = "start"] \in Request
    BY IdleType DEF Request
  <2>3. req' \in [Requests -> Request]
    BY <2>1, <2>2 DEF Begins
  <2> QED
    BY <1>4, <2>1, <2>3 DEF Switch, limiter
<1>5. ASSUME NEW r \in Requests, SetupReads(r)
      PROVE  AccountTypes'
  <2>1. CASE users[Registry] # 0
    <3>1. [req[r] EXCEPT !.at = "pull", !.pw = plain] \in Request
      BY DEF Request
    <3>2. req' = [req EXCEPT ![r] = [@ EXCEPT !.at = "pull", !.pw = plain]]
      BY <1>5, <2>1 DEF SetupReads
    <3>3. req' \in [Requests -> Request]
      BY <3>1, <3>2
    <3> QED
      BY <1>5, <2>1, <3>3 DEF SetupReads, limiter
  <2>2. CASE users[Registry] = 0
    <3>1. lastPw + 1 \in 0..MaxPw /\ lastPw' = lastPw + 1
      BY <1>5, <2>2, AccountsAssumption DEF SetupReads
    <3>2. [users EXCEPT ![Registry] = lastPw + 1] \in Dict
      BY <3>1 DEF Dict, Accounts
    <3>3. [req[r] EXCEPT !.at = "read", !.pw = lastPw + 1, !.dict = [users EXCEPT ![Registry] = lastPw + 1]]
            \in Request
      BY <3>1, <3>2 DEF Request
    <3>4. req' = [req EXCEPT ![r] = [@ EXCEPT !.at = "read", !.pw = lastPw + 1,
                                             !.dict = [users EXCEPT ![Registry] = lastPw + 1]]]
      BY <1>5, <2>2 DEF SetupReads
    <3>5. req' \in [Requests -> Request]
      BY <3>3, <3>4
    <3> QED
      BY <1>5, <3>1, <3>5 DEF SetupReads, limiter
  <2> QED
    BY <2>1, <2>2
<1>6. ASSUME NEW r \in Requests, TeardownReads(r)
      PROVE  AccountTypes'
  <2>1. [users EXCEPT ![Registry] = 0] \in Dict
    BY AccountsAssumption DEF Dict, Accounts
  <2>2. /\ [req[r] EXCEPT !.at = "pull"] \in Request
        /\ [req[r] EXCEPT !.at = "read", !.dict = [users EXCEPT ![Registry] = 0]] \in Request
    BY <2>1 DEF Request
  <2>3. req' = [req EXCEPT ![r] = IF users[Registry] = 0 THEN [req[r] EXCEPT !.at = "pull"]
                                 ELSE [req[r] EXCEPT !.at = "read", !.dict = [users EXCEPT ![Registry] = 0]]]
    BY <1>6 DEF TeardownReads
  <2>4. req' \in [Requests -> Request]
    BY <2>2, <2>3
  <2> QED
    BY <1>6, <2>4 DEF TeardownReads, secrets, limiter
<1>7. ASSUME NEW r \in Requests, SwitchSaves(r)
      PROVE  AccountTypes'
  <2>1. req[r].dict \in Dict /\ req[r].pw \in 0..MaxPw
    BY DEF Request
  <2>2. users' \in Dict /\ plain' \in 0..MaxPw
    BY <1>7, <2>1 DEF SwitchSaves
  <2>3. /\ [Outdated(r)[r] EXCEPT !.at = "pull"] \in Request /\ [req[r] EXCEPT !.at = "pull"] \in Request
        /\ Outdated(r) \in [Requests -> Request]
    <3>1. Outdated(r) \in [Requests -> Request]
      BY OutdatedType
    <3>2. Outdated(r)[r] \in Request /\ req[r] \in Request
      BY <3>1
    <3> QED
      BY <3>1, <3>2 DEF Request
  <2>4. \/ req' = [Outdated(r) EXCEPT ![r] = [@ EXCEPT !.at = "pull"]] /\ saving' = saving
        \/ SwitchEnds(r, {"half"})
        \/ req' = [req EXCEPT ![r] = [@ EXCEPT !.at = "pull"]] /\ saving' = saving
    BY <1>7 DEF SwitchSaves
  <2>5. req' \in [Requests -> Request] /\ saving' \in [BOOLEAN -> Nat]
    BY <2>3, <2>4, SwitchEndType
  <2> QED
    BY <1>7, <2>2, <2>5 DEF SwitchSaves, limiter
<1>8. ASSUME NEW r \in Requests, SwitchPulls(r)
      PROVE  AccountTypes'
  <2>1. req' \in [Requests -> Request] /\ saving' \in [BOOLEAN -> Nat]
    BY <1>8, SwitchEndType DEF SwitchPulls
  <2>2. pull' \in 0..MaxPw
    BY <1>8 DEF SwitchPulls, Request
  <2> QED
    BY <1>8, <2>1, <2>2 DEF SwitchPulls, limiter
<1>9. CASE Restart
  <2>1. [Idle EXCEPT !.kind = "boot", !.at = "start"] \in Request
    BY IdleType DEF Request
  <2>2. req' \in [Requests -> Request]
    BY <1>9, <2>1, IdleType DEF Restart
  <2>3. enabled' \in BOOLEAN /\ saving' \in [BOOLEAN -> Nat]
    BY <1>9 DEF Restart
  <2> QED
    BY <1>9, <2>2, <2>3 DEF Restart
<1>14. CASE SaveState
  <2>1. saving' \in [BOOLEAN -> Nat]
    BY <1>14, SavesAreCounted DEF SaveState
  <2> QED
    BY <1>14, <2>1 DEF SaveState, limiter
<1>15. ASSUME NEW on \in BOOLEAN, WriteState(on)
       PROVE  AccountTypes'
  <2>1. saving' \in [BOOLEAN -> Nat] /\ saved' \in BOOLEAN
    BY <1>15, SavesAreCounted DEF WriteState
  <2> QED
    BY <1>15, <2>1 DEF WriteState, limiter
<1>10. ASSUME NEW t \in Attempts, StartLogin(t)
       PROVE  AccountTypes'
  BY <1>10 DEF StartLogin, secrets, Present
<1>11. ASSUME NEW t \in Attempts, LoginSucceeds(t)
       PROVE  AccountTypes'
  BY <1>11 DEF LoginSucceeds, secrets, Accounts
<1>12. ASSUME NEW t \in Attempts, RecordFailure(t)
       PROVE  AccountTypes'
  BY <1>12 DEF RecordFailure, secrets
<1>13. CASE Tick \/ UNCHANGED vars
  BY <1>13 DEF Tick, vars, secrets, limiter
<1> QED
  BY <1>1, <1>2, <1>3, <1>4, <1>5, <1>6, <1>7, <1>8, <1>9, <1>10, <1>11, <1>12, <1>13, <1>14, <1>15 DEF Next

\* What excuses once excuses for good.
LEMMA ExemptStays ==
  ASSUME Exempt, [Next]_vars
  PROVE  Exempt'
<1> USE DEF Exempt
<1>1. ASSUME NEW r \in Requests, Signup(r) \/ AddUser(r) \/ EditUser(r) \/ RemoveUser(r) \/ SaveUsers(r)
      PROVE  Exempt'
  BY <1>1 DEF Signup, AddUser, EditUser, RemoveUser, Removes, SaveUsers
<1>2. ASSUME NEW r \in Requests, Switch(r) \/ SwitchSaves(r) \/ SwitchPulls(r)
      PROVE  Exempt'
  BY <1>2 DEF Switch, SwitchSaves, SwitchPulls, SwitchEnds
<1>3. ASSUME NEW r \in Requests, SetupReads(r) \/ TeardownReads(r)
      PROVE  Exempt'
  BY <1>3 DEF SetupReads, TeardownReads
<1>4. ASSUME NEW t \in Attempts, StartLogin(t) \/ LoginSucceeds(t) \/ RecordFailure(t)
      PROVE  Exempt'
  BY <1>4 DEF StartLogin, LoginSucceeds, RecordFailure
<1>5. CASE Logout \/ SaveState \/ Restart \/ Tick \/ UNCHANGED vars
  BY <1>5 DEF Logout, SaveState, Restart, Tick, vars
<1>6. ASSUME NEW on \in BOOLEAN, WriteState(on)
      PROVE  Exempt'
  BY <1>6 DEF WriteState
<1> QED
  BY <1>1, <1>2, <1>3, <1>4, <1>5, <1>6 DEF Next

\* A page that read the Secret leaves somebody in what it will write.
LEMMA PageLeavesSomebody ==
  ASSUME AccountTypes, SomebodyOrNothing, ~Exempt, ~Exempt', NEW r \in Requests,
         Signup(r) \/ AddUser(r) \/ EditUser(r) \/ RemoveUser(r)
  PROVE  HasPerson(req'[r].dict)
<1> USE DEF HasPerson
<1>t. users \in Dict /\ sess \subseteq Accounts /\ Registry \notin Names
  BY AccountsAssumption DEF AccountTypes
<1>r. ASSUME NEW dict, NEW session, Reads(r, dict, session)
      PROVE  req'[r].dict = dict
  BY <1>r DEF Reads, AccountTypes, Idle
<1>s. sess # {} => HasPerson(users)
  BY DEF SomebodyOrNothing
<1>1. CASE Signup(r) \/ AddUser(r)
  <2>1. PICK n \in Names : \E session : Reads(r, [users EXCEPT ![n] = 1], session)
    BY <1>1 DEF Signup, AddUser
  <2>2. [users EXCEPT ![n] = 1][n] = 1
    BY <1>t DEF Dict, Accounts
  <2>3. req'[r].dict = [users EXCEPT ![n] = 1]
    BY <1>r, <2>1
  <2> QED
    BY <2>2, <2>3
<1>2. CASE EditUser(r)
  <2>1. PICK by \in sess, o \in Present :
       \/ \E n \in Names \ Present :
            Reads(r, [users EXCEPT ![o] = 0, ![n] = users[o]], IF o = by THEN {n} ELSE {})
       \/ /\ o = Registry
          /\ Reads(r, [users EXCEPT ![o] = lastPw'], {})
    BY <1>2 DEF EditUser
  <2>2. ASSUME NEW n \in Names \ Present,
               Reads(r, [users EXCEPT ![o] = 0, ![n] = users[o]], IF o = by THEN {n} ELSE {})
        PROVE  HasPerson(req'[r].dict)
    <3>1. [users EXCEPT ![o] = 0, ![n] = users[o]][n] # 0
      BY <1>t DEF Dict, Accounts, Present
    <3> QED
      BY <1>r, <2>2, <3>1
  <2>3. ASSUME o = Registry, Reads(r, [users EXCEPT ![o] = lastPw'], {})
        PROVE  HasPerson(req'[r].dict)
    <3>1. PICK n \in Names : users[n] # 0
      BY <1>s
    <3>2. [users EXCEPT ![o] = lastPw'][n] # 0
      BY <1>t, <2>3, <3>1 DEF Dict, Accounts
    <3> QED
      BY <1>r, <2>3, <3>2
  <2> QED
    BY <2>1, <2>2, <2>3
<1>3. CASE RemoveUser(r)
  <2>1. PICK by \in sess, target \in Present : target # by /\ Removes(r, by, target)
    BY <1>3 DEF RemoveUser
  <2>2. by \in Present /\ by \in Names
    <3>1. by \in Present
      BY <2>1 DEF Removes, Exempt
    <3>2. by # Registry
      BY <2>1 DEF Removes, Exempt
    <3> QED
      BY <1>t, <2>1, <3>1, <3>2 DEF Accounts
  <2>3. [users EXCEPT ![target] = 0][by] # 0
    BY <1>t, <2>1, <2>2 DEF Dict, Present
  <2>4. req'[r].dict = [users EXCEPT ![target] = 0]
    BY <1>r, <2>1 DEF Removes
  <2> QED
    BY <2>2, <2>3, <2>4
<1> QED
  BY <1>1, <1>2, <1>3

\* Whoever writes leaves somebody, whoever logs in is somebody, and the registry
\* is only switched from a session.
LEMMA SomebodyOrNothingStep ==
  ASSUME IInv, [Next]_vars
  PROVE  SomebodyOrNothing'
<1> USE DEF IInv
<1>x. CASE Exempt'
  BY <1>x DEF SomebodyOrNothing
<1>k. CASE ~Exempt' /\ users' = users /\ HasPerson(users)
  BY <1>k DEF SomebodyOrNothing, HasPerson
<1>w. ASSUME ~Exempt', NEW r \in Requests, users' = req[r].dict,
             req[r].at = "read", ~req[r].stale
      PROVE  SomebodyOrNothing'
  <2>1. ~Exempt
    BY <1>w, ExemptStays
  <2>2. HasPerson(req[r].dict)
    BY <1>w, <2>1 DEF WritesLeaveSomebody
  <2> QED
    BY <1>w, <2>2 DEF SomebodyOrNothing, HasPerson
<1>z. ASSUME ~Exempt', ~HasPerson(users), users' = users
      PROVE  SomebodyOrNothing'
  <2>1. /\ Present = {} /\ sess = {} /\ RegistryIsOff /\ ~AtTheSwitch
        /\ \A t \in Attempts : attempt[t] \notin Accounts
    BY <1>z, ExemptStays DEF SomebodyOrNothing
  <2>2. Present' = {}
    BY <1>z, <2>1 DEF Present
  <2>3. ASSUME NEW r \in Requests, Signup(r) \/ AddUser(r) \/ EditUser(r) \/ RemoveUser(r)
        PROVE  SomebodyOrNothing'
    <3>1. PICK dict \in Dict, session \in SUBSET Names : Reads(r, dict, session)
      BY <2>3, PageReads
    <3>2. UNCHANGED <<enabled, saved, saving, sess, attempt>> /\ ~AtTheSwitch'
      BY <2>1, <3>1, IdleType DEF Reads, limiter, AtTheSwitch, AccountTypes, Idle
    <3> QED
      BY <2>1, <2>2, <3>2 DEF SomebodyOrNothing, RegistryIsOff
  <2>4. ASSUME NEW r \in Requests, SaveUsers(r)
        PROVE  SomebodyOrNothing'
    <3>1. CASE users' = req[r].dict /\ ~req[r].stale
      BY <1>w, <1>z, <2>4, <3>1 DEF SaveUsers
    <3>2. CASE req[r].stale /\ "overlap" \in why'
      BY <1>z, <3>2 DEF Exempt
    <3>3. CASE sess' = sess /\ req' = [req EXCEPT ![r] = Idle]
      <4>1. ~AtTheSwitch'
        BY <2>1, <3>3 DEF AtTheSwitch, AccountTypes, Idle
      <4> QED
        BY <2>1, <2>2, <2>4, <3>3, <4>1 DEF SomebodyOrNothing, RegistryIsOff, SaveUsers, limiter
    <3> QED
      BY <2>4, <3>1, <3>2, <3>3 DEF SaveUsers
  <2>5. ASSUME NEW r \in Requests
        PROVE  ~(Switch(r) \/ SetupReads(r) \/ TeardownReads(r) \/ SwitchSaves(r) \/ SwitchPulls(r))
    BY <2>1 DEF AtTheSwitch, SetupReads, TeardownReads, SwitchSaves, SwitchPulls, Switch
  <2>6. ASSUME NEW t \in Attempts, StartLogin(t) \/ LoginSucceeds(t) \/ RecordFailure(t)
        PROVE  SomebodyOrNothing'
    <3>1. RecordFailure(t)
      BY <2>1, <2>6 DEF StartLogin, LoginSucceeds
    <3>2. UNCHANGED <<sess, enabled, saved, saving, req>> /\ attempt' = [attempt EXCEPT ![t] = "idle"]
      BY <3>1 DEF RecordFailure, secrets
    <3>3. \A u \in Attempts : attempt'[u] \notin Accounts
      BY <2>1, <3>2, AccountsAssumption DEF AccountTypes, Accounts
    <3> QED
      BY <2>1, <2>2, <3>2, <3>3 DEF SomebodyOrNothing, RegistryIsOff, AtTheSwitch
  <2>7. CASE Restart
    <3>1. req' = [r \in Requests |-> Idle] /\ sess' = {} /\ RegistryIsOff'
      BY <2>1, <2>7 DEF Restart, RegistryIsOff
    <3>2. \A t \in Attempts : attempt'[t] \notin Accounts
      BY <2>7, AccountsAssumption DEF Restart, Accounts
    <3> QED
      BY <2>2, <3>1, <3>2 DEF SomebodyOrNothing, AtTheSwitch, Idle
  <2>8. CASE Logout
    BY <2>1, <2>8 DEF Logout
  <2>9. CASE Tick \/ UNCHANGED vars
    BY <2>1, <2>2, <2>9 DEF SomebodyOrNothing, RegistryIsOff, AtTheSwitch, Tick, vars, secrets, limiter
  <2>10. CASE SaveState \/ \E on \in BOOLEAN : WriteState(on)
    <3>1. UNCHANGED <<sess, enabled, attempt, req>>
      BY <2>10 DEF SaveState, WriteState, limiter
    <3>2. CASE SaveState
      <4>1. saved' = FALSE /\ saving' = [saving EXCEPT ![FALSE] = @ + 1]
        BY <2>1, <3>2 DEF SaveState, RegistryIsOff
      <4>2. saving'[TRUE] = saving[TRUE]
        BY <4>1 DEF AccountTypes
      <4> QED
        BY <2>1, <2>2, <3>1, <4>1, <4>2 DEF SomebodyOrNothing, RegistryIsOff, AtTheSwitch
    <3>3. ASSUME NEW on \in BOOLEAN, WriteState(on)
          PROVE  SomebodyOrNothing'
      <4>1. on = FALSE
        <5>1. CASE on = TRUE
          <6>1. saving[TRUE] > 0
            BY <3>3, <5>1 DEF WriteState
          <6> QED
            BY <2>1, <6>1 DEF RegistryIsOff
        <5> QED
          BY <5>1
      <4>2. saved' = FALSE /\ saving' = [saving EXCEPT ![FALSE] = @ - 1]
        BY <2>1, <3>3, <4>1 DEF WriteState, RegistryIsOff
      <4>3. saving'[TRUE] = saving[TRUE]
        BY <4>2 DEF AccountTypes
      <4> QED
        BY <2>1, <2>2, <3>1, <4>2, <4>3 DEF SomebodyOrNothing, RegistryIsOff, AtTheSwitch
    <3> QED
      BY <2>10, <3>2, <3>3
  <2> QED
    BY <2>3, <2>4, <2>5, <2>6, <2>7, <2>8, <2>9, <2>10 DEF Next
<1>s. ASSUME NEW r \in Requests, SaveUsers(r) \/ SwitchSaves(r), users' # users
      PROVE  SomebodyOrNothing'
  <2>1. users' = req[r].dict /\ req[r].at = "read" /\ (req[r].stale => "overlap" \in why')
    BY <1>s DEF SaveUsers, SwitchSaves
  <2> QED
    BY <1>x, <1>w, <2>1 DEF Exempt
<1>u. ASSUME \A r \in Requests : ~(SaveUsers(r) \/ SwitchSaves(r))
      PROVE  users' = users
  <2>1. ASSUME NEW r \in Requests, \/ Signup(r) \/ AddUser(r) \/ EditUser(r) \/ RemoveUser(r)
                                   \/ Switch(r) \/ SetupReads(r) \/ TeardownReads(r) \/ SwitchPulls(r)
        PROVE  users' = users
    BY <2>1 DEF Signup, AddUser, EditUser, RemoveUser, Removes, Reads, Switch, SetupReads, TeardownReads,
                SwitchPulls, secrets
  <2>2. ASSUME NEW t \in Attempts, StartLogin(t) \/ LoginSucceeds(t) \/ RecordFailure(t)
        PROVE  users' = users
    BY <2>2 DEF StartLogin, LoginSucceeds, RecordFailure, secrets
  <2>3. CASE Logout \/ SaveState \/ Restart \/ Tick \/ UNCHANGED vars
    BY <2>3 DEF Logout, SaveState, Restart, Tick, vars, secrets
  <2>4. ASSUME NEW on \in BOOLEAN, WriteState(on)
        PROVE  users' = users
    BY <2>4 DEF WriteState
  <2> QED
    BY <1>u, <2>1, <2>2, <2>3, <2>4 DEF Next
<1> QED
  BY <1>x, <1>k, <1>z, <1>s, <1>u

\* A dictionary read while somebody has an account leaves somebody in it.
LEMMA WritesLeaveSomebodyStep ==
  ASSUME IInv, [Next]_vars
  PROVE  WritesLeaveSomebody'
<1> USE DEF IInv
<1>x. CASE Exempt'
  BY <1>x DEF WritesLeaveSomebody
<1>y. SUFFICES ASSUME ~Exempt' PROVE WritesLeaveSomebody'
  BY <1>x
<1>e. ~Exempt
  BY <1>y, ExemptStays
<1>q. ASSUME NEW r \in Requests,
             \A q \in Requests \ {r} : /\ req'[q].at = req[q].at /\ req'[q].dict = req[q].dict
                                       /\ req[q].stale => req'[q].stale,
             req'[r].at # "read" \/ HasPerson(req'[r].dict)
      PROVE  WritesLeaveSomebody'
  BY <1>e, <1>q DEF WritesLeaveSomebody, HasPerson
<1>1. ASSUME NEW r \in Requests, Signup(r) \/ AddUser(r) \/ EditUser(r) \/ RemoveUser(r)
      PROVE  WritesLeaveSomebody'
  <2>1. HasPerson(req'[r].dict)
    BY <1>1, <1>y, <1>e, PageLeavesSomebody
  <2>2. \A q \in Requests \ {r} : req'[q] = req[q]
    BY <1>1, PageReads, ReadsType
  <2> QED
    BY <1>q, <2>1, <2>2
<1>2. ASSUME NEW r \in Requests, SaveUsers(r) \/ SwitchSaves(r)
      PROVE  WritesLeaveSomebody'
  <2>1. PICK new : /\ new \in {Idle, [req[r] EXCEPT !.at = "pull"], [Outdated(r)[r] EXCEPT !.at = "pull"]}
                   /\ req' = [Outdated(r) EXCEPT ![r] = new] \/ req' = [req EXCEPT ![r] = new]
    BY <1>2 DEF SaveUsers, SwitchSaves, SwitchEnds
  <2>2. new.at # "read"
    <3>1. req[r] \in Request /\ Outdated(r)[r] \in Request
      BY OutdatedType DEF AccountTypes
    <3> QED
      BY <2>1, <3>1 DEF Idle, Request
  <2>3. req'[r].at # "read"
    BY <2>1, <2>2, OutdatedType DEF AccountTypes
  <2>4. \A q \in Requests \ {r} : /\ req'[q].at = req[q].at /\ req'[q].dict = req[q].dict
                                  /\ req[q].stale => req'[q].stale
    BY <2>1, OutdatedType DEF AccountTypes
  <2> QED
    BY <1>q, <2>3, <2>4
<1>3. ASSUME NEW r \in Requests, SetupReads(r) \/ TeardownReads(r)
      PROVE  WritesLeaveSomebody'
  <2>1. Switching
    BY <1>3 DEF SetupReads, TeardownReads, Switching
  <2>2. PICK n \in Names : users[n] # 0
    BY <1>e, <2>1 DEF SomebodyOrNothing, AtTheSwitch, Switching, HasPerson
  <2>3. /\ \A q \in Requests \ {r} : req'[q] = req[q]
        /\ req'[r].at # "read" \/ \E x \in Nat : req'[r].dict = [users EXCEPT ![Registry] = x]
    <3>1. req[r] \in Request /\ lastPw + 1 \in Nat
      BY DEF AccountTypes
    <3>2. CASE SetupReads(r)
      BY <3>1, <3>2 DEF SetupReads, AccountTypes, Request
    <3>3. CASE TeardownReads(r)
      BY <3>1, <3>3 DEF TeardownReads, AccountTypes, Request
    <3> QED
      BY <1>3, <3>2, <3>3
  <2>4. req'[r].at # "read" \/ HasPerson(req'[r].dict)
    <3>1. ASSUME NEW x \in Nat PROVE [users EXCEPT ![Registry] = x][n] # 0
      BY <2>2, AccountsAssumption DEF AccountTypes, Dict, Accounts
    <3> QED
      BY <2>3, <3>1 DEF HasPerson
  <2> QED
    BY <1>q, <2>3, <2>4
<1>4. ASSUME NEW r \in Requests, Switch(r) \/ SwitchPulls(r)
      PROVE  WritesLeaveSomebody'
  <2>1. PICK new : new.at # "read" /\ req' = [req EXCEPT ![r] = new]
    BY <1>4 DEF Switch, SwitchPulls, SwitchEnds, Begins, Idle
  <2> QED
    BY <1>q, <2>1 DEF AccountTypes
<1>5. CASE Restart
  BY <1>5 DEF Restart, WritesLeaveSomebody, Idle
<1>6. CASE req' = req
  BY <1>6, <1>e DEF WritesLeaveSomebody, HasPerson
<1>7. ASSUME NEW t \in Attempts, StartLogin(t) \/ LoginSucceeds(t) \/ RecordFailure(t)
      PROVE  req' = req
  BY <1>7 DEF StartLogin, LoginSucceeds, RecordFailure
<1>8. CASE Logout \/ SaveState \/ Tick \/ (\E on \in BOOLEAN : WriteState(on)) \/ UNCHANGED vars
  BY <1>6, <1>8 DEF Logout, SaveState, Tick, WriteState, vars
<1> QED
  BY <1>1, <1>2, <1>3, <1>4, <1>5, <1>6, <1>7, <1>8 DEF Next

\* The invariant holds in every behaviour.
LEMMA IInvHolds == Spec => []IInv
<1>1. Init => IInv
  BY InitIInv
<1>2. IInv /\ [Next]_vars => IInv'
  BY AccountTypesStep, SomebodyOrNothingStep, WritesLeaveSomebodyStep DEF IInv
<1> QED
  BY <1>1, <1>2, PTL DEF Spec

\* There is an account a person can log in with, or the signup page is open,
\* unless two requests overlapped or a session outlived its account.
THEOREM NobodyIsLockedOut == Spec => []SomebodyCanLogIn
<1>1. IInv => SomebodyCanLogIn
  <2>1. HasPerson(users) => Present \cap Names # {}
    BY DEF HasPerson, Present, Accounts
  <2> QED
    BY <2>1 DEF IInv, SomebodyOrNothing, SomebodyCanLogIn, Exempt
<1> QED
  BY <1>1, IInvHolds, PTL

-----------------------------------------------------------------------------
(* The registry switch: what the requests at work are about to write, and   *)
(* how far the one that switches has come.                                  *)

IsSwitch(r) == req[r].kind \in {"setup", "boot", "teardown"}

\* A request that has not begun is none, a page's has read the Secret.
Shape ==
  \A r \in Requests : /\ req[r].kind = "none" <=> req[r].at = "idle"
                      /\ req[r].kind = "users" => req[r].at = "read"

\* The registry is switched by one request at a time, and goes where it goes.
OneSwitch ==
  "overlap" \in why \/ \A q, r \in Requests : IsSwitch(q) /\ IsSwitch(r) => q = r
SwitchDecides ==
  "overlap" \in why \/
    \A r \in Requests : /\ req[r].kind \in {"setup", "boot"} => enabled
                        /\ req[r].kind = "teardown" => ~enabled

\* The settings in memory are those of the ConfigMap when an agent starts up, and
\* those it has or will have once every switch is over.
SaveFollows ==
  "overlap" \in why \/
    /\ (\E r \in Requests : req[r].kind = "boot") => saved = enabled /\ saving[~enabled] = 0
    /\ (\A r \in Requests : ~IsSwitch(r)) /\ why \cap {"unsaved", "unread"} = {}
         => saving[~enabled] = 0 /\ (saved = enabled \/ saving[enabled] > 0)

\* A setup writes the hash of its password, a teardown no account and no password,
\* and a page whose dictionary is not outdated the password there is.
WritesMatch ==
  \A r \in Requests :
    /\ req[r].kind \in {"setup", "boot"} /\ req[r].at = "read" => req[r].dict[Registry] = req[r].pw /\ req[r].pw # 0
    /\ req[r].kind = "teardown" => req[r].pw = 0 /\ (req[r].at = "read" => req[r].dict[Registry] = 0)
    /\ req[r].kind = "users" /\ ~req[r].stale => req[r].pw = plain

\* The password beside the hash is the one that was hashed.
PlainMatches == why \cap {"overlap", "edited"} = {} => plain = users[Registry]

\* A switch that has come to the pull secret writes the password of the system
\* user into it; once it is done, that is what the pull secret holds.
PullFollows ==
  why \cap {"overlap", "edited", "half", "removed", "unsaved", "unread"} = {} =>
    /\ \A r \in Requests : req[r].at = "pull" => /\ users[Registry] = req[r].pw
                                                 /\ req[r].kind \in {"setup", "boot"} => req[r].pw # 0
    /\ (\A r \in Requests : ~IsSwitch(r)) => pull = users[Registry] /\ (enabled <=> pull # 0)

SwitchParts == Shape /\ OneSwitch /\ SwitchDecides /\ SaveFollows /\ WritesMatch /\ PlainMatches /\ PullFollows
SwitchIInv  == AccountTypes /\ SwitchParts

\* Every request but r stays as it is, though its dictionary may be outdated now.
OthersStay(r) ==
  \A q \in Requests \ {r} : /\ req'[q].kind = req[q].kind /\ req'[q].at = req[q].at
                            /\ req'[q].dict = req[q].dict /\ req'[q].pw = req[q].pw
                            /\ req[q].stale => req'[q].stale

\* Initially nothing is at work and the registry is off.
LEMMA InitSwitch ==
  ASSUME Init
  PROVE  SwitchIInv
<1>1. AccountTypes
  BY InitIInv DEF IInv
<1>2. \A r \in Requests : req[r].kind = "none" /\ req[r].at = "idle"
  BY DEF Init, Idle
<1>3. users[Registry] = 0
  BY DEF Init, Nobody, Accounts
<1> QED
  BY <1>1, <1>2, <1>3 DEF Init, SwitchIInv, SwitchParts, Shape, OneSwitch, SwitchDecides, SaveFollows, WritesMatch,
                          PlainMatches, PullFollows, IsSwitch

\* What r becomes when it alone changes.
LEMMA OneRequest ==
  ASSUME AccountTypes, NEW r \in Requests, NEW new, req' = [req EXCEPT ![r] = new]
  PROVE  OthersStay(r) /\ req'[r] = new
BY DEF AccountTypes, OthersStay

\* What r becomes when it writes the Secret: who has read it has an old dictionary.
LEMMA WritingRequest ==
  ASSUME AccountTypes, NEW r \in Requests, NEW new, req' = [Outdated(r) EXCEPT ![r] = new]
  PROVE  /\ OthersStay(r) /\ req'[r] = new
         /\ \A q \in Requests \ {r} : req[q].at = "read" => req'[q].stale
BY DEF AccountTypes, Request, OthersStay, Outdated

\* A page that has read the Secret has changed nothing yet.
LEMMA PageSwitch ==
  ASSUME SwitchIInv, NEW r \in Requests, Signup(r) \/ AddUser(r) \/ EditUser(r) \/ RemoveUser(r)
  PROVE  SwitchParts'
<1> USE DEF SwitchIInv, SwitchParts
<1>1. PICK dict \in Dict, session \in SUBSET Names : Reads(r, dict, session)
  BY PageReads
<1>2. why \subseteq why'
  BY PageReads
<1>3. UNCHANGED <<users, plain, pull, enabled, saved, saving>> /\ req[r].at = "idle"
  BY <1>1 DEF Reads
<1>4. OthersStay(r) /\ req'[r].kind = "users" /\ req'[r].at = "read" /\ req'[r].pw = plain
  <2>1. PICK new : /\ new = [Idle EXCEPT !.kind = "users", !.at = "read", !.dict = dict, !.pw = plain,
                                       !.session = session]
                   /\ req' = [req EXCEPT ![r] = new]
    BY <1>1 DEF Reads
  <2>2. OthersStay(r) /\ req'[r] = new
    BY <2>1, OneRequest
  <2>3. new.kind = "users" /\ new.at = "read" /\ new.pw = plain
    BY <2>1 DEF Idle
  <2> QED
    BY <2>2, <2>3
<1>5. req[r].kind = "none"
  BY <1>3 DEF Shape
<1>6. Shape'
  BY <1>4 DEF Shape, OthersStay
<1>7. OneSwitch' /\ SwitchDecides' /\ SaveFollows'
  BY <1>2, <1>3, <1>4, <1>5 DEF OneSwitch, SwitchDecides, SaveFollows, OthersStay, IsSwitch
<1>8. WritesMatch'
  BY <1>3, <1>4 DEF WritesMatch, OthersStay
<1>9. PlainMatches'
  BY <1>2, <1>3 DEF PlainMatches
<1>10. PullFollows'
  BY <1>2, <1>3, <1>4, <1>5 DEF PullFollows, OthersStay, IsSwitch
<1> QED
  BY <1>6, <1>7, <1>8, <1>9, <1>10

\* A page's write that is not outdated leaves the system user as it is, or the
\* step says that it was changed or removed.
LEMMA SaveUsersSwitch ==
  ASSUME SwitchIInv, NEW r \in Requests, SaveUsers(r)
  PROVE  SwitchParts'
<1> USE DEF SwitchIInv, SwitchParts
<1>1. req[r].kind = "users" /\ UNCHANGED <<pull, enabled, saved, saving>> /\ why \subseteq why'
  BY DEF SaveUsers
<1>2. /\ OthersStay(r) /\ req'[r] = Idle
      /\ \/ UNCHANGED <<users, plain, why>>
         \/ /\ \A q \in Requests \ {r} : req[q].at = "read" => req'[q].stale
            /\ users' = req[r].dict /\ plain' = IF req[r].dict[Registry] = 0 THEN 0 ELSE req[r].pw
            /\ req[r].stale => "overlap" \in why'
            /\ users[Registry] # 0 /\ req[r].dict[Registry] = 0 => "removed" \in why'
            /\ req[r].dict[Registry] \notin {0, users[Registry]} => "edited" \in why'
  <2>1. CASE UNCHANGED <<users, plain, why>> /\ req' = [req EXCEPT ![r] = Idle]
    BY <2>1, OneRequest
  <2>2. CASE ~(UNCHANGED <<users, plain, why>> /\ req' = [req EXCEPT ![r] = Idle])
    <3>1. req' = [Outdated(r) EXCEPT ![r] = Idle]
      BY <2>2 DEF SaveUsers
    <3> QED
      BY <2>2, <3>1, WritingRequest DEF SaveUsers
  <2> QED
    BY <2>1, <2>2
<1>3. req'[r].kind = "none" /\ req'[r].at = "idle"
  BY <1>2 DEF Idle
<1>4. Shape'
  BY <1>2, <1>3 DEF Shape, OthersStay
<1>5. OneSwitch' /\ SwitchDecides' /\ SaveFollows'
  BY <1>1, <1>2, <1>3 DEF OneSwitch, SwitchDecides, SaveFollows, OthersStay, IsSwitch
<1>6. WritesMatch'
  BY <1>2, <1>3 DEF WritesMatch, OthersStay, Shape
<1>7. PlainMatches'
  BY <1>1, <1>2 DEF PlainMatches, WritesMatch
<1>8. PullFollows'
  <2>1. why' \cap {"overlap", "edited", "half", "removed", "unsaved", "unread"} = {} => users'[Registry] = users[Registry]
    BY <1>2
  <2> QED
    BY <1>1, <1>2, <1>3, <2>1 DEF PullFollows, OthersStay, IsSwitch
<1> QED
  BY <1>4, <1>5, <1>6, <1>7, <1>8

\* A switch that begins is the only one, or the step says that they overlap.
LEMMA SwitchBegins ==
  ASSUME SwitchIInv, NEW r \in Requests, Switch(r)
  PROVE  SwitchParts'
<1> USE DEF SwitchIInv, SwitchParts
<1>1. UNCHANGED <<users, plain, pull>> /\ req[r].at = "idle" /\ why \subseteq why'
  BY DEF Switch
<1>2. "overlap" \in why' \/ \A q \in Requests : ~IsSwitch(q)
  BY DEF Switch, Switching, IsSwitch
<1>3. PICK on \in BOOLEAN : enabled' = on /\ Begins(r, IF on THEN "setup" ELSE "teardown")
  BY DEF Switch
<1>4. /\ OthersStay(r) /\ req'[r].kind = (IF on THEN "setup" ELSE "teardown")
      /\ req'[r].at = "start" /\ req'[r].pw = 0
  <2>1. PICK new : /\ new = [Idle EXCEPT !.kind = IF on THEN "setup" ELSE "teardown", !.at = "start"]
                   /\ req' = [req EXCEPT ![r] = new]
    BY <1>3 DEF Begins
  <2>2. OthersStay(r) /\ req'[r] = new
    BY <2>1, OneRequest
  <2>3. new.kind = (IF on THEN "setup" ELSE "teardown") /\ new.at = "start" /\ new.pw = 0
    BY <2>1 DEF Idle
  <2> QED
    BY <2>2, <2>3
<1>5. Shape'
  BY <1>4 DEF Shape, OthersStay
<1>6. OneSwitch' /\ SwitchDecides' /\ SaveFollows'
  BY <1>2, <1>3, <1>4 DEF OneSwitch, SwitchDecides, SaveFollows, OthersStay, IsSwitch
<1>7. WritesMatch'
  BY <1>1, <1>4 DEF WritesMatch, OthersStay
<1>8. PlainMatches'
  BY <1>1 DEF PlainMatches
<1>9. PullFollows'
  BY <1>1, <1>4 DEF PullFollows, OthersStay, IsSwitch
<1> QED
  BY <1>5, <1>6, <1>7, <1>8, <1>9

\* A setup keeps the password of a system user that is there, or will write both.
LEMMA SetupSwitch ==
  ASSUME SwitchIInv, NEW r \in Requests, SetupReads(r)
  PROVE  SwitchParts'
<1> USE DEF SwitchIInv, SwitchParts
<1>1. req[r].kind \in {"setup", "boot"} /\ UNCHANGED <<users, plain, pull, enabled, saved, saving>>
  BY DEF SetupReads
<1>2. \A x \in {"overlap", "edited"} : x \in why' <=> x \in why
  BY DEF SetupReads
<1>3. /\ OthersStay(r) /\ req'[r].kind = req[r].kind
      /\ \/ req'[r].at = "pull" /\ req'[r].pw = plain /\ users[Registry] # 0
         \/ req'[r].at = "read" /\ req'[r].pw # 0 /\ req'[r].dict[Registry] = req'[r].pw
  <2>1. CASE users[Registry] # 0
    <3>1. PICK new : new = [req[r] EXCEPT !.at = "pull", !.pw = plain] /\ req' = [req EXCEPT ![r] = new]
      BY <2>1 DEF SetupReads
    <3>2. OthersStay(r) /\ req'[r] = new
      BY <3>1, OneRequest
    <3>3. new.kind = req[r].kind /\ new.at = "pull" /\ new.pw = plain
      BY <1>1, <3>1 DEF AccountTypes, Request
    <3> QED
      BY <2>1, <3>2, <3>3
  <2>2. CASE users[Registry] = 0
    <3>1. PICK dict : dict = [users EXCEPT ![Registry] = lastPw + 1]
      OBVIOUS
    <3>2. PICK new : /\ new = [req[r] EXCEPT !.at = "read", !.pw = lastPw + 1, !.dict = dict]
                     /\ req' = [req EXCEPT ![r] = new]
      BY <2>2, <3>1 DEF SetupReads
    <3>3. OthersStay(r) /\ req'[r] = new
      BY <3>2, OneRequest
    <3>4. new.kind = req[r].kind /\ new.at = "read" /\ new.pw = lastPw + 1 /\ new.dict = dict
      BY <1>1, <3>2 DEF AccountTypes, Request
    <3>5. dict[Registry] = lastPw + 1
      BY <3>1 DEF AccountTypes, Dict, Accounts
    <3>6. lastPw + 1 # 0
      BY AccountsAssumption DEF AccountTypes
    <3> QED
      BY <3>3, <3>4, <3>5, <3>6
  <2> QED
    BY <2>1, <2>2
<1>4. Shape'
  BY <1>1, <1>3 DEF Shape, OthersStay
<1>5. OneSwitch' /\ SwitchDecides' /\ SaveFollows'
  <2>1. IsSwitch(r) /\ IsSwitch(r)'
    BY <1>1, <1>3 DEF IsSwitch
  <2>2. \A q \in Requests : req'[q].kind = req[q].kind /\ (IsSwitch(q)' <=> IsSwitch(q))
    BY <1>3 DEF OthersStay, IsSwitch
  <2>3. SaveFollows'
    BY <1>1, <1>2, <2>1, <2>2 DEF SaveFollows
  <2>4. OneSwitch' /\ SwitchDecides'
    BY <1>1, <1>2, <2>2 DEF OneSwitch, SwitchDecides
  <2> QED
    BY <2>3, <2>4
<1>6. WritesMatch'
  BY <1>1, <1>3 DEF WritesMatch, OthersStay
<1>7. PlainMatches'
  BY <1>1, <1>2 DEF PlainMatches
<1>8. PullFollows'
  <2>1. ASSUME why' \cap {"overlap", "edited"} = {}, NEW q \in Requests, q # r
        PROVE  req'[q].at # "pull"
    BY <1>1, <1>2, <1>3, <2>1 DEF OneSwitch, OthersStay, IsSwitch, Shape, AccountTypes, Request
  <2>2. why' \cap {"overlap", "edited"} = {} => plain = users[Registry]
    BY <1>2 DEF PlainMatches
  <2> QED
    BY <1>1, <1>3, <2>1, <2>2 DEF PullFollows, IsSwitch
<1> QED
  BY <1>4, <1>5, <1>6, <1>7, <1>8

\* A teardown with no system user to remove goes on to the pull secret.
LEMMA TeardownSwitch ==
  ASSUME SwitchIInv, NEW r \in Requests, TeardownReads(r)
  PROVE  SwitchParts'
<1> USE DEF SwitchIInv, SwitchParts
<1>1. req[r].kind = "teardown" /\ UNCHANGED <<users, plain, pull, enabled, saved, saving, why>>
  BY DEF TeardownReads, secrets
<1>2. req[r].pw = 0
  BY <1>1 DEF WritesMatch
<1>3. /\ OthersStay(r) /\ req'[r].kind = "teardown" /\ req'[r].pw = 0
      /\ \/ req'[r].at = "pull" /\ users[Registry] = 0
         \/ req'[r].at = "read" /\ req'[r].dict[Registry] = 0
  <2>1. CASE users[Registry] = 0
    <3>1. PICK new : new = [req[r] EXCEPT !.at = "pull"] /\ req' = [req EXCEPT ![r] = new]
      BY <2>1 DEF TeardownReads
    <3>2. OthersStay(r) /\ req'[r] = new
      BY <3>1, OneRequest
    <3>3. new.kind = "teardown" /\ new.at = "pull" /\ new.pw = 0
      BY <1>1, <1>2, <3>1 DEF AccountTypes, Request
    <3> QED
      BY <2>1, <3>2, <3>3
  <2>2. CASE users[Registry] # 0
    <3>1. PICK dict : dict = [users EXCEPT ![Registry] = 0]
      OBVIOUS
    <3>2. PICK new : new = [req[r] EXCEPT !.at = "read", !.dict = dict] /\ req' = [req EXCEPT ![r] = new]
      BY <2>2, <3>1 DEF TeardownReads
    <3>3. OthersStay(r) /\ req'[r] = new
      BY <3>2, OneRequest
    <3>4. new.kind = "teardown" /\ new.at = "read" /\ new.pw = 0 /\ new.dict = dict
      BY <1>1, <1>2, <3>2 DEF AccountTypes, Request
    <3>5. dict[Registry] = 0
      BY <3>1 DEF AccountTypes, Dict, Accounts
    <3> QED
      BY <3>3, <3>4, <3>5
  <2> QED
    BY <2>1, <2>2
<1>4. Shape'
  BY <1>3 DEF Shape, OthersStay
<1>5. OneSwitch' /\ SwitchDecides' /\ SaveFollows'
  BY <1>1, <1>3 DEF OneSwitch, SwitchDecides, SaveFollows, OthersStay, IsSwitch
<1>6. WritesMatch'
  BY <1>1, <1>3 DEF WritesMatch, OthersStay
<1>7. PlainMatches'
  BY <1>1 DEF PlainMatches
<1>8. PullFollows'
  BY <1>1, <1>3 DEF PullFollows, OthersStay, IsSwitch
<1> QED
  BY <1>4, <1>5, <1>6, <1>7, <1>8

\* A switch that ends begins a save that no other meets, or says so; an agent that
\* has started has nothing to save.
LEMMA SaveFollowsTheEnd ==
  ASSUME SwitchIInv, NEW r \in Requests, NEW reasons, SwitchEnds(r, reasons), IsSwitch(r),
         UNCHANGED <<enabled, saved>>, OthersStay(r), req'[r].kind = "none"
  PROVE  SaveFollows'
<1> USE DEF SwitchIInv, SwitchParts
<1>1. CASE "overlap" \in why
  BY <1>1, SwitchEndType DEF SaveFollows
<1>2. CASE "overlap" \notin why
  <2>1. \A q \in Requests : req'[q].kind # "boot"
    BY <1>2 DEF OneSwitch, IsSwitch, OthersStay
  <2>2. ASSUME why' \cap {"unsaved", "unread"} = {}
        PROVE  saving'[~enabled] = 0 /\ (saved = enabled \/ saving'[enabled] > 0)
    <3>1. CASE req[r].kind = "boot"
      BY <1>2, <3>1 DEF SwitchEnds, SaveFollows
    <3>2. CASE req[r].kind # "boot"
      <4>1. saving' = [saving EXCEPT ![enabled] = @ + 1] /\ ~(saving[~enabled] > 0)
        BY <2>2, <3>2 DEF SwitchEnds
      <4>2. enabled \in BOOLEAN /\ saving[~enabled] \in Nat
        BY DEF AccountTypes
      <4>3. saving'[enabled] > 0 /\ saving'[~enabled] = saving[~enabled]
        BY <4>1, <4>2, SavesAreCounted
      <4> QED
        BY <4>1, <4>2, <4>3
    <3> QED
      BY <3>1, <3>2
  <2> QED
    BY <2>1, <2>2 DEF SaveFollows
<1> QED
  BY <1>1, <1>2

\* A switch writes the Secret and goes on to the pull secret with the password it
\* wrote; a step that fails says so.
LEMMA SwitchSavesSwitch ==
  ASSUME SwitchIInv, NEW r \in Requests, SwitchSaves(r)
  PROVE  SwitchParts'
<1> USE DEF SwitchIInv, SwitchParts
<1>1. IsSwitch(r) /\ req[r].at = "read" /\ UNCHANGED <<pull, enabled, saved>> /\ why \subseteq why'
  BY DEF SwitchSaves, SwitchEnds, IsSwitch
<1>2. ASSUME NEW new, new \in {[req[r] EXCEPT !.at = "pull"], [Outdated(r)[r] EXCEPT !.at = "pull"]}
      PROVE  new.kind = req[r].kind /\ new.at = "pull" /\ new.pw = req[r].pw
  <2>1. req[r] \in Request /\ Outdated(r)[r] = req[r]
    BY DEF AccountTypes, Outdated
  <2> QED
    BY <1>2, <2>1 DEF Request
<1>3. \/ /\ users' = req[r].dict /\ plain' = req[r].pw /\ saving' = saving
         /\ OthersStay(r) /\ req'[r].kind = req[r].kind /\ req'[r].at = "pull" /\ req'[r].pw = req[r].pw
         /\ \A q \in Requests \ {r} : req[q].at = "read" => req'[q].stale
      \/ /\ UNCHANGED <<users, plain>> /\ "half" \in why' /\ OthersStay(r)
         /\ \/ /\ req'[r].kind = "none" /\ req'[r].at = "idle" /\ SwitchEnds(r, {"half"})
            \/ /\ req'[r].kind = req[r].kind /\ req'[r].at = "pull" /\ req'[r].pw = req[r].pw
               /\ saving' = saving
  <2>1. CASE users' = req[r].dict /\ plain' = req[r].pw /\ saving' = saving
             /\ req' = [Outdated(r) EXCEPT ![r].at = "pull"]
    <3>1. PICK new : new = [Outdated(r)[r] EXCEPT !.at = "pull"] /\ req' = [Outdated(r) EXCEPT ![r] = new]
      BY <2>1
    <3> QED
      BY <1>2, <2>1, <3>1, WritingRequest
  <2>2. CASE UNCHANGED <<users, plain>> /\ SwitchEnds(r, {"half"})
    <3>1. OthersStay(r) /\ req'[r] = Idle /\ "half" \in why'
      BY <2>2, OneRequest DEF SwitchEnds
    <3> QED
      BY <2>2, <3>1 DEF Idle
  <2>3. CASE UNCHANGED <<users, plain>> /\ "half" \in why'
             /\ req' = [req EXCEPT ![r].at = "pull"] /\ saving' = saving
    <3>1. PICK new : new = [req[r] EXCEPT !.at = "pull"] /\ req' = [req EXCEPT ![r] = new]
      BY <2>3
    <3> QED
      BY <1>2, <2>3, <3>1, OneRequest
  <2>4. \/ /\ users' = req[r].dict /\ plain' = req[r].pw /\ saving' = saving
           /\ req' = [Outdated(r) EXCEPT ![r].at = "pull"]
        \/ UNCHANGED <<users, plain>> /\ SwitchEnds(r, {"half"})
        \/ /\ UNCHANGED <<users, plain>> /\ "half" \in why'
           /\ req' = [req EXCEPT ![r].at = "pull"] /\ saving' = saving
    BY DEF SwitchSaves
  <2> QED
    BY <2>1, <2>2, <2>3, <2>4
<1>4. /\ req[r].kind \in {"setup", "boot", "teardown"} /\ req[r].dict[Registry] = req[r].pw
      /\ req[r].kind \in {"setup", "boot"} => req[r].pw # 0
      /\ req[r].kind = "teardown" => req[r].pw = 0
  BY <1>1 DEF WritesMatch, IsSwitch
<1>o. OthersStay(r)
  BY <1>3
<1>5. Shape'
  BY <1>3, <1>4, <1>o DEF Shape, OthersStay
<1>6. OneSwitch'
  BY <1>1, <1>3, <1>o DEF OneSwitch, OthersStay, IsSwitch
<1>7. SwitchDecides' /\ SaveFollows'
  <2>1. CASE "overlap" \in why
    BY <1>1, <2>1 DEF SwitchDecides, SaveFollows
  <2>2. CASE req'[r].kind = req[r].kind /\ saving' = saving
    BY <1>1, <1>o, <2>2 DEF SwitchDecides, SaveFollows, OthersStay, IsSwitch
  <2>3. CASE SwitchEnds(r, {"half"}) /\ req'[r].kind = "none"
    <3>1. SwitchDecides'
      BY <1>1, <1>o, <2>3 DEF SwitchDecides, OthersStay
    <3> QED
      BY <1>1, <1>o, <2>3, <3>1, SaveFollowsTheEnd
  <2> QED
    BY <1>3, <2>2, <2>3
<1>8. WritesMatch'
  BY <1>3, <1>4, <1>o DEF WritesMatch, OthersStay, Shape
<1>9. PlainMatches'
  BY <1>1, <1>3, <1>4 DEF PlainMatches
<1>10. PullFollows'
  <2>1. ASSUME why' \cap {"overlap"} = {}, NEW q \in Requests, q # r
        PROVE  req'[q].at # "pull"
    <3>1. ~IsSwitch(q)
      BY <1>1, <2>1 DEF OneSwitch
    <3>2. req[q].at # "pull"
      BY <3>1 DEF IsSwitch, Shape, AccountTypes, Request
    <3> QED
      BY <1>o, <2>1, <3>2 DEF OthersStay
  <2>2. CASE "half" \in why'
    BY <2>2 DEF PullFollows
  <2>3. CASE users' = req[r].dict /\ req'[r].kind = req[r].kind /\ req'[r].pw = req[r].pw
    BY <1>4, <2>1, <2>3 DEF PullFollows, IsSwitch
  <2> QED
    BY <1>3, <2>2, <2>3
<1> QED
  BY <1>5, <1>6, <1>7, <1>8, <1>9, <1>10

\* A switch ends: the pull secret holds the password of the system user, or none.
LEMMA SwitchPullsSwitch ==
  ASSUME SwitchIInv, NEW r \in Requests, SwitchPulls(r)
  PROVE  SwitchParts'
<1> USE DEF SwitchIInv, SwitchParts
<1>1. /\ req[r].at = "pull" /\ UNCHANGED <<users, plain, enabled, saved>>
      /\ why \subseteq why' /\ (pull' = req[r].pw \/ "half" \in why')
      /\ OthersStay(r) /\ req'[r] = Idle
      /\ \E reasons : SwitchEnds(r, reasons)
  <2>1. PICK reasons : /\ SwitchEnds(r, reasons)
                       /\ pull' = req[r].pw \/ "half" \in reasons
    BY DEF SwitchPulls
  <2>2. OthersStay(r) /\ req'[r] = Idle
    BY <2>1, OneRequest DEF SwitchEnds
  <2>3. why \subseteq why' /\ (pull' = req[r].pw \/ "half" \in why')
    BY <2>1, SwitchEndType
  <2> QED
    BY <2>1, <2>2, <2>3 DEF SwitchPulls
<1>2. req'[r].kind = "none" /\ req'[r].at = "idle"
  BY <1>1 DEF Idle
<1>3. req[r].kind \in {"setup", "boot", "teardown"}
  BY <1>1 DEF Shape, AccountTypes, Request
<1>4. Shape'
  BY <1>1, <1>2 DEF Shape, OthersStay
<1>5. OneSwitch' /\ SwitchDecides' /\ SaveFollows'
  <2>1. OneSwitch' /\ SwitchDecides'
    BY <1>1, <1>2, <1>3 DEF OneSwitch, SwitchDecides, OthersStay, IsSwitch
  <2> QED
    BY <1>1, <1>2, <1>3, <2>1, SaveFollowsTheEnd DEF IsSwitch
<1>6. WritesMatch'
  BY <1>1, <1>2 DEF WritesMatch, OthersStay
<1>7. PlainMatches'
  BY <1>1 DEF PlainMatches
<1>8. PullFollows'
  <2>1. /\ req[r].kind = "teardown" => req[r].pw = 0
        /\ "overlap" \notin why => (req[r].kind \in {"setup", "boot"} <=> enabled)
    BY <1>3 DEF WritesMatch, SwitchDecides
  <2>2. why' \cap {"overlap", "edited", "half", "removed", "unsaved", "unread"} = {} =>
          /\ users[Registry] = req[r].pw /\ pull' = req[r].pw
          /\ req[r].kind \in {"setup", "boot"} => req[r].pw # 0
    BY <1>1 DEF PullFollows
  <2>3. ASSUME "overlap" \notin why, NEW q \in Requests
        PROVE  req'[q].at # "pull"
    <3>1. q # r => req[q].at # "pull"
      BY <1>3, <2>3 DEF OneSwitch, IsSwitch, Shape, AccountTypes, Request
    <3>2. q # r => req'[q].at = req[q].at
      BY <1>1 DEF OthersStay
    <3> QED
      BY <1>2, <3>1, <3>2
  <2>4. SUFFICES ASSUME why' \cap {"overlap", "edited", "half", "removed", "unsaved", "unread"} = {}
                 PROVE  (PullFollows)'
    BY DEF PullFollows
  <2>5. "overlap" \notin why /\ "overlap" \notin why'
    BY <1>1, <2>4
  <2>6. \A q \in Requests : req'[q].at # "pull"
    BY <2>3, <2>5
  <2>7. pull' = users'[Registry] /\ (enabled' <=> pull' # 0)
    BY <1>1, <1>3, <2>1, <2>2, <2>4, <2>5
  <2> QED
    BY <2>6, <2>7 DEF PullFollows
<1> QED
  BY <1>4, <1>5, <1>6, <1>7, <1>8

\* An agent that starts again begins at most one setup; one that died while it
\* switched says so.
LEMMA RestartSwitch ==
  ASSUME SwitchIInv, Restart
  PROVE  SwitchParts'
<1> USE DEF SwitchIInv, SwitchParts
<1>1. /\ UNCHANGED <<users, plain, pull, saved>> /\ enabled' \in {saved, FALSE} /\ why \subseteq why'
      /\ saving' = [on \in BOOLEAN |-> 0]
      /\ "half" \in why' \/ \A q \in Requests : ~IsSwitch(q)
      /\ "unsaved" \in why' \/ ~(saving[~saved] > 0)
      /\ "unread" \in why' \/ enabled' = saved
  BY DEF Restart, Switching, IsSwitch
<1>b. saved \in BOOLEAN /\ enabled \in BOOLEAN /\ enabled' \in BOOLEAN
  BY <1>1 DEF AccountTypes
<1>2. PICK r \in Requests : req' = [q \in Requests |->
         IF q = r /\ enabled' THEN [Idle EXCEPT !.kind = "boot", !.at = "start"] ELSE Idle]
  BY DEF Restart
<1>3. \A q \in Requests :
        \/ q = r /\ enabled' /\ req'[q].kind = "boot" /\ req'[q].at = "start"
        \/ ~(q = r /\ enabled') /\ req'[q].kind = "none" /\ req'[q].at = "idle"
  BY <1>2 DEF Idle
<1>4. Shape'
  BY <1>3 DEF Shape
<1>5. OneSwitch' /\ SwitchDecides'
  BY <1>3 DEF OneSwitch, SwitchDecides, IsSwitch
<1>s. SaveFollows'
  <2>1. saving'[~enabled'] = 0
    BY <1>1, <1>b
  <2>2. enabled' => saved' = enabled'
    BY <1>1, <1>b
  <2>3. why' \cap {"unsaved", "unread"} = {} => saved' = enabled'
    BY <1>1
  <2> QED
    BY <1>3, <2>1, <2>2, <2>3 DEF SaveFollows
<1>6. WritesMatch'
  BY <1>3 DEF WritesMatch
<1>7. PlainMatches'
  BY <1>1 DEF PlainMatches
<1>8. PullFollows'
  <2>1. CASE enabled'
    BY <1>3, <2>1 DEF PullFollows, IsSwitch
  <2>2. CASE ~enabled'
    <3>1. SUFFICES ASSUME why' \cap {"overlap", "edited", "half", "removed", "unsaved", "unread"} = {}
                   PROVE  pull' = users'[Registry] /\ (enabled' <=> pull' # 0)
      BY <1>3, <2>2 DEF PullFollows
    <3>2. \A q \in Requests : ~IsSwitch(q)
      BY <1>1, <3>1
    <3>3. enabled' = saved /\ ~(saving[~saved] > 0) /\ why \cap {"overlap", "unsaved", "unread"} = {}
      BY <1>1, <3>1
    <3>4. saved = enabled \/ saving[enabled] > 0
      BY <3>2, <3>3 DEF SaveFollows
    <3>5. saved = enabled
      BY <1>b, <3>3, <3>4
    <3> QED
      BY <1>1, <3>1, <3>2, <3>3, <3>5 DEF PullFollows
  <2> QED
    BY <2>1, <2>2
<1> QED
  BY <1>4, <1>5, <1>s, <1>6, <1>7, <1>8

\* Settings saved beside a switch are the ones it goes to; when it is over, only
\* those are being written.
LEMMA SavesSwitch ==
  ASSUME SwitchIInv, SaveState \/ \E on \in BOOLEAN : WriteState(on)
  PROVE  SwitchParts'
<1> USE DEF SwitchIInv, SwitchParts
<1>1. UNCHANGED <<users, plain, pull, enabled, req>> /\ why \subseteq why'
  BY DEF SaveState, WriteState
<1>b. enabled \in BOOLEAN /\ saving[enabled] \in Nat /\ saving[~enabled] \in Nat
  BY DEF AccountTypes
<1>2. Shape' /\ OneSwitch' /\ SwitchDecides' /\ WritesMatch' /\ PlainMatches' /\ PullFollows'
  BY <1>1 DEF Shape, OneSwitch, SwitchDecides, WritesMatch, PlainMatches, PullFollows, IsSwitch
<1>3. CASE SaveState
  <2>1. saved' = saved /\ saving'[enabled] > 0 /\ saving'[~enabled] = saving[~enabled]
    BY <1>3, <1>b, SavesAreCounted DEF SaveState
  <2> QED
    BY <1>1, <1>2, <2>1 DEF SaveFollows, IsSwitch
<1>4. ASSUME NEW on \in BOOLEAN, WriteState(on)
      PROVE  SaveFollows'
  <2>1. CASE "overlap" \in why
    BY <1>1, <2>1 DEF SaveFollows
  <2>2. CASE "overlap" \notin why /\ on # enabled
    <3>1. on = ~enabled /\ saving[~enabled] # 0
      BY <1>b, <1>4, <2>2 DEF WriteState
    <3> QED
      BY <1>1, <2>2, <3>1 DEF SaveFollows, IsSwitch
  <2>3. CASE on = enabled
    <3>1. saving'[~enabled] = saving[~enabled]
      BY <1>4, <2>3, SavesAreCounted DEF WriteState
    <3>2. saved' = enabled \/ (saved' = saved /\ saved # enabled /\ "unsaved" \in why')
      BY <1>4, <2>3 DEF WriteState
    <3> QED
      BY <1>1, <3>1, <3>2 DEF SaveFollows, IsSwitch
  <2> QED
    BY <2>1, <2>2, <2>3
<1> QED
  BY <1>2, <1>3, <1>4

\* What is not a request changes nothing of this.
LEMMA OthersSwitch ==
  ASSUME SwitchIInv, UNCHANGED <<users, plain, pull, enabled, saved, saving, req, why>>
  PROVE  SwitchParts'
BY DEF SwitchIInv, SwitchParts, Shape, OneSwitch, SwitchDecides, SaveFollows, WritesMatch, PlainMatches, PullFollows,
       IsSwitch

\* Every action keeps the invariant of the switch.
LEMMA SwitchStep ==
  ASSUME SwitchIInv, [Next]_vars
  PROVE  SwitchIInv'
<1>1. AccountTypes'
  BY AccountTypesStep DEF SwitchIInv
<1>2. ASSUME NEW t \in Attempts, StartLogin(t) \/ LoginSucceeds(t) \/ RecordFailure(t)
      PROVE  SwitchParts'
  <2>1. UNCHANGED <<users, plain, pull, enabled, saved, saving, req, why>>
    BY <1>2 DEF StartLogin, LoginSucceeds, RecordFailure, secrets
  <2> QED
    BY <2>1, OthersSwitch
<1>3. ASSUME Logout \/ Tick \/ UNCHANGED vars
      PROVE  SwitchParts'
  <2>1. UNCHANGED <<users, plain, pull, enabled, saved, saving, req, why>>
    BY <1>3 DEF Logout, Tick, vars, secrets
  <2> QED
    BY <2>1, OthersSwitch
<1>4. SwitchParts'
  BY <1>2, <1>3, PageSwitch, SaveUsersSwitch, SwitchBegins, SetupSwitch, TeardownSwitch, SwitchSavesSwitch,
     SwitchPullsSwitch, SavesSwitch, RestartSwitch DEF Next
<1> QED
  BY <1>1, <1>4 DEF SwitchIInv

\* Once no request is at work the system user and the pull secret are there, with
\* one password, when the registry is on, and neither is when it is off, unless a
\* step failed, requests overlapped, the system user was changed by hand, or the
\* settings were not saved or not read back at a restart: what
\* _setup_registry_proxy and its teardown promise across their separate writes.
THEOREM PullSecretFollows == Spec => []PullSecretMatches
<1>1. Init => SwitchIInv
  BY InitSwitch
<1>2. SwitchIInv /\ [Next]_vars => SwitchIInv'
  BY SwitchStep
<1>3. SwitchIInv => PullSecretMatches
  <2>1. SUFFICES ASSUME SwitchIInv, \A r \in Requests : req[r].at = "idle", why = {}
                 PROVE  pull = users[Registry] /\ (enabled <=> pull # 0)
    BY DEF PullSecretMatches
  <2>2. \A r \in Requests : ~IsSwitch(r)
    BY <2>1 DEF SwitchIInv, SwitchParts, Shape, IsSwitch
  <2> QED
    BY <2>1, <2>2 DEF SwitchIInv, SwitchParts, PullFollows
<1> QED
  BY <1>1, <1>2, <1>3, PTL DEF Spec

-----------------------------------------------------------------------------
(* The limiter: the failures it remembers are the last of all the failures  *)
(* since the last success, and the ones it has dropped can be counted.      *)

\* A set of numbers that is not empty has a least one: the sets of the numbers up
\* to its members are ordered by inclusion, and finite.
LEMMA LeastNumber ==
  ASSUME NEW T \in SUBSET Nat, T # {}
  PROVE  \E x \in T : \A y \in T : x <= y
<1> DEFINE Below(x) == 0..x
           Belows   == {Below(x) : x \in T}
<1>1. \A x \in T : Below(x) \in FiniteSubsetsOf(Nat)
  BY FS_Interval DEF FiniteSubsetsOf
<1>2. Belows \subseteq FiniteSubsetsOf(Nat) /\ Belows # {}
  BY <1>1
<1>3. IsWellFoundedOn(StrictSubsetOrdering(Nat), FiniteSubsetsOf(Nat))
  BY FS_StrictSubsetOrderingWellFounded
<1>4. PICK b \in Belows : \A c \in Belows : <<c, b>> \notin StrictSubsetOrdering(Nat)
  <2> HIDE DEF Belows
  <2> QED
    BY <1>2, <1>3, WFMin
<1>5. PICK x \in T : b = Below(x)
  OBVIOUS
<1>6. ASSUME NEW y \in T, y < x
      PROVE  FALSE
  <2>1. Below(y) \subseteq Below(x) /\ Below(y) # Below(x) /\ Below(x) \subseteq Nat
    BY <1>6
  <2>2. <<Below(y), Below(x)>> \in StrictSubsetOrdering(Nat)
    BY <2>1 DEF StrictSubsetOrdering
  <2> QED
    BY <1>4, <1>5, <2>2
<1> QED
  BY <1>6

\* The loop that drops the oldest failures ends at the first that is within the
\* window, and leaves the rest as they are.
LEMMA WithinDropsTheOldest ==
  ASSUME NEW ages \in Ages
  PROVE  /\ Within(ages) \in Ages
         /\ \E k \in 0..Len(ages) :
              /\ \A i \in 1..k : ages[i] > Window
              /\ k < Len(ages) => ages[k + 1] <= Window
              /\ Len(Within(ages)) = Len(ages) - k
              /\ \A i \in 1..(Len(ages) - k) : Within(ages)[i] = ages[k + i]
<1> DEFINE IsOld(k) == /\ \A i \in 1..k : ages[i] > Window
                       /\ k < Len(ages) => ages[k + 1] <= Window
           T == {x \in Nat : x = Len(ages) \/ (x < Len(ages) /\ ages[x + 1] <= Window)}
           old == CHOOSE k \in 0..Len(ages) : IsOld(k)
<1>1. Len(ages) \in Nat /\ \A i \in 1..Len(ages) : ages[i] \in 0..Window + 1
  BY ElementOfSeq, LenProperties DEF Ages
<1>n. Window \in Nat /\ \A i \in 1..Len(ages) : ages[i] \in Nat
  BY <1>1, AccountsAssumption
<1>2. PICK x \in T : \A y \in T : x <= y
  <2>1. T \in SUBSET Nat /\ Len(ages) \in T
    BY <1>1
  <2> HIDE DEF T
  <2> QED
    BY <2>1, LeastNumber
<1>3. x \in 0..Len(ages) /\ IsOld(x)
  <2>1. x \in Nat /\ x <= Len(ages) /\ (x < Len(ages) => ages[x + 1] <= Window)
    BY <1>1, <1>2
  <2>2. ASSUME NEW i \in 1..x PROVE ages[i] > Window
    <3>1. i - 1 \in Nat /\ i - 1 < x /\ (i - 1) + 1 = i /\ i \in 1..Len(ages)
      BY <1>1, <2>1
    <3>2. i - 1 \notin T
      BY <1>2, <2>1, <3>1
    <3>3. ~(ages[i] <= Window)
      BY <1>1, <2>1, <3>1, <3>2
    <3> QED
      BY <1>n, <3>1, <3>3
  <2> QED
    BY <1>1, <2>1, <2>2
<1>4. old \in 0..Len(ages) /\ IsOld(old)
  <2> HIDE DEF IsOld
  <2> QED
    BY <1>3
<1>5. Within(ages) = SubSeq(ages, old + 1, Len(ages))
  BY DEF Within
<1> HIDE DEF old
<1>6. \A i \in (old + 1)..Len(ages) : ages[i] \in 0..Window + 1
  BY <1>1, <1>4
<1>7. old + 1 \in Int /\ Len(ages) \in Int
  BY <1>1, <1>4
<1>8. /\ SubSeq(ages, old + 1, Len(ages)) \in Ages
      /\ Len(SubSeq(ages, old + 1, Len(ages))) = IF old + 1 <= Len(ages) THEN Len(ages) - (old + 1) + 1 ELSE 0
      /\ \A i \in 1..(Len(ages) - (old + 1) + 1) : SubSeq(ages, old + 1, Len(ages))[i] = ages[old + 1 + i - 1]
  BY <1>6, <1>7, SubSeqProperties DEF Ages
<1>9. Len(Within(ages)) = Len(ages) - old
  BY <1>1, <1>4, <1>5, <1>8
<1>10. ASSUME NEW i \in 1..(Len(ages) - old)
       PROVE  Within(ages)[i] = ages[old + i]
  <2>1. i \in 1..(Len(ages) - (old + 1) + 1) /\ old + 1 + i - 1 = old + i
    BY <1>1, <1>4
  <2> QED
    BY <1>5, <1>8, <2>1
<1> QED
  BY <1>4, <1>5, <1>8, <1>9, <1>10

\* Time passes: every failure is older, as far as ages are told apart.
LEMMA OlderIsOlder ==
  ASSUME NEW ages \in Ages
  PROVE  /\ Older(ages) \in Ages /\ Len(Older(ages)) = Len(ages)
         /\ \A i \in 1..Len(ages) : Older(ages)[i] = IF ages[i] > Window THEN ages[i] ELSE ages[i] + 1
<1>1. Len(ages) \in Nat /\ \A i \in 1..Len(ages) : ages[i] \in 0..Window + 1
  BY ElementOfSeq, LenProperties DEF Ages
<1>2. \A i \in 1..Len(ages) : (IF ages[i] > Window THEN ages[i] ELSE ages[i] + 1) \in 0..Window + 1
  BY <1>1, AccountsAssumption
<1> QED
  BY <1>1, <1>2 DEF Older, Ages

\* The types of the limiter.
LimiterTypes ==
  /\ failures \in Ages /\ tries \in Ages /\ earlier \in Ages /\ forgot \in Ages
  /\ lock \in [on : BOOLEAN, left : 0..Lockout]

\* Every action keeps the types of the limiter.
LEMMA LimiterTypesStep ==
  ASSUME LimiterTypes, [Next]_vars
  PROVE  LimiterTypes'
<1> USE DEF LimiterTypes
<1>1. <<>> \in Ages /\ NoLock \in [on : BOOLEAN, left : 0..Lockout]
      /\ [on |-> TRUE, left |-> Lockout] \in [on : BOOLEAN, left : 0..Lockout]
  BY AccountsAssumption DEF Ages, NoLock
<1>2. ASSUME NEW ages \in Ages PROVE Append(ages, 0) \in Ages
  BY AccountsAssumption DEF Ages
<1>3. ASSUME NEW r \in Requests, \/ Signup(r) \/ AddUser(r) \/ EditUser(r) \/ RemoveUser(r) \/ SaveUsers(r)
                                 \/ Switch(r) \/ SetupReads(r) \/ TeardownReads(r) \/ SwitchSaves(r)
                                 \/ SwitchPulls(r)
      PROVE  LimiterTypes'
  BY <1>3 DEF Signup, AddUser, EditUser, RemoveUser, Removes, Reads, SaveUsers, Switch, SetupReads,
              TeardownReads, SwitchSaves, SwitchPulls, limiter
<1>4. ASSUME NEW t \in Attempts, StartLogin(t) \/ LoginSucceeds(t)
      PROVE  LimiterTypes'
  BY <1>1, <1>4 DEF StartLogin, LoginSucceeds
<1>5. ASSUME NEW t \in Attempts, RecordFailure(t)
      PROVE  LimiterTypes'
  BY <1>1, <1>2, <1>5, WithinDropsTheOldest, ZenonT(60) DEF RecordFailure
<1>6. CASE Tick
  <2>1. lock' \in [on : BOOLEAN, left : 0..Lockout]
    <3>1. (IF lock.left = 0 THEN 0 ELSE lock.left - 1) \in 0..Lockout
      BY AccountsAssumption
    <3> QED
      BY <1>6, <3>1 DEF Tick
  <2> QED
    BY <1>6, <2>1, WithinDropsTheOldest, OlderIsOlder DEF Tick
<1>7. CASE Restart
  <2>1. earlier \o tries \in Ages
    BY DEF Ages
  <2> QED
    BY <1>1, <1>2, <1>7, <2>1 DEF Restart
<1>8. CASE Logout \/ SaveState \/ UNCHANGED vars
  BY <1>8 DEF Logout, SaveState, vars, limiter
<1>9. ASSUME NEW on \in BOOLEAN, WriteState(on)
      PROVE  LimiterTypes'
  BY <1>9 DEF WriteState, limiter
<1> QED
  BY <1>3, <1>4, <1>5, <1>6, <1>7, <1>8, <1>9 DEF Next

\* Initially nothing has been refused.
LEMMA InitLimiter ==
  ASSUME Init
  PROVE  LimiterTypes
BY AccountsAssumption DEF Init, LimiterTypes, Ages, NoLock

\* Only reasons are given.
LEMMA ReasonsStep ==
  ASSUME why \subseteq Reasons, [Next]_vars
  PROVE  why' \subseteq Reasons
<1> USE DEF Reasons
<1>1. ASSUME NEW r \in Requests, Signup(r) \/ AddUser(r) \/ EditUser(r) \/ RemoveUser(r)
      PROVE  why' \subseteq Reasons
  BY <1>1 DEF Signup, AddUser, EditUser, RemoveUser, Removes
<1>2. ASSUME NEW r \in Requests, SaveUsers(r) \/ Switch(r) \/ SwitchSaves(r) \/ SwitchPulls(r)
      PROVE  why' \subseteq Reasons
  BY <1>2 DEF SaveUsers, Switch, SwitchSaves, SwitchPulls, SwitchEnds
<1>3. ASSUME NEW r \in Requests, SetupReads(r) \/ TeardownReads(r)
      PROVE  why' \subseteq Reasons
  BY <1>3 DEF SetupReads, TeardownReads
<1>4. ASSUME NEW t \in Attempts, StartLogin(t) \/ LoginSucceeds(t) \/ RecordFailure(t)
      PROVE  why' \subseteq Reasons
  BY <1>4 DEF StartLogin, LoginSucceeds, RecordFailure
<1>5. CASE Logout \/ SaveState \/ Restart \/ Tick \/ UNCHANGED vars
  BY <1>5 DEF Logout, SaveState, Restart, Tick, vars
<1>6. ASSUME NEW on \in BOOLEAN, WriteState(on)
      PROVE  why' \subseteq Reasons
  BY <1>6 DEF WriteState
<1> QED
  BY <1>1, <1>2, <1>3, <1>4, <1>5, <1>6 DEF Next

\* Every variable holds what its comment says: the type invariant.
THEOREM AccountsTypeCorrect == Spec => []TypeOK
<1> DEFINE Typed == AccountTypes /\ LimiterTypes /\ why \subseteq Reasons
<1>1. Init => Typed
  BY InitIInv, InitLimiter DEF IInv, Init
<1>2. Typed /\ [Next]_vars => Typed'
  BY AccountTypesStep, LimiterTypesStep, ReasonsStep
<1>3. Typed => TypeOK
  BY DEF TypeOK, AccountTypes, LimiterTypes, Request
<1> QED
  BY <1>1, <1>2, <1>3, PTL DEF Spec

\* The logins being verified.
Busy == {t \in Attempts : attempt[t] # "idle"}

\* The remembered failures and all of them end alike, counted from the last; what
\* is remembered beyond the window is what all of them have lost.
SameEnd ==
  /\ \A j \in Nat : j < Len(tries) /\ j < Len(failures) => tries[Len(tries) - j] = failures[Len(failures) - j]
  /\ \A i \in 1..Len(failures) : i + Len(tries) <= Len(failures) => failures[i] > Window

\* All of them are within the window, oldest first.
OldestFirst ==
  /\ \A i \in 1..Len(tries) : tries[i] <= Window
  /\ \A i, j \in 1..Len(tries) : i < j => tries[i] >= tries[j]

\* A lockout began with a login that is no longer verified, so those that come
\* after it are fewer; what was forgotten is as old as the lockout, at least.
WhileLocked ==
  /\ Len(failures) + Cardinality(Busy) <= Cardinality(Attempts) - 1
  /\ Len(tries) + Cardinality(Busy) <= Failures + 2 * (Cardinality(Attempts) - 1)
  /\ \A i \in 1..Len(tries) : i + Len(failures) <= Len(tries) => tries[i] + lock.left >= Lockout

\* Without a lockout the limit is not reached, and what was forgotten was recorded
\* by logins verified during the last one.
WhileOpen ==
  /\ Len(failures) + 1 <= Failures
  /\ Len(tries) + 1 <= Len(failures) + Cardinality(Attempts)

LimiterIInv ==
  /\ AccountTypes /\ LimiterTypes /\ SameEnd /\ OldestFirst
  /\ IF lock.on THEN WhileLocked ELSE WhileOpen

\* Numbers: how many there are of what.
LEMMA LimiterNumbers ==
  ASSUME LimiterTypes
  PROVE  /\ Len(failures) \in Nat /\ Len(tries) \in Nat /\ Window \in Nat
         /\ \A i \in 1..Len(failures) : failures[i] \in Nat
         /\ \A i \in 1..Len(tries) : tries[i] \in Nat
<1>1. \A n \in 0..Window + 1 : n \in Nat
  BY AccountsAssumption
<1> QED
  BY <1>1, ElementOfSeq, LenProperties, AccountsAssumption DEF LimiterTypes, Ages

\* At least one login can be verified at once, and no more than there are.
LEMMA BusyNumbers ==
  /\ Cardinality(Attempts) \in Nat /\ Cardinality(Attempts) >= 1
  /\ IsFiniteSet(Busy) /\ Cardinality(Busy) \in Nat /\ Cardinality(Busy) <= Cardinality(Attempts)
<1>1. Busy \subseteq Attempts /\ IsFiniteSet(Attempts)
  BY AccountsAssumption DEF Busy
<1>2. IsFiniteSet(Busy) /\ Cardinality(Busy) <= Cardinality(Attempts)
  BY <1>1, FS_Subset
<1>3. Cardinality(Attempts) \in Nat /\ Cardinality(Busy) \in Nat
  BY <1>1, <1>2, FS_CardinalityType
<1>4. Cardinality(Attempts) # 0
  BY <1>1, FS_EmptySet, AccountsAssumption
<1> QED
  BY <1>2, <1>3, <1>4

\* A login that begins to be verified is one more.
LEMMA OneMoreBusy ==
  ASSUME AccountTypes, NEW t \in Attempts, attempt[t] = "idle", NEW x, x # "idle",
         attempt' = [attempt EXCEPT ![t] = x]
  PROVE  Cardinality(Busy') = Cardinality(Busy) + 1
<1>1. Busy' = Busy \union {t} /\ t \notin Busy
  BY DEF Busy, AccountTypes
<1> QED
  BY <1>1, BusyNumbers, FS_AddElement

\* One that has been is one less.
LEMMA OneLessBusy ==
  ASSUME AccountTypes, NEW t \in Attempts, attempt[t] # "idle",
         attempt' = [attempt EXCEPT ![t] = "idle"]
  PROVE  Cardinality(Busy') + 1 = Cardinality(Busy)
<1>1. Busy' = Busy \ {t} /\ t \in Busy
  BY DEF Busy, AccountTypes
<1>2. Cardinality(Busy \ {t}) = Cardinality(Busy) - 1
  BY <1>1, BusyNumbers, FS_RemoveElement
<1>3. Cardinality(Busy) \in Nat
  BY BusyNumbers
<1>4. Cardinality(Busy') = Cardinality(Busy) - 1
  BY <1>1, <1>2
<1> QED
  BY <1>3, <1>4

\* What the loop keeps of the remembered failures is the end of all of them: the
\* whole of one or of the other.
LEMMA WithinFailures ==
  ASSUME LimiterTypes, SameEnd, OldestFirst
  PROVE  /\ Within(failures) \in Ages
         /\ Len(Within(failures)) \in {Len(failures), Len(tries)}
         /\ Len(Within(failures)) <= Len(failures) /\ Len(Within(failures)) <= Len(tries)
         /\ \A j \in Nat : j < Len(Within(failures)) =>
              Within(failures)[Len(Within(failures)) - j] = tries[Len(tries) - j]
<1> DEFINE nF == Len(failures)
           nT == Len(tries)
           w  == Within(failures)
<1>n. /\ nF \in Nat /\ nT \in Nat /\ Window \in Nat
      /\ \A i \in 1..nF : failures[i] \in Nat
      /\ \A i \in 1..nT : tries[i] \in Nat
  BY LimiterNumbers
<1>1. w \in Ages
  BY WithinDropsTheOldest DEF LimiterTypes
<1>2. PICK k \in 0..nF : /\ \A i \in 1..k : failures[i] > Window
                         /\ k < nF => failures[k + 1] <= Window
                         /\ Len(w) = nF - k
                         /\ \A i \in 1..(nF - k) : w[i] = failures[k + i]
  BY WithinDropsTheOldest DEF LimiterTypes
<1>3. /\ \A j \in Nat : j < nT /\ j < nF => tries[nT - j] = failures[nF - j]
      /\ \A i \in 1..nF : i + nT <= nF => failures[i] > Window
      /\ \A i \in 1..nT : tries[i] <= Window
  BY DEF SameEnd, OldestFirst
<1> HIDE DEF nF, nT, w
<1>4. nF - k <= nT
  <2>1. SUFFICES ASSUME nF - k > nT PROVE FALSE
    BY <1>n
  <2>2. k + 1 \in 1..nF /\ (k + 1) + nT <= nF /\ k < nF
    BY <1>n, <2>1
  <2>3. failures[k + 1] > Window /\ failures[k + 1] <= Window
    BY <1>2, <1>3, <2>2
  <2> QED
    BY <1>n, <2>2, <2>3
<1>5. nF - k = nT \/ nF - k = nF
  <2>1. SUFFICES ASSUME nF - k < nT, k >= 1 PROVE FALSE
    BY <1>n, <1>4
  <2>2. nF - k \in Nat /\ nF - k < nF /\ nF - (nF - k) = k /\ nT - (nF - k) \in 1..nT /\ k \in 1..k /\ k \in 1..nF
    BY <1>n, <2>1
  <2>3. tries[nT - (nF - k)] = failures[k]
    BY <1>3, <2>1, <2>2
  <2>4. tries[nT - (nF - k)] <= Window /\ failures[k] > Window
    BY <1>2, <1>3, <2>2
  <2> QED
    BY <1>n, <2>2, <2>3, <2>4
<1>6. ASSUME NEW j \in Nat, j < Len(w)
      PROVE  w[Len(w) - j] = tries[nT - j]
  <2>1. /\ Len(w) - j \in 1..(nF - k) /\ k + (Len(w) - j) = nF - j
        /\ j < nT /\ j < nF
    BY <1>n, <1>2, <1>4, <1>6
  <2>2. w[Len(w) - j] = failures[k + (Len(w) - j)] /\ tries[nT - j] = failures[nF - j]
    BY <1>2, <1>3, <2>1
  <2> QED
    BY <2>1, <2>2
<1>7. Len(w) \in {nF, nT} /\ Len(w) <= nF /\ Len(w) <= nT
  BY <1>n, <1>2, <1>4, <1>5
<1> QED
  BY <1>1, <1>6, <1>7 DEF nF, nT, w

\* Initially nothing is remembered and nothing locked.
LEMMA InitLimiterIInv ==
  ASSUME Init
  PROVE  LimiterIInv
<1>1. AccountTypes /\ LimiterTypes
  BY InitIInv, InitLimiter DEF IInv
<1>2. Len(failures) = 0 /\ Len(tries) = 0 /\ ~lock.on
  BY DEF Init, NoLock
<1>3. Failures >= 1 /\ Failures \in Nat
  BY AccountsAssumption
<1> QED
  BY <1>1, <1>2, <1>3, BusyNumbers DEF LimiterIInv, SameEnd, OldestFirst, WhileOpen

\* A success, or a start of the agent, makes the limiter forget everything.
LEMMA LimiterForgets ==
  ASSUME LimiterIInv, failures' = <<>>, tries' = <<>>, lock' = NoLock
  PROVE  (SameEnd /\ OldestFirst /\ IF lock.on THEN WhileLocked ELSE WhileOpen)'
<1>1. Len(failures') = 0 /\ Len(tries') = 0 /\ ~lock'.on
  BY DEF NoLock
<1>2. Failures >= 1 /\ Failures \in Nat
  BY AccountsAssumption
<1> QED
  BY <1>1, <1>2, BusyNumbers DEF SameEnd, OldestFirst, WhileOpen

\* The check finds a lockout over and forgets what was recorded during it; nothing
\* from before the lockout is within the window any more.
LEMMA StartLoginKeeps ==
  ASSUME LimiterIInv, NEW t \in Attempts, StartLogin(t)
  PROVE  (SameEnd /\ OldestFirst /\ IF lock.on THEN WhileLocked ELSE WhileOpen)'
<1> USE DEF LimiterIInv
<1>n. /\ Len(failures) \in Nat /\ Len(tries) \in Nat /\ Window \in Nat
      /\ \A i \in 1..Len(tries) : tries[i] \in Nat
      /\ Cardinality(Attempts) \in Nat /\ Cardinality(Busy) \in Nat
      /\ Failures \in Nat /\ Failures >= 1 /\ Lockout \in Nat /\ Lockout > Window
  BY LimiterNumbers, BusyNumbers, AccountsAssumption
<1>1. lock.left = 0 /\ ~lock'.on /\ tries' = tries /\ failures' = IF lock.on THEN <<>> ELSE failures
  BY DEF StartLogin, NoLock
<1>2. OldestFirst'
  BY <1>1 DEF OldestFirst
<1>3. CASE ~lock.on
  BY <1>1, <1>2, <1>3 DEF SameEnd, WhileOpen
<1>4. CASE lock.on
  <2>1. Len(tries) <= Len(failures)
    <3>1. SUFFICES ASSUME Len(tries) > Len(failures) PROVE FALSE
      BY <1>n
    <3>2. 1 \in 1..Len(tries) /\ 1 + Len(failures) <= Len(tries)
      BY <1>n, <3>1
    <3>3. tries[1] + lock.left >= Lockout
      BY <1>4, <3>2 DEF WhileLocked
    <3>4. tries[1] <= Window /\ tries[1] \in Nat
      BY <1>n, <3>2 DEF OldestFirst
    <3> QED
      BY <1>n, <1>1, <3>3, <3>4
  <2>2. Len(failures) + Cardinality(Busy) <= Cardinality(Attempts) - 1
    BY <1>4 DEF WhileLocked
  <2>3. Len(failures') = 0
    BY <1>1, <1>4
  <2>4. Len(tries) + 1 <= Cardinality(Attempts)
    BY <1>n, <2>1, <2>2
  <2>5. SameEnd'
    BY <1>1, <2>3 DEF SameEnd
  <2>6. WhileOpen'
    BY <1>n, <1>1, <2>3, <2>4 DEF WhileOpen
  <2> QED
    BY <1>1, <1>2, <2>5, <2>6
<1> QED
  BY <1>3, <1>4

\* A failure is the last of those remembered and of all of them, unless it begins
\* a lockout and nothing is remembered.
LEMMA RecordFailureSameEnd ==
  ASSUME LimiterIInv, NEW t \in Attempts, RecordFailure(t)
  PROVE  SameEnd' /\ OldestFirst'
<1> USE DEF LimiterIInv
<1> DEFINE nT == Len(tries)
           w  == Within(failures)
           nW == Len(w)
<1>1. w \in Ages /\ tries \in Ages
  BY WithinFailures DEF LimiterTypes
<1>2. nT \in Nat /\ nW \in Nat /\ Window \in Nat /\ \A i \in 1..nT : tries[i] \in Nat
  BY <1>1, LimiterNumbers, LenProperties DEF Ages
<1>3. nW <= nT /\ \A j \in Nat : j < nW => w[nW - j] = tries[nT - j]
  BY WithinFailures
<1>4. /\ tries' = Append(tries, 0) /\ Len(tries') = nT + 1 /\ tries'[nT + 1] = 0
      /\ \A i \in 1..nT : tries'[i] = tries[i]
  BY <1>1, AppendProperties DEF RecordFailure, Ages
<1>5. /\ Len(Append(w, 0)) = nW + 1 /\ Append(w, 0)[nW + 1] = 0
      /\ \A i \in 1..nW : Append(w, 0)[i] = w[i]
  BY <1>1, AppendProperties DEF Ages
<1>6. failures' = <<>> \/ failures' = Append(w, 0)
  BY DEF RecordFailure
<1> HIDE DEF nT, nW, w
<1>7. SameEnd'
  <2>1. CASE failures' = <<>>
    <3>1. Len(failures') = 0
      BY <2>1
    <3> QED
      BY <1>2, <1>4, <3>1 DEF SameEnd
  <2>2. CASE failures' = Append(w, 0)
    <3>1. /\ Len(failures') = nW + 1 /\ failures'[nW + 1] = 0
          /\ \A i \in 1..nW : failures'[i] = w[i]
      BY <1>5, <2>2
    <3>2. ASSUME NEW j \in Nat, j < nT + 1, j < nW + 1
          PROVE  tries'[nT + 1 - j] = failures'[nW + 1 - j]
      <4>1. CASE j = 0
        BY <1>2, <1>4, <3>1, <4>1
      <4>2. CASE j >= 1
        <5>1. /\ j - 1 \in Nat /\ j - 1 < nW /\ nT + 1 - j = nT - (j - 1) /\ nW + 1 - j = nW - (j - 1)
              /\ nT - (j - 1) \in 1..nT /\ nW - (j - 1) \in 1..nW
          BY <1>2, <3>2, <4>2
        <5>2. w[nW - (j - 1)] = tries[nT - (j - 1)]
          BY <1>3, <5>1
        <5>3. tries'[nT - (j - 1)] = tries[nT - (j - 1)] /\ failures'[nW - (j - 1)] = w[nW - (j - 1)]
          BY <1>4, <3>1, <5>1
        <5> QED
          BY <5>1, <5>2, <5>3
      <4> QED
        BY <4>1, <4>2
    <3>3. \A i \in 1..Len(failures') : ~(i + Len(tries') <= Len(failures'))
      BY <1>2, <1>3, <1>4, <3>1
    <3>4. \A j \in Nat : j < Len(tries') /\ j < Len(failures') =>
                         tries'[Len(tries') - j] = failures'[Len(failures') - j]
      <4>1. Len(tries') = nT + 1 /\ Len(failures') = nW + 1
        BY <1>4, <3>1
      <4> QED
        BY <1>2, <3>2, <4>1
    <3> QED
      BY <3>3, <3>4 DEF SameEnd
  <2> QED
    BY <1>6, <2>1, <2>2
<1>8. OldestFirst'
  <2>1. \A i \in 1..nT : tries[i] <= Window
    BY DEF OldestFirst, nT
  <2>2. \A i, j \in 1..nT : i < j => tries[i] >= tries[j]
    BY DEF OldestFirst, nT
  <2>3. ASSUME NEW i \in 1..nT + 1
        PROVE  tries'[i] <= Window /\ tries'[i] \in Nat
    BY <1>2, <1>4, <2>1
  <2>4. ASSUME NEW i \in 1..nT + 1, NEW j \in 1..nT + 1, i < j
        PROVE  tries'[i] >= tries'[j]
    <3>1. i \in 1..nT
      BY <1>2, <2>4
    <3>2. CASE j = nT + 1
      BY <1>4, <2>3, <3>2
    <3>3. CASE j \in 1..nT
      BY <1>4, <2>2, <2>4, <3>1, <3>3
    <3> QED
      BY <1>2, <3>2, <3>3
  <2> QED
    BY <1>4, <2>3, <2>4 DEF OldestFirst
<1> QED
  BY <1>7, <1>8

\* A failure is counted once; the one that reaches the limit is not verified any
\* more, and so the logins beside it are fewer than there can be.
LEMMA RecordFailureBounds ==
  ASSUME LimiterIInv, NEW t \in Attempts, RecordFailure(t)
  PROVE  (IF lock.on THEN WhileLocked ELSE WhileOpen)'
<1> USE DEF LimiterIInv
<1> DEFINE nT == Len(tries)
           nF == Len(failures)
           w  == Within(failures)
           nW == Len(w)
           A  == Cardinality(Attempts)
           b  == Cardinality(Busy)
           c  == Cardinality(Busy')
<1>1. w \in Ages /\ tries \in Ages
  BY WithinFailures DEF LimiterTypes
<1>2. nT \in Nat /\ nF \in Nat /\ nW \in Nat /\ A \in Nat /\ b \in Nat /\ b <= A /\ Failures \in Nat /\ Failures >= 1
  BY <1>1, LimiterNumbers, BusyNumbers, LenProperties, AccountsAssumption DEF Ages
<1>3. nW <= nF /\ nW <= nT /\ nW \in {nF, nT}
  BY WithinFailures
<1>4. /\ tries' = Append(tries, 0) /\ Len(tries') = nT + 1 /\ tries'[nT + 1] = 0
      /\ \A i \in 1..nT : tries'[i] = tries[i]
  BY <1>1, AppendProperties DEF RecordFailure, Ages
<1>5. Len(Append(w, 0)) = nW + 1
  BY <1>1, AppendProperties DEF Ages
<1>6. \/ /\ nW + 1 >= Failures /\ failures' = <<>> /\ lock' = [on |-> TRUE, left |-> Lockout]
      \/ /\ nW + 1 < Failures /\ failures' = Append(w, 0) /\ lock' = lock
  <2>1. nW + 1 < Failures \/ nW + 1 >= Failures
    BY <1>2
  <2> QED
    BY <1>2, <1>5, <2>1 DEF RecordFailure
<1>7. c + 1 = b /\ c \in Nat
  <2>1. attempt[t] # "idle" /\ attempt' = [attempt EXCEPT ![t] = "idle"]
    BY DEF RecordFailure
  <2>2. c + 1 = b
    BY <2>1, OneLessBusy
  <2>3. Busy' \subseteq Attempts /\ IsFiniteSet(Attempts)
    BY AccountsAssumption DEF Busy
  <2>4. c \in Nat
    BY <2>3, FS_Subset, FS_CardinalityType
  <2> QED
    BY <2>2, <2>4
<1>8. \A i \in 1..nT : tries[i] \in Nat
  BY LimiterNumbers
<1>9. Lockout \in Nat
  BY AccountsAssumption
<1>10. lock.on => /\ nF + b <= A - 1 /\ nT + b <= Failures + 2 * (A - 1)
                  /\ \A i \in 1..nT : i + nF <= nT => tries[i] + lock.left >= Lockout
  BY DEF WhileLocked
<1>11. ~lock.on => nF + 1 <= Failures /\ nT + 1 <= nF + A
  BY DEF WhileOpen
<1>12. (Len(failures') + c <= A - 1 /\ Len(tries') + c <= Failures + 2 * (A - 1)
        /\ \A i \in 1..Len(tries') : i + Len(failures') <= Len(tries') => tries'[i] + lock'.left >= Lockout)
       => WhileLocked'
  BY DEF WhileLocked
<1>13. Len(failures') + 1 <= Failures /\ Len(tries') + 1 <= Len(failures') + A => WhileOpen'
  BY DEF WhileOpen
<1> HIDE DEF nT, nF, w, nW, A, b, c
<1>14. CASE nW + 1 >= Failures /\ failures' = <<>> /\ lock' = [on |-> TRUE, left |-> Lockout]
  <2>1. Len(failures') = 0 /\ lock'.on /\ lock'.left = Lockout
    BY <1>14
  <2>2. c <= A - 1
    BY <1>2, <1>7
  <2>3. nT + 1 + c <= Failures + 2 * (A - 1)
    BY <1>2, <1>7, <1>10, <1>11
  <2>4. \A i \in 1..(nT + 1) : tries'[i] \in Nat
    BY <1>2, <1>4, <1>8
  <2>5. \A i \in 1..(nT + 1) : tries'[i] + Lockout >= Lockout
    BY <1>9, <2>4
  <2> QED
    BY <1>4, <1>7, <1>12, <2>1, <2>2, <2>3, <2>5
<1>15. CASE nW + 1 < Failures /\ failures' = Append(w, 0) /\ lock' = lock
  <2>1. Len(failures') = nW + 1
    BY <1>5, <1>15
  <2>2. CASE ~lock.on
    <3>1. nW + 1 + 1 <= Failures /\ nT + 1 + 1 <= nW + 1 + A
      <4>1. nT + 1 <= nF + A /\ A >= 1
        BY <1>2, <1>7, <1>11, <2>2
      <4> QED
        BY <1>2, <1>3, <1>15, <4>1
    <3> QED
      BY <1>4, <1>13, <1>15, <2>1, <2>2, <3>1
  <2>3. CASE lock.on
    <3>1. nW + 1 + c <= A - 1 /\ nT + 1 + c <= Failures + 2 * (A - 1)
      BY <1>2, <1>3, <1>7, <1>10, <2>3
    <3>2. ASSUME NEW i \in 1..(nT + 1), i + (nW + 1) <= nT + 1
          PROVE  tries'[i] + lock.left >= Lockout
      <4>1. i \in 1..nT /\ i + nF <= nT
        BY <1>2, <1>3, <3>2
      <4> QED
        BY <1>4, <1>10, <2>3, <4>1
    <3> QED
      BY <1>4, <1>12, <1>15, <2>1, <2>3, <3>1, <3>2
  <2> QED
    BY <2>2, <2>3
<1> QED
  BY <1>6, <1>14, <1>15

\* Time passes: all failures grow older together, and those that leave the window
\* are the ones that the remembered failures keep beyond it.
LEMMA TickSameEnd ==
  ASSUME LimiterIInv, Tick
  PROVE  /\ SameEnd' /\ OldestFirst'
         /\ Len(failures') = Len(failures) /\ Len(tries') <= Len(tries) /\ Len(tries') \in Nat
         /\ \A i \in 1..Len(tries') : /\ Len(tries) - Len(tries') + i \in 1..Len(tries)
                                      /\ tries'[i] = tries[Len(tries) - Len(tries') + i] + 1
<1> USE DEF LimiterIInv
<1> DEFINE nT == Len(tries)
           nF == Len(failures)
           o  == Older(tries)
<1>1. failures \in Ages /\ tries \in Ages /\ o \in Ages
  BY OlderIsOlder DEF LimiterTypes
<1>2. /\ nT \in Nat /\ nF \in Nat /\ Window \in Nat
      /\ \A i \in 1..nF : failures[i] \in Nat
      /\ \A i \in 1..nT : tries[i] \in Nat
  BY LimiterNumbers
<1>3. /\ failures' = Older(failures) /\ Len(failures') = nF
      /\ \A i \in 1..nF : failures'[i] = IF failures[i] > Window THEN failures[i] ELSE failures[i] + 1
  BY <1>1, OlderIsOlder DEF Tick
<1>4. /\ \A i \in 1..nT : tries[i] <= Window
      /\ \A i, j \in 1..nT : i < j => tries[i] >= tries[j]
  BY DEF OldestFirst
<1>5. Len(o) = nT /\ \A i \in 1..nT : o[i] = tries[i] + 1
  <2>1. Len(o) = nT /\ \A i \in 1..nT : o[i] = IF tries[i] > Window THEN tries[i] ELSE tries[i] + 1
    BY <1>1, OlderIsOlder
  <2>2. \A i \in 1..nT : ~(tries[i] > Window)
    BY <1>2, <1>4
  <2> QED
    BY <2>1, <2>2
<1>6. tries' = Within(o)
  BY DEF Tick
<1>7. PICK k \in 0..nT : /\ \A i \in 1..k : o[i] > Window
                         /\ k < nT => o[k + 1] <= Window
                         /\ Len(tries') = nT - k
                         /\ \A i \in 1..(nT - k) : tries'[i] = o[k + i]
  <2>1. PICK k \in 0..Len(o) : /\ \A i \in 1..k : o[i] > Window
                               /\ k < Len(o) => o[k + 1] <= Window
                               /\ Len(Within(o)) = Len(o) - k
                               /\ \A i \in 1..(Len(o) - k) : Within(o)[i] = o[k + i]
    <3> HIDE DEF o
    <3> QED
      BY <1>1, WithinDropsTheOldest
  <2>2. Len(o) = nT
    BY <1>5
  <2> HIDE DEF o, nT
  <2> QED
    BY <1>6, <2>1, <2>2
<1>8. /\ \A j \in Nat : j < nT /\ j < nF => tries[nT - j] = failures[nF - j]
      /\ \A i \in 1..nF : i + nT <= nF => failures[i] > Window
  BY DEF SameEnd
<1> HIDE DEF nT, nF, o
<1>9. \A i \in 1..(nT - k) : k + i \in 1..nT /\ tries'[i] = tries[k + i] + 1
  BY <1>2, <1>5, <1>7
<1>10. ASSUME NEW i \in 1..(nT - k), NEW j \in 1..(nT - k), i < j
       PROVE  tries'[i] >= tries'[j]
  <2>1. k + i \in 1..nT /\ k + j \in 1..nT /\ k + i < k + j
    BY <1>2, <1>10
  <2>2. tries[k + i] >= tries[k + j] /\ tries[k + i] \in Nat /\ tries[k + j] \in Nat
    BY <1>2, <1>4, <2>1
  <2> QED
    BY <1>9, <2>2
<1>11. ASSUME NEW i \in 1..(nT - k)
       PROVE  tries'[i] <= Window
  <2>1. /\ k < nT /\ k + 1 \in 1..nT /\ k + i \in 1..nT
        /\ k + 1 = k + i \/ k + 1 < k + i
    BY <1>2, <1>11
  <2>2. tries[k + 1] + 1 <= Window
    BY <1>5, <1>7, <2>1
  <2>3. tries[k + 1] >= tries[k + i] /\ tries[k + 1] \in Nat /\ tries[k + i] \in Nat
    BY <1>2, <1>4, <2>1
  <2> QED
    BY <1>2, <1>9, <2>2, <2>3
<1>12. OldestFirst'
  BY <1>7, <1>10, <1>11 DEF OldestFirst
<1>13. ASSUME NEW j \in Nat, j < nT - k, j < nF
       PROVE  tries'[nT - k - j] = failures'[nF - j]
  <2>1. /\ nT - k - j \in 1..(nT - k) /\ k + (nT - k - j) = nT - j /\ nT - j \in 1..nT /\ nF - j \in 1..nF
        /\ j < nT
    BY <1>2, <1>13
  <2>2. tries'[nT - k - j] = tries[nT - j] + 1 /\ tries[nT - j] = failures[nF - j]
    BY <1>8, <1>9, <1>13, <2>1
  <2>3. ~(failures[nF - j] > Window)
    BY <1>2, <1>4, <2>1, <2>2
  <2> QED
    BY <1>3, <2>1, <2>2, <2>3
<1>14. ASSUME NEW i \in 1..nF, i + (nT - k) <= nF
       PROVE  failures'[i] > Window
  <2>1. CASE failures[i] > Window
    BY <1>3, <2>1
  <2>2. CASE ~(failures[i] > Window)
    <3>1. i + nT > nF
      BY <1>2, <1>8, <2>2
    <3>2. /\ nF - i \in Nat /\ nF - i < nT /\ nF - i < nF /\ nF - (nF - i) = i
          /\ nT - (nF - i) \in 1..k /\ nT - (nF - i) \in 1..nT
      BY <1>2, <1>14, <3>1
    <3>3. tries[nT - (nF - i)] = failures[i]
      BY <1>8, <3>2
    <3>4. tries[nT - (nF - i)] + 1 > Window
      BY <1>5, <1>7, <3>2
    <3> QED
      BY <1>3, <2>2, <3>3, <3>4
  <2> QED
    BY <2>1, <2>2
<1>15. SameEnd'
  <2>1. \A j \in Nat : j < Len(tries') /\ j < Len(failures') =>
                       tries'[Len(tries') - j] = failures'[Len(failures') - j]
    BY <1>3, <1>7, <1>13
  <2>2. \A i \in 1..Len(failures') : i + Len(tries') <= Len(failures') => failures'[i] > Window
    BY <1>3, <1>7, <1>14
  <2> QED
    BY <2>1, <2>2 DEF SameEnd
<1>16. Len(tries') = nT - k /\ nT - (nT - k) = k /\ nT - k \in Nat /\ nT - k <= nT
  BY <1>2, <1>7
<1>17. \A i \in 1..Len(tries') : nT - Len(tries') + i \in 1..nT /\ tries'[i] = tries[nT - Len(tries') + i] + 1
  BY <1>9, <1>16
<1> QED
  BY <1>3, <1>12, <1>15, <1>16, <1>17 DEF nT, nF

\* No failure is counted twice, and what was forgotten ages with the lockout.
LEMMA TickBounds ==
  ASSUME LimiterIInv, Tick
  PROVE  (IF lock.on THEN WhileLocked ELSE WhileOpen)'
<1> USE DEF LimiterIInv
<1> DEFINE nT == Len(tries)
           nF == Len(failures)
           nU == Len(tries')
<1>1. /\ nT \in Nat /\ nF \in Nat /\ Window \in Nat /\ Failures \in Nat
      /\ Cardinality(Attempts) \in Nat /\ Cardinality(Busy) \in Nat /\ Lockout \in Nat /\ Lockout > Window
      /\ \A i \in 1..nT : tries[i] \in Nat
  BY LimiterNumbers, BusyNumbers, AccountsAssumption
<1>2. /\ Len(failures') = nF /\ nU <= nT /\ nU \in Nat
      /\ \A i \in 1..nU : nT - nU + i \in 1..nT /\ tries'[i] = tries[nT - nU + i] + 1
  BY TickSameEnd
<1>3. Busy' = Busy
  BY DEF Busy, Tick
<1>4. /\ lock'.on = lock.on /\ lock'.left = IF lock.left = 0 THEN 0 ELSE lock.left - 1
      /\ lock.left \in Nat
  <2>1. lock.left \in 0..Lockout /\ \A n \in 0..Lockout : n \in Nat
    BY AccountsAssumption DEF LimiterTypes
  <2> QED
    BY <2>1 DEF Tick, LimiterTypes
<1>5. \A i \in 1..nT : tries[i] <= Window
  BY DEF OldestFirst
<1> HIDE DEF nT, nF
<1>6. CASE ~lock.on
  <2>1. nF + 1 <= Failures /\ nT + 1 <= nF + Cardinality(Attempts)
    BY <1>6 DEF WhileOpen, nT, nF
  <2>2. Len(failures') + 1 <= Failures /\ Len(tries') + 1 <= Len(failures') + Cardinality(Attempts)
    BY <1>1, <1>2, <2>1
  <2> QED
    BY <1>4, <1>6, <2>2 DEF WhileOpen
<1>7. CASE lock.on
  <2>1. /\ nF + Cardinality(Busy) <= Cardinality(Attempts) - 1
        /\ nT + Cardinality(Busy) <= Failures + 2 * (Cardinality(Attempts) - 1)
        /\ \A i \in 1..nT : i + nF <= nT => tries[i] + lock.left >= Lockout
    BY <1>7 DEF WhileLocked, nT, nF
  <2>2. /\ Len(failures') + Cardinality(Busy') <= Cardinality(Attempts) - 1
        /\ Len(tries') + Cardinality(Busy') <= Failures + 2 * (Cardinality(Attempts) - 1)
    BY <1>1, <1>2, <1>3, <2>1
  <2>3. ASSUME NEW i \in 1..nU, i + nF <= nU
        PROVE  tries'[i] + lock'.left >= Lockout
    <3>1. nT - nU + i \in 1..nT /\ (nT - nU + i) + nF <= nT
      BY <1>1, <1>2, <2>3
    <3> DEFINE a == tries[nT - nU + i]
    <3>2. a + lock.left >= Lockout /\ a \in Nat /\ a <= Window
      BY <1>1, <1>5, <2>1, <3>1
    <3>3. tries'[i] = a + 1
      BY <1>2
    <3> HIDE DEF a
    <3> QED
      BY <1>1, <1>4, <3>2, <3>3
  <2>4. \A i \in 1..Len(tries') : i + Len(failures') <= Len(tries') => tries'[i] + lock'.left >= Lockout
    BY <1>2, <2>3
  <2> QED
    BY <1>4, <1>7, <2>2, <2>4 DEF WhileLocked
<1> QED
  BY <1>6, <1>7

\* Every action keeps the invariant of the limiter.
LEMMA LimiterStep ==
  ASSUME LimiterIInv, [Next]_vars
  PROVE  LimiterIInv'
<1>1. AccountTypes' /\ LimiterTypes'
  BY AccountTypesStep, LimiterTypesStep DEF LimiterIInv
<1>u. ASSUME UNCHANGED limiter
      PROVE  (SameEnd /\ OldestFirst /\ IF lock.on THEN WhileLocked ELSE WhileOpen)'
  BY <1>u DEF LimiterIInv, SameEnd, OldestFirst, WhileLocked, WhileOpen, Busy, limiter
<1>2. ASSUME NEW r \in Requests, \/ Signup(r) \/ AddUser(r) \/ EditUser(r) \/ RemoveUser(r) \/ SaveUsers(r)
                                 \/ Switch(r) \/ SetupReads(r) \/ TeardownReads(r) \/ SwitchSaves(r)
                                 \/ SwitchPulls(r)
      PROVE  UNCHANGED limiter
  BY <1>2 DEF Signup, AddUser, EditUser, RemoveUser, Removes, Reads, SaveUsers, Switch, SetupReads,
              TeardownReads, SwitchSaves, SwitchPulls
<1>3. ASSUME Logout \/ SaveState \/ (\E on \in BOOLEAN : WriteState(on)) \/ UNCHANGED vars
      PROVE  UNCHANGED limiter
  BY <1>3 DEF Logout, SaveState, WriteState, vars
<1>4. ASSUME Restart \/ \E t \in Attempts : LoginSucceeds(t)
      PROVE  (SameEnd /\ OldestFirst /\ IF lock.on THEN WhileLocked ELSE WhileOpen)'
  <2>1. failures' = <<>> /\ tries' = <<>> /\ lock' = NoLock
    BY <1>4 DEF Restart, LoginSucceeds
  <2> QED
    BY <2>1, LimiterForgets
<1>5. (SameEnd /\ OldestFirst /\ IF lock.on THEN WhileLocked ELSE WhileOpen)'
  <2>1. CASE UNCHANGED limiter
    BY <1>u, <2>1
  <2>2. CASE \E t \in Attempts : StartLogin(t)
    BY <2>2, StartLoginKeeps
  <2>3. CASE \E t \in Attempts : RecordFailure(t)
    BY <2>3, RecordFailureSameEnd, RecordFailureBounds
  <2>4. CASE Tick
    BY <2>4, TickSameEnd, TickBounds
  <2> QED
    BY <1>2, <1>3, <1>4, <2>1, <2>2, <2>3, <2>4 DEF Next
<1> QED
  BY <1>1, <1>5 DEF LimiterIInv

-----------------------------------------------------------------------------
(* The failures of the agent's earlier runs, which the limiter has         *)
(* forgotten: what a restart can add to them, and what leaves the window.   *)

\* What a run of the agent lets in, at most.
PerRun == Failures + 2 * (Cardinality(Attempts) - 1)

\* Those of earlier runs are within the window, oldest first, and older than those
\* of this run.
EarlierFirst ==
  /\ \A i \in 1..Len(earlier) : earlier[i] <= Window
  /\ \A i, j \in 1..Len(earlier) : i < j => earlier[i] >= earlier[j]
  /\ \A i \in 1..Len(earlier), j \in 1..Len(tries) : earlier[i] >= tries[j]

\* All but the last so many runs' worth of them are as old as the restart after
\* those runs, and so there is such a restart within the window.
RestartsBetween ==
  \A k \in Nat, i \in 1..Len(earlier) :
    i + k * PerRun <= Len(earlier) => k < Len(forgot) /\ earlier[i] >= forgot[Len(forgot) - k]

EarlierIInv == LimiterIInv /\ EarlierFirst /\ RestartsBetween

\* Numbers of the earlier runs.
LEMMA EarlierNumbers ==
  ASSUME LimiterTypes
  PROVE  /\ Len(earlier) \in Nat /\ Len(forgot) \in Nat /\ PerRun \in Nat
         /\ \A i \in 1..Len(earlier) : earlier[i] \in Nat
         /\ \A i \in 1..Len(forgot) : forgot[i] \in Nat
         /\ \A k \in Nat : k * PerRun \in Nat /\ (k + 1) * PerRun = k * PerRun + PerRun
<1>1. \A n \in 0..Window + 1 : n \in Nat
  BY AccountsAssumption
<1>2. PerRun \in Nat
  BY BusyNumbers, AccountsAssumption DEF PerRun
<1>3. \A k \in Nat : k * PerRun \in Nat /\ (k + 1) * PerRun = k * PerRun + PerRun
  BY <1>2
<1> QED
  BY <1>1, <1>2, <1>3, ElementOfSeq, LenProperties DEF LimiterTypes, Ages

\* A run lets in no more than that.
LEMMA RunIsBounded ==
  ASSUME LimiterIInv
  PROVE  Len(tries) <= PerRun
<1>1. /\ Len(failures) \in Nat /\ Len(tries) \in Nat /\ Failures \in Nat
      /\ Cardinality(Attempts) \in Nat /\ Cardinality(Attempts) >= 1 /\ Cardinality(Busy) \in Nat
  BY LimiterNumbers, BusyNumbers, AccountsAssumption DEF LimiterIInv
<1>2. CASE lock.on
  BY <1>1, <1>2 DEF LimiterIInv, WhileLocked, PerRun
<1>3. CASE ~lock.on
  BY <1>1, <1>3 DEF LimiterIInv, WhileOpen, PerRun
<1> QED
  BY <1>2, <1>3

\* No failure, no bound to keep.
LEMMA NothingEarlier ==
  ASSUME earlier' = <<>>
  PROVE  EarlierFirst' /\ RestartsBetween'
<1>1. Len(earlier') = 0 /\ 1..0 = {}
  BY DEF EarlierFirst
<1> QED
  BY <1>1 DEF EarlierFirst, RestartsBetween

\* A restart leaves one run's worth more behind, all of it older than itself.
LEMMA RestartKeepsEarlier ==
  ASSUME EarlierIInv, Restart
  PROVE  EarlierFirst' /\ RestartsBetween'
<1> USE DEF EarlierIInv
<1> DEFINE nE == Len(earlier)
           nT == Len(tries)
           nF == Len(forgot)
<1>1. tries \in Ages /\ earlier \in Ages /\ forgot \in Ages
  BY DEF LimiterIInv, LimiterTypes
<1>2. /\ nE \in Nat /\ nT \in Nat /\ nF \in Nat /\ PerRun \in Nat /\ nT <= PerRun
      /\ \A i \in 1..nE : earlier[i] \in Nat
      /\ \A i \in 1..nT : tries[i] \in Nat
      /\ \A k \in Nat : k * PerRun \in Nat /\ (k + 1) * PerRun = k * PerRun + PerRun
  BY LimiterNumbers, EarlierNumbers, RunIsBounded DEF LimiterIInv
<1>3. /\ Len(earlier') = nE + nT
      /\ \A i \in 1..nE : earlier'[i] = earlier[i]
      /\ \A i \in nE + 1..nE + nT : earlier'[i] = tries[i - nE]
  BY <1>1, ConcatProperties DEF Restart, Ages
<1>4. Len(tries') = 0
  BY DEF Restart
<1>5. /\ \A i \in 1..nE : earlier[i] <= Window
      /\ \A i, j \in 1..nE : i < j => earlier[i] >= earlier[j]
      /\ \A i \in 1..nE, j \in 1..nT : earlier[i] >= tries[j]
      /\ \A i \in 1..nT : tries[i] <= Window
      /\ \A i, j \in 1..nT : i < j => tries[i] >= tries[j]
  BY DEF EarlierFirst, LimiterIInv, OldestFirst
<1>6. \A k \in Nat, i \in 1..nE : i + k * PerRun <= nE => k < nF /\ earlier[i] >= forgot[nF - k]
  BY DEF RestartsBetween
<1>7. CASE tries = <<>>
  <2>1. forgot' = forgot /\ nT = 0
    BY <1>7 DEF Restart
  <2>2. Len(earlier') = nE /\ \A i \in 1..nE : earlier'[i] = earlier[i]
    BY <1>2, <1>3, <2>1
  <2> QED
    BY <1>4, <1>5, <1>6, <2>1, <2>2 DEF EarlierFirst, RestartsBetween
<1>8. CASE tries # <<>>
  <2>1. forgot' = Append(forgot, 0)
    BY <1>8 DEF Restart
  <2>2. Len(forgot') = nF + 1 /\ forgot'[nF + 1] = 0 /\ \A i \in 1..nF : forgot'[i] = forgot[i]
    BY <1>1, <2>1, AppendProperties DEF Ages
  <2> HIDE DEF nE, nT, nF
  <2>3. ASSUME NEW i \in 1..nE + nT
        PROVE  earlier'[i] <= Window /\ earlier'[i] \in Nat
    <3>1. CASE i \in 1..nE
      BY <1>2, <1>3, <1>5, <3>1
    <3>2. CASE i \in nE + 1..nE + nT
      <4>1. i - nE \in 1..nT
        BY <1>2, <3>2
      <4> QED
        BY <1>2, <1>3, <1>5, <3>2, <4>1
    <3> QED
      BY <1>2, <3>1, <3>2
  <2>4. ASSUME NEW i \in 1..nE + nT, NEW j \in 1..nE + nT, i < j
        PROVE  earlier'[i] >= earlier'[j]
    <3>1. CASE j \in 1..nE
      BY <1>2, <1>3, <1>5, <2>4, <3>1
    <3>2. CASE i \in 1..nE /\ j \in nE + 1..nE + nT
      <4>1. j - nE \in 1..nT
        BY <1>2, <3>2
      <4> QED
        BY <1>3, <1>5, <3>2, <4>1
    <3>3. CASE i \in nE + 1..nE + nT
      <4>1. i - nE \in 1..nT /\ j - nE \in 1..nT /\ i - nE < j - nE /\ j \in nE + 1..nE + nT
        BY <1>2, <2>4, <3>3
      <4> QED
        BY <1>3, <1>5, <3>3, <4>1
    <3> QED
      BY <1>2, <3>1, <3>2, <3>3
  <2>5. EarlierFirst'
    BY <1>3, <1>4, <2>3, <2>4 DEF EarlierFirst
  <2>6. ASSUME NEW k \in Nat, NEW i \in 1..nE + nT, i + k * PerRun <= nE + nT
        PROVE  k < nF + 1 /\ earlier'[i] >= forgot'[nF + 1 - k]
    <3>1. CASE k = 0
      BY <1>2, <2>2, <2>3, <3>1
    <3>2. CASE k # 0
      <4>1. PICK m \in Nat : k = m + 1
        <5>1. k - 1 \in Nat /\ k = (k - 1) + 1
          BY <3>2
        <5> QED
          BY <5>1
      <4>2. k * PerRun = m * PerRun + PerRun /\ m * PerRun \in Nat
        BY <1>2, <4>1
      <4>3. i \in 1..nE /\ i + m * PerRun <= nE
        BY <1>2, <2>6, <4>2
      <4>4. m < nF /\ earlier[i] >= forgot[nF - m]
        BY <1>6, <4>3
      <4>5. nF + 1 - k = nF - m /\ nF - m \in 1..nF /\ k < nF + 1
        BY <1>2, <4>1, <4>4
      <4> QED
        BY <1>3, <2>2, <4>3, <4>4, <4>5
    <3> QED
      BY <3>1, <3>2
  <2>7. RestartsBetween'
    <3>1. PerRun' = PerRun
      BY DEF PerRun
    <3>2. ASSUME NEW k \in Nat, NEW i \in 1..Len(earlier'), i + k * PerRun <= Len(earlier')
          PROVE  k < Len(forgot') /\ earlier'[i] >= forgot'[Len(forgot') - k]
      <4>1. i \in 1..nE + nT /\ i + k * PerRun <= nE + nT
        BY <1>3, <3>2, Zenon
      <4>2. k < nF + 1 /\ earlier'[i] >= forgot'[nF + 1 - k]
        BY <2>6, <4>1
      <4> QED
        BY <1>2, <2>2, <4>2
    <3> QED
      BY <3>1, <3>2, Zenon DEF RestartsBetween
  <2> QED
    BY <2>5, <2>7
<1> QED
  BY <1>7, <1>8

\* Time passes: the restarts grow older with the failures, and one leaves the
\* window only after all that were as old.
LEMMA TickKeepsEarlier ==
  ASSUME EarlierIInv, Tick
  PROVE  EarlierFirst' /\ RestartsBetween'
<1> USE DEF EarlierIInv
<1> DEFINE nE == Len(earlier)
           nF == Len(forgot)
           oE == Older(earlier)
           oF == Older(forgot)
<1>1. /\ earlier \in Ages /\ forgot \in Ages /\ oE \in Ages /\ oF \in Ages
      /\ Window \in Nat /\ nE \in Nat /\ nF \in Nat /\ PerRun \in Nat
      /\ \A i \in 1..nE : earlier[i] \in Nat
      /\ \A i \in 1..nF : forgot[i] \in Nat
      /\ \A k \in Nat : k * PerRun \in Nat
  BY OlderIsOlder, EarlierNumbers, LimiterNumbers DEF LimiterIInv, LimiterTypes
<1>2. /\ \A i \in 1..nE : earlier[i] <= Window
      /\ \A i, j \in 1..nE : i < j => earlier[i] >= earlier[j]
      /\ \A i \in 1..nE, j \in 1..Len(tries) : earlier[i] >= tries[j]
  BY DEF EarlierFirst
<1>3. \A k \in Nat, i \in 1..nE : i + k * PerRun <= nE => k < nF /\ earlier[i] >= forgot[nF - k]
  BY DEF RestartsBetween
<1>4. Len(oE) = nE /\ \A i \in 1..nE : oE[i] = earlier[i] + 1
  <2>1. Len(oE) = nE /\ \A i \in 1..nE : oE[i] = IF earlier[i] > Window THEN earlier[i] ELSE earlier[i] + 1
    BY <1>1, OlderIsOlder
  <2>2. \A i \in 1..nE : ~(earlier[i] > Window)
    BY <1>1, <1>2
  <2> QED
    BY <2>1, <2>2
<1>5. Len(oF) = nF /\ \A i \in 1..nF : oF[i] = IF forgot[i] > Window THEN forgot[i] ELSE forgot[i] + 1
  BY <1>1, OlderIsOlder
<1>6. earlier' = Within(oE) /\ forgot' = Within(oF)
  BY DEF Tick
<1>t. /\ Len(tries) \in Nat /\ Len(tries') \in Nat /\ \A j \in 1..Len(tries) : tries[j] \in Nat
      /\ \A j \in 1..Len(tries') : /\ Len(tries) - Len(tries') + j \in 1..Len(tries)
                                   /\ tries'[j] = tries[Len(tries) - Len(tries') + j] + 1
  BY TickSameEnd, LimiterNumbers DEF LimiterIInv
<1> HIDE DEF nE, nF, oE, oF
<1>7. PICK x \in 0..nE : /\ x < nE => oE[x + 1] <= Window
                         /\ Len(earlier') = nE - x
                         /\ \A i \in 1..(nE - x) : earlier'[i] = oE[x + i]
  BY <1>1, <1>4, <1>6, WithinDropsTheOldest
<1>8. PICK y \in 0..nF : /\ \A i \in 1..y : oF[i] > Window
                         /\ Len(forgot') = nF - y
                         /\ \A i \in 1..(nF - y) : forgot'[i] = oF[y + i]
  <2>1. PICK y \in 0..Len(oF) : /\ \A i \in 1..y : oF[i] > Window
                               /\ Len(Within(oF)) = Len(oF) - y
                               /\ \A i \in 1..(Len(oF) - y) : Within(oF)[i] = oF[y + i]
    BY <1>1, WithinDropsTheOldest
  <2>2. Len(oF) = nF
    BY <1>5
  <2> QED
    BY <1>6, <2>1, <2>2
<1>9. ASSUME NEW i \in 1..(nE - x)
      PROVE  x + i \in 1..nE /\ earlier'[i] = earlier[x + i] + 1 /\ earlier'[i] <= Window
  <2>1. x + i \in 1..nE /\ x + 1 \in 1..nE /\ x < nE /\ (x + 1 = x + i \/ x + 1 < x + i)
    BY <1>1, <1>7
  <2>2. earlier'[i] = earlier[x + i] + 1 /\ earlier[x + 1] + 1 <= Window
    BY <1>4, <1>7, <2>1
  <2>3. earlier[x + 1] >= earlier[x + i] /\ earlier[x + 1] \in Nat /\ earlier[x + i] \in Nat
    BY <1>1, <1>2, <2>1
  <2> QED
    BY <1>1, <2>1, <2>2, <2>3
<1>10. ASSUME NEW i \in 1..(nE - x), NEW j \in 1..(nE - x), i < j
       PROVE  earlier'[i] >= earlier'[j]
  <2>1. x + i \in 1..nE /\ x + j \in 1..nE /\ x + i < x + j
    BY <1>1, <1>10
  <2>2. earlier[x + i] >= earlier[x + j] /\ earlier[x + i] \in Nat /\ earlier[x + j] \in Nat
    BY <1>1, <1>2, <2>1
  <2> QED
    BY <1>9, <2>2
<1>11. ASSUME NEW i \in 1..(nE - x), NEW j \in 1..Len(tries')
       PROVE  earlier'[i] >= tries'[j]
  <2>1. /\ x + i \in 1..nE /\ earlier'[i] = earlier[x + i] + 1 /\ earlier[x + i] \in Nat
        /\ Len(tries) - Len(tries') + j \in 1..Len(tries)
        /\ tries'[j] = tries[Len(tries) - Len(tries') + j] + 1
        /\ tries[Len(tries) - Len(tries') + j] \in Nat
    BY <1>1, <1>9, <1>t
  <2>2. earlier[x + i] >= tries[Len(tries) - Len(tries') + j]
    BY <1>2, <2>1
  <2> QED
    BY <2>1, <2>2
<1>12. EarlierFirst'
  BY <1>7, <1>9, <1>10, <1>11 DEF EarlierFirst
<1>13. ASSUME NEW k \in Nat, NEW i \in 1..(nE - x), i + k * PerRun <= nE - x
       PROVE  k < nF - y /\ earlier'[i] >= forgot'[nF - y - k]
  <2>1. x + i \in 1..nE /\ (x + i) + k * PerRun <= nE
    BY <1>1, <1>13
  <2>2. k < nF /\ earlier[x + i] >= forgot[nF - k] /\ nF - k \in 1..nF
    BY <1>1, <1>3, <2>1
  <2>3. /\ earlier'[i] = earlier[x + i] + 1 /\ earlier'[i] <= Window
        /\ earlier[x + i] \in Nat /\ forgot[nF - k] \in Nat
    BY <1>1, <1>9, <2>1, <2>2
  <2>4. oF[nF - k] = forgot[nF - k] + 1 /\ oF[nF - k] <= Window
    <3>1. ~(forgot[nF - k] > Window)
      BY <1>1, <2>2, <2>3
    <3>2. oF[nF - k] = forgot[nF - k] + 1
      BY <1>5, <2>2, <3>1
    <3> QED
      BY <1>1, <2>2, <2>3, <3>2
  <2>5. nF - k > y
    <3>1. SUFFICES ASSUME nF - k <= y PROVE FALSE
      BY <1>1
    <3>2. nF - k \in 1..y
      BY <1>1, <2>2, <3>1
    <3>3. oF[nF - k] > Window /\ oF[nF - k] \in Nat
      BY <1>8, <2>3, <2>4, <3>2
    <3> QED
      BY <1>1, <2>4, <3>3
  <2>6. k < nF - y /\ nF - y - k \in 1..(nF - y) /\ y + (nF - y - k) = nF - k
    BY <1>1, <2>2, <2>5
  <2> QED
    BY <1>8, <2>2, <2>3, <2>4, <2>6
<1>14. RestartsBetween'
  BY <1>7, <1>8, <1>13 DEF RestartsBetween, PerRun
<1> QED
  BY <1>12, <1>14

\* Every action keeps the invariant of the earlier runs.
LEMMA EarlierStep ==
  ASSUME EarlierIInv, [Next]_vars
  PROVE  EarlierIInv'
<1>1. LimiterIInv'
  BY LimiterStep DEF EarlierIInv
<1>2. ASSUME UNCHANGED <<tries, earlier, forgot>>
      PROVE  EarlierFirst' /\ RestartsBetween'
  BY <1>2 DEF EarlierIInv, EarlierFirst, RestartsBetween, PerRun
<1>3. ASSUME NEW t \in Attempts, RecordFailure(t)
      PROVE  EarlierFirst' /\ RestartsBetween'
  <2>1. UNCHANGED <<earlier, forgot>> /\ tries' = Append(tries, 0) /\ tries \in Ages
    BY <1>3 DEF RecordFailure, EarlierIInv, LimiterIInv, LimiterTypes
  <2>2. /\ Len(tries') = Len(tries) + 1 /\ tries'[Len(tries) + 1] = 0 /\ Len(tries) \in Nat
        /\ \A j \in 1..Len(tries) : tries'[j] = tries[j]
    BY <2>1, AppendProperties, LenProperties DEF Ages
  <2>3. \A i \in 1..Len(earlier) : earlier[i] \in Nat
    BY EarlierNumbers DEF EarlierIInv, LimiterIInv
  <2>4. ASSUME NEW i \in 1..Len(earlier), NEW j \in 1..Len(tries) + 1
        PROVE  earlier[i] >= tries'[j]
    <3>1. CASE j = Len(tries) + 1
      BY <2>2, <2>3, <3>1
    <3>2. CASE j \in 1..Len(tries)
      BY <2>2, <3>2 DEF EarlierIInv, EarlierFirst
    <3> QED
      BY <2>2, <3>1, <3>2
  <2> QED
    BY <2>1, <2>2, <2>4 DEF EarlierIInv, EarlierFirst, RestartsBetween, PerRun
<1>4. ASSUME NEW t \in Attempts, StartLogin(t) \/ LoginSucceeds(t)
      PROVE  EarlierFirst' /\ RestartsBetween'
  BY <1>2, <1>4, NothingEarlier DEF StartLogin, LoginSucceeds
<1>5. CASE Restart
  BY <1>1, <1>5, RestartKeepsEarlier DEF EarlierIInv
<1>6. CASE Tick
  BY <1>1, <1>6, TickKeepsEarlier DEF EarlierIInv
<1>7. ASSUME NEW r \in Requests, \/ Signup(r) \/ AddUser(r) \/ EditUser(r) \/ RemoveUser(r) \/ SaveUsers(r)
                                 \/ Switch(r) \/ SetupReads(r) \/ TeardownReads(r) \/ SwitchSaves(r)
                                 \/ SwitchPulls(r)
      PROVE  UNCHANGED <<tries, earlier, forgot>>
  BY <1>7 DEF Signup, AddUser, EditUser, RemoveUser, Removes, Reads, SaveUsers, Switch, SetupReads,
              TeardownReads, SwitchSaves, SwitchPulls, limiter
<1>8. ASSUME NEW on \in BOOLEAN, WriteState(on)
      PROVE  UNCHANGED <<tries, earlier, forgot>>
  BY <1>8 DEF WriteState, limiter
<1>9. ASSUME Logout \/ SaveState \/ UNCHANGED vars
      PROVE  UNCHANGED <<tries, earlier, forgot>>
  BY <1>9 DEF Logout, SaveState, vars, limiter
<1> QED
  BY <1>1, <1>2, <1>3, <1>4, <1>5, <1>6, <1>7, <1>8, <1>9 DEF EarlierIInv, Next

\* However many logins are verified at once, one address has at most so many
\* passwords refused within the window and without a success (_is_rate_limited,
\* _record_failure, _clear_failures): those that reach the limit, and twice those
\* that can be verified beside them, and as many again for every restart of the
\* agent within the window, since the limiter is in memory.
THEOREM TriesStayBounded == Spec => []TriesAreBounded
<1>1. Init => EarlierIInv
  <2>1. SUFFICES ASSUME Init PROVE EarlierIInv
    OBVIOUS
  <2>2. Len(earlier) = 0 /\ 1..0 = {}
    BY <2>1 DEF Init
  <2> QED
    BY <2>1, <2>2, InitLimiterIInv DEF EarlierIInv, EarlierFirst, RestartsBetween
<1>2. EarlierIInv /\ [Next]_vars => EarlierIInv'
  BY EarlierStep
<1>3. EarlierIInv => TriesAreBounded
  <2>1. SUFFICES ASSUME EarlierIInv PROVE TriesAreBounded
    OBVIOUS
  <2> DEFINE nE == Len(earlier)
             nF == Len(forgot)
  <2>2. /\ nE \in Nat /\ nF \in Nat /\ PerRun \in Nat /\ Len(tries) \in Nat /\ Len(tries) <= PerRun
        /\ nF * PerRun \in Nat /\ (nF + 1) * PerRun = nF * PerRun + PerRun
    BY <2>1, EarlierNumbers, LimiterNumbers, RunIsBounded DEF EarlierIInv, LimiterIInv
  <2>3. \A i \in 1..nE : i + nF * PerRun <= nE => nF < nF
    BY <2>1, <2>2 DEF EarlierIInv, RestartsBetween
  <2> HIDE DEF nE, nF
  <2>4. nE <= nF * PerRun
    <3>1. SUFFICES ASSUME nE > nF * PerRun PROVE FALSE
      BY <2>2
    <3>2. 1 \in 1..nE /\ 1 + nF * PerRun <= nE
      BY <2>2, <3>1
    <3>3. nF < nF
      BY <2>3, <3>2
    <3> QED
      BY <2>2, <3>3
  <2>5. nE + Len(tries) <= (nF + 1) * PerRun
    BY <2>2, <2>4
  <2> QED
    BY <2>5 DEF TriesAreBounded, PerRun, nE, nF
<1> QED
  BY <1>1, <1>2, <1>3, PTL DEF Spec
=============================================================================
