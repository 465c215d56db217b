--------------------------- MODULE ExecStreamProofs ---------------------------
(***************************************************************************)
(* For every number of sessions, pieces of output, keys and connections:   *)
(* that the output and the keys of a shell arrive whole and in order, that *)
(* its end is seen, and that a terminal leaves no shell behind.            *)
(*                                                                         *)
(* A step is a step of one session, or of the connection: SessionSteps     *)
(* says what it may do to a given session, and the invariants are stated   *)
(* and kept session by session.                                            *)
(***************************************************************************)
EXTENDS ExecSessionProofs, SequenceTheorems, FiniteSetTheorems

\* The types that ExecTypes leaves out, without their bounds.
MoreTypes ==
  /\ direct \subseteq Sessions /\ gone \subseteq Sessions
  /\ registered \subseteq Sessions /\ listed \subseteq Sessions
  /\ shown \in [Sessions -> Seq(Nat)]
  /\ got \in [Sessions -> Seq(Nat)]
  /\ up \in BOOLEAN
  /\ why \in [Sessions -> SUBSET {"gave-up", "broken", "reordered"}]

Mail(s) == {m \in wire : m.sess = s}

DoorStays(s) ==
  /\ handler'[s] = handler[s]
  /\ s \in registered' <=> s \in registered
  /\ s \in direct' <=> s \in direct
QueueStays(s) == queue'[s] = queue[s] /\ shown'[s] = shown[s]
KeysStay(s)   == typed'[s] = typed[s] /\ got'[s] = got[s]
ShellStays(s) == shell'[s] = shell[s] /\ (s \in listed' <=> s \in listed)
MailStays(s)  == Mail(s)' = Mail(s)

\* The connection is as it was, and nothing broke.
LinkStays(s) ==
  /\ conn' = conn /\ up' = up
  /\ "broken" \in why'[s] <=> "broken" \in why[s]
  /\ why[s] \subseteq why'[s]

Same(s) == DoorStays(s) /\ QueueStays(s) /\ KeysStay(s) /\ ShellStays(s) /\ MailStays(s) /\ LinkStays(s)

\* What the actions of a session, and those of its frames, do to it.
Opens(s) ==
  /\ handler[s] = "idle"
  /\ \/ /\ up /\ handler'[s] = "calling" /\ s \in registered'
        /\ Mail(s)' = Mail(s) \union {Msg("open", s, 0, FALSE)}
     \/ /\ ~up /\ handler'[s] = "over" /\ (s \in registered' <=> s \in registered)
        /\ MailStays(s)
  /\ s \in direct' <=> s \in direct
  /\ QueueStays(s) /\ KeysStay(s) /\ ShellStays(s) /\ LinkStays(s)

OpensDirect(s) ==
  /\ handler[s] = "idle" /\ s \in direct' /\ (s \in registered' <=> s \in registered)
  /\ shell'[s].said = shell[s].said /\ shell'[s].owes = "nothing"
  /\ \/ handler'[s] = "open" /\ shell'[s].at = "running" /\ s \in listed'
     \/ handler'[s] = "over" /\ shell'[s].at = "over" /\ (s \in listed' <=> s \in listed)
  /\ QueueStays(s) /\ KeysStay(s) /\ MailStays(s) /\ LinkStays(s)

GivesUp(s) ==
  /\ handler[s] = "calling" /\ handler'[s] = "over" /\ s \notin registered'
  /\ "gave-up" \in why'[s]
  /\ s \in direct' <=> s \in direct
  /\ QueueStays(s) /\ KeysStay(s) /\ ShellStays(s) /\ MailStays(s) /\ LinkStays(s)

Says(s) ==
  /\ shell[s].at = "running" /\ Items < MaxItems
  /\ shell'[s].said = shell[s].said + 1
  /\ shell'[s].at = shell[s].at /\ shell'[s].owes = shell[s].owes /\ shell'[s].ch = shell[s].ch
  /\ s \in listed' <=> s \in listed
  /\ IF s \in direct
     THEN queue'[s] = Append(queue[s], shell[s].said + 1) /\ MailStays(s)
     ELSE /\ queue'[s] = queue[s]
          /\ Mail(s)' = IF Live(s) THEN Mail(s) \union {Msg("stdout", s, shell[s].said + 1, FALSE)} ELSE Mail(s)
  /\ shown'[s] = shown[s]
  /\ DoorStays(s) /\ KeysStay(s) /\ LinkStays(s)

Exits(s) ==
  /\ shell[s].at = "running" /\ shell'[s].at = "ended"
  /\ shell'[s].said = shell[s].said /\ shell'[s].owes = shell[s].owes /\ shell'[s].ch = shell[s].ch
  /\ s \in listed' <=> s \in listed
  /\ DoorStays(s) /\ QueueStays(s) /\ KeysStay(s) /\ MailStays(s) /\ LinkStays(s)

Closes(s) ==
  /\ shell'[s].at = IF s \in listed /\ shell[s].at = "running" THEN "ended" ELSE shell[s].at
  /\ shell'[s].said = shell[s].said /\ shell'[s].owes = shell[s].owes /\ shell'[s].ch = shell[s].ch
  /\ s \notin listed'

Finishes(s, frames) ==
  /\ handler'[s] = "over" /\ s \notin registered'
  /\ IF s \in direct THEN Closes(s) /\ MailStays(s)
     ELSE /\ Mail(s)' = IF up THEN Mail(s) \union frames \union {Msg("close", s, 0, FALSE)} ELSE Mail(s)
          /\ ShellStays(s)

TypesKey(s) ==
  /\ handler[s] \in {"open", "stopped"} /\ Items < MaxItems
  /\ typed'[s] = typed[s] + 1
  /\ got'[s] = IF s \in direct /\ s \in listed THEN Append(got[s], typed[s] + 1) ELSE got[s]
  /\ \/ /\ handler[s] = "open" /\ DoorStays(s) /\ ShellStays(s)
        /\ IF s \in direct THEN s \in listed ELSE up
        /\ Mail(s)' = IF s \notin direct THEN Mail(s) \union {Msg("stdin", s, typed[s] + 1, FALSE)} ELSE Mail(s)
     \/ Finishes(s, {Msg("stdin", s, typed[s] + 1, FALSE)})
  /\ s \in direct' <=> s \in direct
  /\ QueueStays(s) /\ LinkStays(s)

Replies(s) ==
  /\ shell[s].owes # "nothing" /\ shell'[s].owes = "nothing"
  /\ shell'[s].at = shell[s].at /\ shell'[s].said = shell[s].said /\ shell'[s].ch = shell[s].ch
  /\ s \in listed' <=> s \in listed
  /\ Mail(s)' = IF Live(s)
                THEN Mail(s) \union {Msg("reply", s, IF shell[s].owes = "ok" THEN 1 ELSE 0, FALSE)}
                ELSE Mail(s)
  /\ DoorStays(s) /\ QueueStays(s) /\ KeysStay(s) /\ LinkStays(s)

EndsLoop(s) ==
  /\ shell[s].at = "ended" /\ shell'[s].at = "over" /\ s \notin listed'
  /\ shell'[s].said = shell[s].said /\ shell'[s].owes = shell[s].owes /\ shell'[s].ch = shell[s].ch
  /\ IF s \in direct
     THEN queue'[s] = Append(queue[s], 0) /\ MailStays(s)
     ELSE /\ queue'[s] = queue[s]
          /\ Mail(s)' = IF Live(s) THEN Mail(s) \union {Msg("stdout", s, shell[s].said + 1, TRUE)} ELSE Mail(s)
  /\ shown'[s] = shown[s]
  /\ DoorStays(s) /\ KeysStay(s) /\ LinkStays(s)

Shows(s) ==
  /\ handler[s] = "open" /\ queue[s] # <<>> /\ queue'[s] = Tail(queue[s])
  /\ \/ handler'[s] = "stopped" /\ shown'[s] = shown[s]
     \/ handler'[s] = "open" /\ Head(queue[s]) # 0 /\ shown'[s] = Append(shown[s], Head(queue[s]))
  /\ s \in registered' <=> s \in registered
  /\ s \in direct' <=> s \in direct
  /\ KeysStay(s) /\ ShellStays(s) /\ MailStays(s) /\ LinkStays(s)

HangsUp(s) ==
  /\ handler[s] \in {"open", "stopped"}
  /\ Finishes(s, {})
  /\ s \in direct' <=> s \in direct
  /\ QueueStays(s) /\ KeysStay(s) /\ LinkStays(s)

Gets(s, m, kind) ==
  /\ m.kind = kind
  /\ Mail(s)' = Mail(s) \ {m}
  /\ Overtakes(m) => "reordered" \in why'[s]
  /\ LinkStays(s)

GetsOpen(s, m) ==
  /\ Gets(s, m, "open")
  /\ \/ shell'[s].at = "running" /\ shell'[s].owes = "ok" /\ s \in listed'
     \/ shell'[s].at = "over" /\ shell'[s].owes = "error" /\ (s \in listed' <=> s \in listed)
  /\ shell'[s].said = shell[s].said /\ shell'[s].ch = conn
  /\ DoorStays(s) /\ QueueStays(s) /\ KeysStay(s)

GetsReply(s, m) ==
  /\ Gets(s, m, "reply")
  /\ \/ handler[s] # "calling" /\ DoorStays(s)
     \/ /\ handler[s] = "calling" /\ m.n = 1 /\ handler'[s] = "open"
        /\ s \in registered' <=> s \in registered
     \/ /\ handler[s] = "calling" /\ m.n # 1 /\ handler'[s] = "over"
        /\ s \notin registered'
  /\ s \in direct' <=> s \in direct
  /\ QueueStays(s) /\ KeysStay(s) /\ ShellStays(s)

GetsPiece(s, m) ==
  /\ Gets(s, m, "stdout")
  /\ queue'[s] = IF s \in registered THEN Append(queue[s], Item(m)) ELSE queue[s]
  /\ shown'[s] = shown[s]
  /\ DoorStays(s) /\ KeysStay(s) /\ ShellStays(s)

GetsKey(s, m) ==
  /\ Gets(s, m, "stdin")
  /\ got'[s] = IF s \in listed THEN Append(got[s], m.n) ELSE got[s]
  /\ typed'[s] = typed[s]
  /\ DoorStays(s) /\ QueueStays(s) /\ ShellStays(s)

GetsClose(s, m) ==
  /\ Gets(s, m, "close")
  /\ Closes(s)
  /\ DoorStays(s) /\ QueueStays(s) /\ KeysStay(s)

LosesLink(s) ==
  /\ ~up' /\ conn' = conn /\ Mail(s)' = {}
  /\ IF s \notin direct /\ handler[s] # "idle" THEN "broken" \in why'[s] ELSE why'[s] = why[s]
  /\ why[s] \subseteq why'[s]

Breaks(s) == LosesLink(s) /\ DoorStays(s) /\ QueueStays(s) /\ KeysStay(s) /\ ShellStays(s)

Connects(s) ==
  /\ ~up /\ up' /\ why'[s] = why[s]
  /\ DoorStays(s) /\ QueueStays(s) /\ KeysStay(s) /\ ShellStays(s) /\ MailStays(s)

RestartsHere(s) ==
  /\ LosesLink(s)
  /\ handler'[s] = IF s \notin direct /\ handler[s] # "idle" THEN "over" ELSE handler[s]
  /\ s \notin registered'
  /\ s \in direct' <=> s \in direct
  /\ QueueStays(s) /\ KeysStay(s) /\ ShellStays(s)

RestartsThere(s) ==
  /\ LosesLink(s)
  /\ IF shell[s].at = "none" THEN shell'[s] = shell[s]
     ELSE shell'[s].at = "over" /\ shell'[s].owes = "nothing" /\ shell'[s].said = shell[s].said
  /\ s \notin listed'
  /\ handler'[s] = IF s \in direct /\ handler[s] # "idle" THEN "over" ELSE handler[s]
  /\ s \in registered' <=> s \in registered
  /\ s \in direct' <=> s \in direct
  /\ QueueStays(s) /\ KeysStay(s)

\* A session's frames change as the wire does, and no other session's do.
LEMMA MailFacts ==
  ASSUME NEW s, NEW t, NEW frames, \A m \in frames : m.sess = t
  PROVE  /\ wire' = wire \union frames => Mail(s)' = IF s = t THEN Mail(s) \union frames ELSE Mail(s)
         /\ wire' = wire \ frames => Mail(s)' = IF s = t THEN Mail(s) \ frames ELSE Mail(s)
         /\ wire' = wire => MailStays(s)
BY DEF Mail, MailStays

SessionStep(s) ==
  \/ Same(s) \/ Opens(s) \/ OpensDirect(s) \/ GivesUp(s) \/ Says(s) \/ Exits(s) \/ TypesKey(s) \/ Replies(s)
  \/ EndsLoop(s) \/ Shows(s) \/ HangsUp(s)
  \/ \E m \in Mail(s) : GetsOpen(s, m) \/ GetsReply(s, m) \/ GetsPiece(s, m) \/ GetsKey(s, m) \/ GetsClose(s, m)
  \/ Breaks(s) \/ Connects(s) \/ RestartsHere(s) \/ RestartsThere(s)

\* The steps by which a session is opened or given up.
LEMMA OpeningSteps ==
  ASSUME ExecTypes, MoreTypes, NEW s \in Sessions, NEW t \in Sessions
  PROVE  /\ Open(t) => Same(s) \/ Opens(s)
         /\ OpenDirect(t) => Same(s) \/ OpensDirect(s)
         /\ GiveUp(t) => Same(s) \/ GivesUp(s)
         /\ BrowserLeaves(t) => Same(s)
<1> USE DEF ExecTypes, MoreTypes, DoorStays, QueueStays, KeysStay, ShellStays, LinkStays
<1>m. \A kind : \A n \in Nat : Msg(kind, t, n, FALSE).sess = t
  BY DEF Msg
<1>w. wire' = wire => MailStays(s)
  BY DEF Mail, MailStays
<1>1. ASSUME Open(t)
      PROVE  Same(s) \/ Opens(s)
  <2>1. CASE up
    <3>1. wire' = wire \union {Msg("open", t, 0, FALSE)}
      BY <1>1, <2>1 DEF Open, Sends
    <3>f. \A m \in {Msg("open", t, 0, FALSE)} : m.sess = t
      BY <1>m
    <3>2. Mail(s)' = IF s = t THEN Mail(s) \union {Msg("open", t, 0, FALSE)} ELSE Mail(s)
      BY <3>f, <3>1, MailFacts
    <3>3. CASE s = t
      BY <1>1, <2>1, <3>2, <3>3 DEF Open, Opens, pod
    <3>4. CASE s # t
      BY <1>1, <2>1, <3>2, <3>4 DEF Open, Same, MailStays, pod
    <3> QED
      BY <3>3, <3>4
  <2>2. CASE ~up
    <3>1. MailStays(s)
      BY <1>1, <1>w, <2>2 DEF Open, Sends
    <3>2. CASE s = t
      BY <1>1, <2>2, <3>1, <3>2 DEF Open, Opens, pod
    <3>3. CASE s # t
      BY <1>1, <2>2, <3>1, <3>3 DEF Open, Same, pod
    <3> QED
      BY <3>2, <3>3
  <2> QED
    BY <2>1, <2>2
<1>2. ASSUME OpenDirect(t)
      PROVE  Same(s) \/ OpensDirect(s)
  <2>1. MailStays(s)
    BY <1>2, <1>w DEF OpenDirect, channel
  <2>2. PICK ok \in BOOLEAN :
          Starts(t, ok, "nothing") /\ handler' = [handler EXCEPT ![t] = IF ok THEN "open" ELSE "over"]
    BY <1>2 DEF OpenDirect
  <2>3. CASE s = t
    <3>1. /\ shell'[s].said = shell[s].said /\ shell'[s].owes = "nothing"
          /\ shell'[s].at = IF ok THEN "running" ELSE "over"
          /\ listed' = IF ok THEN listed \union {s} ELSE listed
      BY <2>2, <2>3 DEF Starts, Shells
    <3>2. handler'[s] = IF ok THEN "open" ELSE "over"
      BY <2>2, <2>3
    <3> QED
      BY <1>2, <2>1, <2>3, <3>1, <3>2 DEF OpenDirect, OpensDirect, channel
  <2>4. CASE s # t
    <3>1. shell'[s] = shell[s] /\ (s \in listed' <=> s \in listed) /\ handler'[s] = handler[s]
      BY <2>2, <2>4 DEF Starts
    <3> QED
      BY <1>2, <2>1, <2>4, <3>1 DEF OpenDirect, Same, channel
  <2> QED
    BY <2>3, <2>4
<1>3. ASSUME GiveUp(t)
      PROVE  Same(s) \/ GivesUp(s)
  <2>1. MailStays(s)
    BY <1>3, <1>w DEF GiveUp, channel
  <2>2. CASE s = t
    BY <1>3, <2>1, <2>2 DEF GiveUp, GivesUp, pod, channel
  <2>3. CASE s # t
    BY <1>3, <2>1, <2>3 DEF GiveUp, Same, pod, channel
  <2> QED
    BY <2>2, <2>3
<1>4. ASSUME BrowserLeaves(t)
      PROVE  Same(s)
  BY <1>4, <1>w DEF BrowserLeaves, Same, pod, channel
<1> QED
  BY <1>1, <1>2, <1>3, <1>4

\* The steps of its shell.
LEMMA ShellSteps ==
  ASSUME ExecTypes, MoreTypes, NEW s \in Sessions, NEW t \in Sessions
  PROVE  /\ Output(t) => Same(s) \/ Says(s)
         /\ Exit(t) => Same(s) \/ Exits(s)
         /\ Reply(t) => Same(s) \/ Replies(s)
         /\ ReadLoopEnds(t) => Same(s) \/ EndsLoop(s)
<1> USE DEF ExecTypes, MoreTypes, DoorStays, QueueStays, KeysStay, ShellStays, LinkStays
<1>m. \A n, kind, eof : Msg(kind, t, n, eof).sess = t
  BY DEF Msg
<1>w. wire' = wire => MailStays(s)
  BY DEF Mail, MailStays
<1>e. ASSUME NEW n, NEW eof, Emits(t, n, eof)
      PROVE  /\ s = t => IF s \in direct
                         THEN queue'[s] = Append(queue[s], IF eof THEN 0 ELSE n) /\ MailStays(s)
                         ELSE /\ queue'[s] = queue[s]
                              /\ Mail(s)' = IF Live(s) THEN Mail(s) \union {Msg("stdout", s, n, eof)} ELSE Mail(s)
             /\ s # t => queue'[s] = queue[s] /\ MailStays(s)
  <2>1. CASE t \in direct
    BY <1>e, <1>w, <2>1 DEF Emits
  <2>2. CASE t \notin direct /\ Live(t)
    <3>1. wire' = wire \union {Msg("stdout", t, n, eof)} /\ queue' = queue
      BY <1>e, <2>2 DEF Emits
    <3>f. \A m \in {Msg("stdout", t, n, eof)} : m.sess = t
      BY <1>m
    <3>2. Mail(s)' = IF s = t THEN Mail(s) \union {Msg("stdout", t, n, eof)} ELSE Mail(s)
      BY <3>f, <3>1, MailFacts
    <3> QED
      BY <2>2, <3>1, <3>2 DEF MailStays
  <2>3. CASE t \notin direct /\ ~Live(t)
    <3>1. wire' = wire /\ queue' = queue
      BY <1>e, <2>3 DEF Emits
    <3> QED
      BY <1>w, <2>3, <3>1 DEF MailStays
  <2> QED
    BY <2>1, <2>2, <2>3
<1>1. ASSUME Output(t)
      PROVE  Same(s) \/ Says(s)
  <2>1. Emits(t, shell[t].said + 1, FALSE)
    BY <1>1 DEF Output
  <2>2. CASE s = t
    <3>1. /\ shell'[s].said = shell[s].said + 1
          /\ shell'[s].at = shell[s].at /\ shell'[s].owes = shell[s].owes /\ shell'[s].ch = shell[s].ch
      BY <1>1, <2>2 DEF Output, Shells
    <3> QED
      BY <1>1, <1>e, <2>1, <2>2, <3>1 DEF Output, Says
  <2>3. CASE s # t
    BY <1>1, <1>e, <2>1, <2>3 DEF Output, Same
  <2> QED
    BY <2>2, <2>3
<1>2. ASSUME Exit(t)
      PROVE  Same(s) \/ Exits(s)
  <2>1. MailStays(s)
    BY <1>2, <1>w DEF Exit, channel
  <2>2. CASE s = t
    <3>1. /\ shell'[s].at = "ended" /\ shell'[s].said = shell[s].said
          /\ shell'[s].owes = shell[s].owes /\ shell'[s].ch = shell[s].ch
      BY <1>2, <2>2 DEF Exit, Shells
    <3> QED
      BY <1>2, <2>1, <2>2, <3>1 DEF Exit, Exits, browser, channel
  <2>3. CASE s # t
    BY <1>2, <2>1, <2>3 DEF Exit, Same, browser, channel
  <2> QED
    BY <2>2, <2>3
<1>3. ASSUME Reply(t)
      PROVE  Same(s) \/ Replies(s)
  <2> DEFINE answer == Msg("reply", t, IF shell[t].owes = "ok" THEN 1 ELSE 0, FALSE)
  <2>1. wire' = IF Live(t) THEN wire \union {answer} ELSE wire
    BY <1>3 DEF Reply
  <2>2. \A m \in {answer} : m.sess = t
    BY DEF Msg
  <2> HIDE DEF answer
  <2>5. Mail(s)' = IF s = t /\ Live(t) THEN Mail(s) \union {answer} ELSE Mail(s)
    <3>1. CASE Live(t)
      BY <2>1, <2>2, <3>1, MailFacts
    <3>2. CASE ~Live(t)
      BY <1>w, <2>1, <3>2 DEF MailStays
    <3> QED
      BY <3>1, <3>2
  <2>3. CASE s = t
    <3>1. /\ shell'[s].owes = "nothing" /\ shell'[s].at = shell[s].at /\ shell'[s].said = shell[s].said
          /\ shell'[s].ch = shell[s].ch
      BY <1>3, <2>3 DEF Reply, Shells
    <3>2. Mail(s)' = IF Live(s) THEN Mail(s) \union {answer} ELSE Mail(s)
      BY <2>3, <2>5
    <3> QED
      BY <1>3, <2>3, <3>1, <3>2 DEF Reply, Replies, browser, answer
  <2>4. CASE s # t
    <3>1. MailStays(s)
      BY <2>4, <2>5 DEF MailStays
    <3> QED
      BY <1>3, <2>4, <3>1 DEF Reply, Same, browser
  <2> QED
    BY <2>3, <2>4
<1>4. ASSUME ReadLoopEnds(t)
      PROVE  Same(s) \/ EndsLoop(s)
  <2>1. Emits(t, shell[t].said + 1, TRUE)
    BY <1>4 DEF ReadLoopEnds
  <2>2. CASE s = t
    <3>1. /\ shell'[s].at = "over" /\ shell'[s].said = shell[s].said
          /\ shell'[s].owes = shell[s].owes /\ shell'[s].ch = shell[s].ch
      BY <1>4, <2>2 DEF ReadLoopEnds, Shells
    <3> QED
      BY <1>4, <1>e, <2>1, <2>2, <3>1 DEF ReadLoopEnds, EndsLoop
  <2>3. CASE s # t
    BY <1>4, <1>e, <2>1, <2>3 DEF ReadLoopEnds, Same
  <2> QED
    BY <2>2, <2>3
<1> QED
  BY <1>1, <1>2, <1>3, <1>4

\* What the end of a handler does to it.
LEMMA FinishFacts ==
  ASSUME ExecTypes, MoreTypes, NEW s \in Sessions, NEW t \in Sessions,
         NEW frames, \A m \in frames : m.sess = t, Finish(t, frames)
  PROVE  IF s = t THEN Finishes(s, frames)
         ELSE handler'[s] = handler[s] /\ (s \in registered' <=> s \in registered) /\ ShellStays(s) /\ MailStays(s)
<1> USE DEF ExecTypes, MoreTypes
<1>m. Msg("close", t, 0, FALSE).sess = t
  BY DEF Msg
<1>1. handler' = [handler EXCEPT ![t] = "over"] /\ registered' = registered \ {t}
  BY DEF Finish
<1>2. CASE t \in direct
  <2>1. wire' = wire /\ listed' = listed \ {t}
        /\ shell' = [shell EXCEPT ![t].at = IF t \in listed /\ @ = "running" THEN "ended" ELSE @]
    BY <1>2 DEF Finish, Closed
  <2>2. MailStays(s)
    BY <2>1 DEF Mail, MailStays
  <2>3. s = t => Closes(s)
    BY <2>1 DEF Closes, Shells
  <2>4. s # t => ShellStays(s)
    BY <2>1 DEF ShellStays
  <2> QED
    BY <1>1, <1>2, <2>2, <2>3, <2>4 DEF Finishes
<1>3. CASE t \notin direct
  <2> DEFINE sent == frames \union {Msg("close", t, 0, FALSE)}
  <2>1. shell' = shell /\ listed' = listed /\ wire' = IF up THEN wire \union sent ELSE wire
    BY <1>3 DEF Finish
  <2>2. \A m \in sent : m.sess = t
    BY <1>m
  <2>3. Mail(s)' = IF s = t /\ up THEN Mail(s) \union sent ELSE Mail(s)
    <3> HIDE DEF sent
    <3>1. CASE up
      BY <2>1, <2>2, <3>1, MailFacts
    <3>2. CASE ~up
      BY <2>1, <3>2 DEF Mail
    <3> QED
      BY <3>1, <3>2
  <2>4. s # t => MailStays(s)
    BY <2>3 DEF MailStays
  <2> QED
    BY <1>1, <1>3, <2>1, <2>3, <2>4 DEF Finishes, ShellStays
<1> QED
  BY <1>2, <1>3

\* The steps of its terminal.
LEMMA TerminalSteps ==
  ASSUME ExecTypes, MoreTypes, NEW s \in Sessions, NEW t \in Sessions
  PROVE  /\ Type(t) => Same(s) \/ TypesKey(s)
         /\ Show(t) => Same(s) \/ Shows(s)
         /\ HangUp(t) => Same(s) \/ HangsUp(s)
<1> USE DEF ExecTypes, MoreTypes, DoorStays, QueueStays, KeysStay, LinkStays
<1>w. wire' = wire => MailStays(s)
  BY DEF Mail, MailStays
<1>1. ASSUME Type(t)
      PROVE  Same(s) \/ TypesKey(s)
  <2> DEFINE key == Msg("stdin", t, typed[t] + 1, FALSE)
             goes == handler[t] = "open" /\ (IF t \in direct THEN t \in listed ELSE up)
  <2>k. \A m \in {key} : m.sess = t
    BY DEF Msg
  <2>1. /\ handler[t] \in {"open", "stopped"} /\ Items < MaxItems
        /\ typed' = [typed EXCEPT ![t] = @ + 1]
        /\ got' = IF t \in direct /\ t \in listed THEN [got EXCEPT ![t] = Append(@, typed[t] + 1)] ELSE got
        /\ direct' = direct /\ queue' = queue /\ shown' = shown /\ conn' = conn /\ up' = up /\ why' = why
    BY <1>1 DEF Type
  <2>2. IF goes
        THEN /\ wire' = IF t \notin direct THEN wire \union {key} ELSE wire
             /\ UNCHANGED <<handler, registered, shell, listed>>
        ELSE Finish(t, {key})
    BY <1>1 DEF Type
  <2>3. CASE goes
    <3>1. Mail(s)' = IF s = t /\ t \notin direct THEN Mail(s) \union {key} ELSE Mail(s)
      <4> HIDE DEF key
      <4>1. CASE t \notin direct
        BY <2>2, <2>3, <2>k, <4>1, MailFacts
      <4>2. CASE t \in direct
        BY <1>w, <2>2, <2>3, <4>2 DEF MailStays
      <4> QED
        BY <4>1, <4>2
    <3>2. CASE s = t
      BY <2>1, <2>2, <2>3, <3>1, <3>2 DEF TypesKey, ShellStays
    <3>3. CASE s # t
      BY <2>1, <2>2, <2>3, <3>1, <3>3 DEF Same, ShellStays, MailStays
    <3> QED
      BY <3>2, <3>3
  <2>4. CASE ~goes
    <3> HIDE DEF goes
    <3>1. IF s = t THEN Finishes(s, {key})
          ELSE handler'[s] = handler[s] /\ (s \in registered' <=> s \in registered) /\ ShellStays(s) /\ MailStays(s)
      <4> HIDE DEF key
      <4> QED
        BY <2>2, <2>4, <2>k, FinishFacts
    <3>2. CASE s = t
      BY <2>1, <3>1, <3>2 DEF TypesKey
    <3>3. CASE s # t
      BY <2>1, <3>1, <3>3 DEF Same
    <3> QED
      BY <3>2, <3>3
  <2> QED
    BY <2>3, <2>4
<1>2. ASSUME Show(t)
      PROVE  Same(s) \/ Shows(s)
  <2>1. MailStays(s) /\ ShellStays(s)
    BY <1>2, <1>w DEF Show, pod, channel, ShellStays
  <2>2. CASE s = t
    BY <1>2, <2>1, <2>2 DEF Show, Shows, pod, channel
  <2>3. CASE s # t
    BY <1>2, <2>1, <2>3 DEF Show, Same, pod, channel
  <2> QED
    BY <2>2, <2>3
<1>3. ASSUME HangUp(t)
      PROVE  Same(s) \/ HangsUp(s)
  <2>1. Finish(t, {}) /\ \A m \in {} : m.sess = t
    BY <1>3 DEF HangUp
  <2>2. IF s = t THEN Finishes(s, {})
        ELSE handler'[s] = handler[s] /\ (s \in registered' <=> s \in registered) /\ ShellStays(s) /\ MailStays(s)
    BY <2>1, FinishFacts
  <2>3. CASE s = t
    BY <1>3, <2>2, <2>3 DEF HangUp, HangsUp
  <2>4. CASE s # t
    BY <1>3, <2>2, <2>4 DEF HangUp, Same
  <2> QED
    BY <2>3, <2>4
<1> QED
  BY <1>1, <1>2, <1>3

\* The frames of a session are handled for it alone.
LEMMA FrameSteps ==
  ASSUME ExecTypes, MoreTypes, NEW s \in Sessions, NEW m \in wire
  PROVE  /\ HandleOpen(m) => Same(s) \/ (m \in Mail(s) /\ GetsOpen(s, m))
         /\ HandleReply(m) => Same(s) \/ (m \in Mail(s) /\ GetsReply(s, m))
         /\ HandleStdout(m) => Same(s) \/ (m \in Mail(s) /\ GetsPiece(s, m))
         /\ HandleStdin(m) => Same(s) \/ (m \in Mail(s) /\ GetsKey(s, m))
         /\ HandleClose(m) => Same(s) \/ (m \in Mail(s) /\ GetsClose(s, m))
<1> USE DEF ExecTypes, MoreTypes, DoorStays, QueueStays, KeysStay, ShellStays
<1>t. m.sess \in Sessions
  BY DEF Frames
<1>h. ASSUME NEW kind, Handles(m, kind)
      PROVE  /\ s = m.sess => m \in Mail(s) /\ Gets(s, m, kind)
             /\ s # m.sess => MailStays(s) /\ LinkStays(s)
  <2>1. wire' = wire \ {m} /\ m.kind = kind /\ conn' = conn /\ up' = up
    BY <1>h DEF Handles
  <2>2. why' = IF Overtakes(m) THEN [why EXCEPT ![m.sess] = @ \union {"reordered"}] ELSE why
    BY <1>h DEF Handles
  <2>3. \A e \in {m} : e.sess = m.sess
    OBVIOUS
  <2>4. Mail(s)' = IF s = m.sess THEN Mail(s) \ {m} ELSE Mail(s)
    BY <2>1, <2>3, MailFacts
  <2>5. LinkStays(s) /\ (s = m.sess /\ Overtakes(m) => "reordered" \in why'[s])
    BY <1>t, <2>1, <2>2 DEF LinkStays
  <2>6. s = m.sess => m \in Mail(s)
    BY DEF Mail
  <2> QED
    BY <2>1, <2>4, <2>5, <2>6 DEF Gets, MailStays
<1>1. ASSUME HandleOpen(m)
      PROVE  Same(s) \/ (m \in Mail(s) /\ GetsOpen(s, m))
  <2>1. Handles(m, "open")
    BY <1>1 DEF HandleOpen
  <2>2. CASE s = m.sess
    <3>1. \/ shell'[s].at = "running" /\ shell'[s].owes = "ok" /\ s \in listed'
          \/ shell'[s].at = "over" /\ shell'[s].owes = "error" /\ (s \in listed' <=> s \in listed)
      BY <1>1, <2>2 DEF HandleOpen, Starts, Shells
    <3>2. shell'[s].said = shell[s].said /\ shell'[s].ch = conn
      BY <1>1, <2>2 DEF HandleOpen, Starts, Shells
    <3> QED
      BY <1>1, <1>h, <2>1, <2>2, <3>1, <3>2 DEF HandleOpen, GetsOpen, browser
  <2>3. CASE s # m.sess
    <3>1. ShellStays(s)
      BY <1>1, <2>3 DEF HandleOpen, Starts
    <3> QED
      BY <1>1, <1>h, <2>1, <2>3, <3>1 DEF HandleOpen, Same, browser
  <2> QED
    BY <2>2, <2>3
<1>2. ASSUME HandleReply(m)
      PROVE  Same(s) \/ (m \in Mail(s) /\ GetsReply(s, m))
  <2>1. Handles(m, "reply")
    BY <1>2 DEF HandleReply
  <2>2. CASE s = m.sess
    BY <1>2, <1>h, <2>1, <2>2 DEF HandleReply, GetsReply, pod
  <2>3. CASE s # m.sess
    BY <1>2, <1>h, <2>1, <2>3 DEF HandleReply, Same, pod
  <2> QED
    BY <2>2, <2>3
<1>3. ASSUME HandleStdout(m)
      PROVE  Same(s) \/ (m \in Mail(s) /\ GetsPiece(s, m))
  <2>1. Handles(m, "stdout")
    BY <1>3 DEF HandleStdout
  <2>2. CASE s = m.sess
    BY <1>3, <1>h, <2>1, <2>2 DEF HandleStdout, GetsPiece, pod
  <2>3. CASE s # m.sess
    BY <1>3, <1>h, <2>1, <2>3 DEF HandleStdout, Same, pod
  <2> QED
    BY <2>2, <2>3
<1>4. ASSUME HandleStdin(m)
      PROVE  Same(s) \/ (m \in Mail(s) /\ GetsKey(s, m))
  <2>1. Handles(m, "stdin")
    BY <1>4 DEF HandleStdin
  <2>2. CASE s = m.sess
    BY <1>4, <1>h, <2>1, <2>2 DEF HandleStdin, GetsKey, browser
  <2>3. CASE s # m.sess
    BY <1>4, <1>h, <2>1, <2>3 DEF HandleStdin, Same, browser
  <2> QED
    BY <2>2, <2>3
<1>5. ASSUME HandleClose(m)
      PROVE  Same(s) \/ (m \in Mail(s) /\ GetsClose(s, m))
  <2>1. Handles(m, "close")
    BY <1>5 DEF HandleClose
  <2>2. CASE s = m.sess
    <3>1. Closes(s)
      BY <1>5, <2>2 DEF HandleClose, Closed, Closes, Shells
    <3> QED
      BY <1>5, <1>h, <2>1, <2>2, <3>1 DEF HandleClose, GetsClose, browser
  <2>3. CASE s # m.sess
    <3>1. ShellStays(s)
      BY <1>5, <2>3 DEF HandleClose, Closed
    <3> QED
      BY <1>5, <1>h, <2>1, <2>3, <3>1 DEF HandleClose, Same, browser
  <2> QED
    BY <2>2, <2>3
<1> QED
  BY <1>1, <1>2, <1>3, <1>4, <1>5

\* The steps of the connection and of the agents.
LEMMA LinkSteps ==
  ASSUME ExecTypes, MoreTypes, NEW s \in Sessions
  PROVE  /\ Break => Breaks(s)
         /\ Connect => Connects(s)
         /\ RestartHere => RestartsHere(s)
         /\ RestartThere => RestartsThere(s)
<1> USE DEF ExecTypes, MoreTypes, DoorStays, QueueStays, KeysStay, ShellStays
<1>d. Down => LosesLink(s)
  BY DEF Down, LosesLink, Mail
<1>1. Break => Breaks(s)
  BY <1>d DEF Break, Breaks, browser, pod
<1>2. Connect => Connects(s)
  BY DEF Connect, Connects, browser, pod, Mail, MailStays
<1>3. RestartHere => RestartsHere(s)
  BY <1>d DEF RestartHere, RestartsHere, pod
<1>4. ASSUME RestartThere
      PROVE  RestartsThere(s)
  <2>1. IF shell[s].at = "none" THEN shell'[s] = shell[s]
        ELSE shell'[s].at = "over" /\ shell'[s].owes = "nothing" /\ shell'[s].said = shell[s].said
    BY <1>4 DEF RestartThere, Shells
  <2> QED
    BY <1>4, <1>d, <2>1 DEF RestartThere, RestartsThere
<1> QED
  BY <1>1, <1>2, <1>3, <1>4

\* Every step is one of these to a session.
LEMMA SessionSteps ==
  ASSUME ExecTypes, MoreTypes, [Next]_vars, NEW s \in Sessions
  PROVE  SessionStep(s)
<1>1. ASSUME NEW t \in Sessions, \/ Open(t) \/ OpenDirect(t) \/ GiveUp(t) \/ Output(t)
                                 \/ Exit(t) \/ Type(t) \/ BrowserLeaves(t)
                                 \/ Reply(t) \/ ReadLoopEnds(t) \/ Show(t) \/ HangUp(t)
      PROVE  SessionStep(s)
  BY <1>1, OpeningSteps, ShellSteps, TerminalSteps DEF SessionStep
<1>2. ASSUME NEW m \in wire, \/ HandleOpen(m) \/ HandleReply(m) \/ HandleStdout(m)
                             \/ HandleStdin(m) \/ HandleClose(m)
      PROVE  SessionStep(s)
  BY <1>2, FrameSteps DEF SessionStep
<1>3. CASE Break \/ Connect \/ RestartHere \/ RestartThere
  BY <1>3, LinkSteps DEF SessionStep
<1>4. CASE UNCHANGED vars
  <2>1. Same(s)
    BY <1>4 DEF vars, browser, pod, channel, Same, DoorStays, QueueStays, KeysStay, ShellStays, MailStays,
                LinkStays, Mail
  <2> QED
    BY <2>1 DEF SessionStep
<1> QED
  BY <1>1, <1>2, <1>3, <1>4 DEF Next

\* Every step keeps the rest of the types.
LEMMA MoreTypesStep ==
  ASSUME ExecTypes, MoreTypes, [Next]_vars
  PROVE  MoreTypes'
<1> USE DEF ExecTypes, MoreTypes
<1>1. ASSUME NEW s \in Sessions, Open(s) \/ GiveUp(s) \/ BrowserLeaves(s)
      PROVE  MoreTypes'
  <2>1. CASE Open(s)
    BY <2>1 DEF Open, pod
  <2>2. CASE GiveUp(s)
    <3>1. why[s] \union {"gave-up"} \in SUBSET {"gave-up", "broken", "reordered"}
      OBVIOUS
    <3>2. why' \in [Sessions -> SUBSET {"gave-up", "broken", "reordered"}]
      BY <2>2, <3>1 DEF GiveUp
    <3> QED
      BY <2>2, <3>2 DEF GiveUp, pod, channel
  <2>3. CASE BrowserLeaves(s)
    BY <2>3 DEF BrowserLeaves, pod, channel
  <2> QED
    BY <1>1, <2>1, <2>2, <2>3
<1>2. ASSUME NEW s \in Sessions, OpenDirect(s)
      PROVE  MoreTypes'
  BY <1>2 DEF OpenDirect, Starts, channel
<1>3. ASSUME NEW s \in Sessions, Output(s) \/ Exit(s) \/ Reply(s) \/ ReadLoopEnds(s)
      PROVE  MoreTypes'
  BY <1>3 DEF Output, Exit, Reply, ReadLoopEnds, browser, channel
<1>4. ASSUME NEW s \in Sessions, Type(s)
      PROVE  MoreTypes'
  <2>1. typed[s] + 1 \in Nat
    OBVIOUS
  <2>2. Append(got[s], typed[s] + 1) \in Seq(Nat)
    BY <2>1
  <2>3. got' \in [Sessions -> Seq(Nat)]
    BY <1>4, <2>2 DEF Type
  <2>4. registered' \subseteq Sessions /\ listed' \subseteq Sessions
    BY <1>4 DEF Type, Finish, Closed
  <2> QED
    BY <1>4, <2>3, <2>4 DEF Type
<1>5. ASSUME NEW s \in Sessions, Show(s)
      PROVE  MoreTypes'
  <2>1. queue[s] # <<>> => Append(shown[s], Head(queue[s])) \in Seq(Nat)
    OBVIOUS
  <2>2. shown' \in [Sessions -> Seq(Nat)]
    BY <1>5, <2>1 DEF Show
  <2> QED
    BY <1>5, <2>2 DEF Show, pod, channel
<1>6. ASSUME NEW s \in Sessions, HangUp(s)
      PROVE  MoreTypes'
  BY <1>6 DEF HangUp, Finish, Closed
<1>7. ASSUME NEW m \in wire, \/ HandleOpen(m) \/ HandleReply(m) \/ HandleStdout(m)
                             \/ HandleStdin(m) \/ HandleClose(m)
      PROVE  MoreTypes'
  <2>t. m.sess \in Sessions /\ m.n \in Nat
    BY DEF Frames
  <2>1. up' = up /\ direct' = direct /\ gone' = gone /\ shown' = shown /\ registered' \subseteq Sessions
    BY <1>7 DEF HandleOpen, HandleReply, HandleStdout, HandleStdin, HandleClose, Handles, browser
  <2>2. why' \in [Sessions -> SUBSET {"gave-up", "broken", "reordered"}]
    <3>1. why' = IF Overtakes(m) THEN [why EXCEPT ![m.sess] = @ \union {"reordered"}] ELSE why
      BY <1>7 DEF HandleOpen, HandleReply, HandleStdout, HandleStdin, HandleClose, Handles
    <3>2. [why EXCEPT ![m.sess] = @ \union {"reordered"}]
            \in [Sessions -> SUBSET {"gave-up", "broken", "reordered"}]
      <4> DEFINE R == SUBSET {"gave-up", "broken", "reordered"}
                 more == why[m.sess] \union {"reordered"}
      <4>1. why \in [Sessions -> R] /\ more \in R
        BY <2>t
      <4> HIDE DEF R, more
      <4>2. [why EXCEPT ![m.sess] = more] \in [Sessions -> R]
        BY <4>1
      <4> QED
        BY <4>2 DEF R, more
    <3> QED
      BY <3>1, <3>2
  <2>3. listed' \subseteq Sessions
    BY <1>7, <2>t DEF HandleOpen, Starts, HandleReply, HandleStdout, HandleStdin, HandleClose, Closed, pod
  <2>4. got' \in [Sessions -> Seq(Nat)]
    <3>1. Append(got[m.sess], m.n) \in Seq(Nat)
      BY <2>t
    <3> QED
      BY <1>7, <3>1 DEF HandleOpen, HandleReply, HandleStdout, HandleStdin, HandleClose, pod
  <2> QED
    BY <2>1, <2>2, <2>3, <2>4
<1>8. CASE Break \/ Connect \/ RestartHere \/ RestartThere
  <2>1. why' \in [Sessions -> SUBSET {"gave-up", "broken", "reordered"}]
    <3>1. CASE Down
      <4> DEFINE R == SUBSET {"gave-up", "broken", "reordered"}
                 more(s) == why[s] \union {"broken"}
      <4>1. why \in [Sessions -> R] /\ \A s \in Sessions : more(s) \in R
        OBVIOUS
      <4>2. why' = [s \in Sessions |-> IF s \notin direct /\ handler[s] # "idle" THEN more(s) ELSE why[s]]
        BY <3>1 DEF Down
      <4> HIDE DEF R, more
      <4>3. why' \in [Sessions -> R]
        BY <4>1, <4>2
      <4> QED
        BY <4>3 DEF R
    <3>2. CASE Connect
      BY <3>2 DEF Connect
    <3> QED
      BY <1>8, <3>1, <3>2 DEF Break, RestartHere, RestartThere
  <2> QED
    BY <1>8, <2>1 DEF Break, Connect, RestartHere, RestartThere, Down, browser, pod
<1>9. CASE UNCHANGED vars
  BY <1>9 DEF vars, browser, pod, channel
<1> QED
  BY <1>1, <1>2, <1>3, <1>4, <1>5, <1>6, <1>7, <1>8, <1>9 DEF Next

-----------------------------------------------------------------------------
\* A session begins in one order: its handler, the request, the shell, the answer,
\* the keys; a session opened at the cluster of the pod has no frames.
Begins(s) ==
  /\ handler[s] = "idle" => shell[s].at = "none" /\ s \notin direct /\ s \notin registered /\ Mail(s) = {}
  /\ shell[s].at = "none" =>
       /\ shell[s].said = 0 /\ typed[s] = 0 /\ got[s] = <<>> /\ shell[s].owes = "nothing" /\ s \notin listed
       /\ handler[s] \notin {"open", "stopped"}
       /\ \A m \in Mail(s) : m = Msg("open", s, 0, FALSE)
  /\ shell[s].at # "none" => \A m \in Mail(s) : m.kind # "open"
  /\ s \in direct => shell[s].owes = "nothing" /\ handler[s] # "calling" /\ Mail(s) = {}
  /\ handler[s] \in {"calling", "open"} /\ s \notin direct => s \in registered
  /\ shell[s].at = "running" => s \in listed
  /\ s \in listed => shell[s].at \in {"running", "ended"}
  /\ ~up => Mail(s) = {}

\* A call is answered once, with an error only if there is no shell.
AnsweredOnce(s) ==
  /\ \A m \in Mail(s) : m.kind = "reply" => /\ shell[s].owes = "nothing"
                                            /\ m.n # 1 => m.n = 0 /\ shell[s].at = "over"
                                            /\ m = Msg("reply", s, m.n, FALSE)
  /\ \A m, e \in Mail(s) : m.kind = "reply" /\ e.kind = "reply" => m = e
  /\ shell[s].owes = "error" => shell[s].at = "over"

\* Every step keeps the order of the beginning.
LEMMA BeginsStep ==
  ASSUME ExecTypes, MoreTypes, NEW s \in Sessions, Begins(s), AnsweredOnce(s), SessionStep(s)
  PROVE  Begins(s)'
<1>t. shell[s] \in Shells /\ handler[s] \in {"idle", "calling", "open", "stopped", "over"}
  BY DEF ExecTypes
<1> USE DEF Begins, DoorStays, QueueStays, KeysStay, ShellStays, MailStays, LinkStays
<1>1. CASE Same(s)
  BY <1>1 DEF Same
<1>2. CASE Opens(s)
  BY <1>2 DEF Opens, Msg
<1>3. CASE OpensDirect(s)
  BY <1>3 DEF OpensDirect
<1>4. CASE GivesUp(s)
  BY <1>4 DEF GivesUp
<1>5. CASE Says(s)
  BY <1>5 DEF Says, Live, Msg
<1>6. CASE Exits(s)
  BY <1>6 DEF Exits
<1>f. ASSUME NEW frames, Finishes(s, frames), handler[s] \in {"open", "stopped"}, QueueStays(s), LinkStays(s),
             s \in direct' <=> s \in direct, \A m \in frames : m.kind = "stdin"
      PROVE  Begins(s)'
  <2>1. shell[s].at # "none" /\ shell'[s].at # "none" /\ shell'[s].owes = shell[s].owes
    BY <1>f DEF Finishes, Closes
  <2>2. handler'[s] = "over" /\ s \notin registered'
    BY <1>f DEF Finishes
  <2>3. \A m \in Mail(s)' : m.kind # "open"
    BY <1>f, <2>1 DEF Finishes, Msg
  <2>4. (s \in direct => Mail(s)' = {}) /\ (~up => Mail(s)' = {})
    BY <1>f DEF Finishes
  <2>5. (shell'[s].at = "running" => s \in listed') /\ (s \in listed' => shell'[s].at \in {"running", "ended"})
    BY <1>f DEF Finishes, Closes
  <2> QED
    BY <1>f, <2>1, <2>2, <2>3, <2>4, <2>5
<1>7. CASE TypesKey(s)
  <2>1. CASE Finishes(s, {Msg("stdin", s, typed[s] + 1, FALSE)})
    <3>1. \A m \in {Msg("stdin", s, typed[s] + 1, FALSE)} : m.kind = "stdin"
      BY DEF Msg
    <3> QED
      BY <1>7, <1>f, <2>1, <3>1 DEF TypesKey
  <2>2. CASE ~Finishes(s, {Msg("stdin", s, typed[s] + 1, FALSE)})
    BY <1>7, <2>2 DEF TypesKey, Msg
  <2> QED
    BY <2>1, <2>2
<1>8. CASE Replies(s)
  BY <1>8 DEF Replies, Live, Msg
<1>9. CASE EndsLoop(s)
  BY <1>9 DEF EndsLoop, Live, Msg
<1>10. CASE Shows(s)
  BY <1>10 DEF Shows
<1>11. CASE HangsUp(s)
  BY <1>11, <1>f DEF HangsUp
<1>12. ASSUME NEW m \in Mail(s), GetsOpen(s, m)
       PROVE  Begins(s)'
  BY <1>12 DEF GetsOpen, Gets
<1>13. ASSUME NEW m \in Mail(s), GetsReply(s, m)
       PROVE  Begins(s)'
  BY <1>13 DEF GetsReply, Gets, Msg
<1>14. ASSUME NEW m \in Mail(s), GetsPiece(s, m)
       PROVE  Begins(s)'
  BY <1>14 DEF GetsPiece, Gets
<1>15. ASSUME NEW m \in Mail(s), GetsKey(s, m)
       PROVE  Begins(s)'
  BY <1>15 DEF GetsKey, Gets
<1>16. ASSUME NEW m \in Mail(s), GetsClose(s, m)
       PROVE  Begins(s)'
  BY <1>16 DEF GetsClose, Gets, Closes
<1>17. CASE Breaks(s)
  BY <1>17 DEF Breaks, LosesLink
<1>18. CASE Connects(s)
  BY <1>18 DEF Connects
<1>19. CASE RestartsHere(s)
  BY <1>19 DEF RestartsHere, LosesLink
<1>20. CASE RestartsThere(s)
  BY <1>20 DEF RestartsThere, LosesLink
<1> QED
  BY <1>1, <1>2, <1>3, <1>4, <1>5, <1>6, <1>7, <1>8, <1>9, <1>10, <1>11, <1>12, <1>13, <1>14, <1>15,
     <1>16, <1>17, <1>18, <1>19, <1>20 DEF SessionStep

\* And answers no call twice.
LEMMA AnsweredOnceStep ==
  ASSUME ExecTypes, MoreTypes, NEW s \in Sessions, Begins(s), AnsweredOnce(s), SessionStep(s)
  PROVE  AnsweredOnce(s)'
<1>t. shell[s] \in Shells
  BY DEF ExecTypes
<1> USE DEF AnsweredOnce, MailStays, ShellStays
<1>k. ASSUME \A m \in Mail(s)' : m.kind = "reply" => m \in Mail(s),
             shell'[s].owes = shell[s].owes, shell[s].at = "over" => shell'[s].at = "over"
      PROVE  AnsweredOnce(s)'
  BY <1>k
<1>1. CASE Same(s) \/ GivesUp(s) \/ Shows(s) \/ Connects(s)
  BY <1>1 DEF Same, GivesUp, Shows, Connects
<1>2. CASE Opens(s)
  BY <1>2 DEF Opens, Msg
<1>3. CASE OpensDirect(s)
  BY <1>3 DEF OpensDirect, Begins
<1>4. CASE Says(s)
  BY <1>k, <1>4 DEF Says, Msg
<1>5. CASE Exits(s)
  BY <1>5 DEF Exits
<1>f. ASSUME NEW frames, Finishes(s, frames), \A m \in frames : m.kind = "stdin"
      PROVE  AnsweredOnce(s)'
  BY <1>k, <1>f DEF Finishes, Closes, Msg
<1>6. CASE TypesKey(s)
  <2>1. CASE Finishes(s, {Msg("stdin", s, typed[s] + 1, FALSE)})
    BY <1>f, <2>1 DEF Msg
  <2>2. CASE ~Finishes(s, {Msg("stdin", s, typed[s] + 1, FALSE)})
    BY <1>6, <2>2 DEF TypesKey, Msg
  <2> QED
    BY <2>1, <2>2
<1>7. CASE Replies(s)
  <2> DEFINE n == IF shell[s].owes = "ok" THEN 1 ELSE 0
  <2>1. \A m \in Mail(s)' : m \in Mail(s) \/ m = Msg("reply", s, n, FALSE)
    BY <1>7 DEF Replies
  <2>2. \A m \in Mail(s) : m.kind # "reply"
    BY <1>7 DEF Replies
  <2>3. shell'[s].owes = "nothing" /\ shell'[s].at = shell[s].at /\ (n # 1 => n = 0 /\ shell[s].at = "over")
    BY <1>7, <1>t DEF Replies, Shells
  <2>4. Msg("reply", s, n, FALSE).n = n
    BY DEF Msg
  <2> HIDE DEF n
  <2>5. \A m \in Mail(s)' : m.kind = "reply" => m = Msg("reply", s, n, FALSE)
    BY <2>1, <2>2
  <2> QED
    BY <2>3, <2>4, <2>5
<1>8. CASE EndsLoop(s)
  BY <1>k, <1>8 DEF EndsLoop, Msg
<1>9. CASE HangsUp(s)
  BY <1>k, <1>9 DEF HangsUp, Finishes, Closes, Msg
<1>10. ASSUME NEW m \in Mail(s), GetsOpen(s, m)
       PROVE  AnsweredOnce(s)'
  <2>1. shell[s].at = "none"
    BY <1>10 DEF GetsOpen, Gets, Begins
  <2>2. Mail(s)' = {}
    BY <1>10, <2>1 DEF GetsOpen, Gets, Begins
  <2> QED
    BY <1>10, <2>2 DEF GetsOpen
<1>11. ASSUME NEW m \in Mail(s), GetsReply(s, m) \/ GetsPiece(s, m) \/ GetsKey(s, m) \/ GetsClose(s, m)
       PROVE  AnsweredOnce(s)'
  BY <1>11 DEF GetsReply, GetsPiece, GetsKey, GetsClose, Gets, Closes
<1>12. CASE Breaks(s) \/ RestartsHere(s) \/ RestartsThere(s)
  BY <1>12 DEF Breaks, RestartsHere, RestartsThere, LosesLink
<1> QED
  BY <1>1, <1>2, <1>3, <1>4, <1>5, <1>6, <1>7, <1>8, <1>9, <1>10, <1>11, <1>12 DEF SessionStep

-----------------------------------------------------------------------------
Sound(s) == "broken" \notin why[s] /\ "reordered" \notin why[s]

\* What has gone wrong stays so.
LEMMA WhyGrows ==
  ASSUME NEW s, SessionStep(s)
  PROVE  why[s] \subseteq why'[s]
BY DEF SessionStep, Same, Opens, OpensDirect, GivesUp, Says, Exits, TypesKey, Replies, EndsLoop, Shows, HangsUp,
       GetsOpen, GetsReply, GetsPiece, GetsKey, GetsClose, Gets, Breaks, Connects, RestartsHere, RestartsThere,
       LosesLink, LinkStays

\* A relayed session that has begun has the connection it began on.
Linked(s) ==
  "broken" \notin why[s] /\ s \notin direct /\ (shell[s].at # "none" \/ handler[s] \in {"calling", "open", "stopped"})
    => up /\ (shell[s].at # "none" => shell[s].ch = conn)

LEMMA LinkedStep ==
  ASSUME ExecTypes, MoreTypes, NEW s \in Sessions, Begins(s), Linked(s), SessionStep(s)
  PROVE  Linked(s)'
<1> USE DEF Linked, DoorStays, ShellStays, LinkStays
<1>1. CASE Same(s) \/ Opens(s) \/ OpensDirect(s) \/ GivesUp(s) \/ Says(s) \/ Exits(s) \/ Replies(s) \/ EndsLoop(s) \/ Shows(s)
  <2>1. CASE Same(s)
    BY <2>1 DEF Same
  <2>2. CASE Opens(s)
    BY <2>2 DEF Opens, Begins
  <2>3. CASE OpensDirect(s)
    BY <2>3 DEF OpensDirect
  <2>4. CASE GivesUp(s) \/ Says(s) \/ Exits(s) \/ Replies(s) \/ EndsLoop(s) \/ Shows(s)
    BY <2>4 DEF GivesUp, Says, Exits, Replies, EndsLoop, Shows
  <2> QED
    BY <1>1, <2>1, <2>2, <2>3, <2>4
<1>2. CASE TypesKey(s) \/ HangsUp(s)
  BY <1>2 DEF TypesKey, HangsUp, Finishes, Closes
<1>3. ASSUME NEW m \in Mail(s), GetsOpen(s, m)
      PROVE  Linked(s)'
  <2>1. up /\ up' = up /\ conn' = conn /\ shell'[s].ch = conn
    BY <1>3 DEF GetsOpen, Gets, Begins
  <2> QED
    BY <2>1
<1>4. ASSUME NEW m \in Mail(s), GetsReply(s, m) \/ GetsPiece(s, m) \/ GetsKey(s, m) \/ GetsClose(s, m)
      PROVE  Linked(s)'
  BY <1>4 DEF GetsReply, GetsPiece, GetsKey, GetsClose, Gets, Closes
<1>5. CASE Breaks(s) \/ RestartsHere(s) \/ RestartsThere(s)
  BY <1>5 DEF Breaks, RestartsHere, RestartsThere, LosesLink, Begins
<1>6. CASE Connects(s)
  BY <1>6 DEF Connects
<1> QED
  BY <1>1, <1>2, <1>3, <1>4, <1>5, <1>6 DEF SessionStep

-----------------------------------------------------------------------------
(* Numbered items, queued and on their way.                                *)

\* The items of q go on from k, but for the end of the output.
Follows(q, k) == \A i \in 1..Len(q) : q[i] = 0 \/ q[i] = k + i

\* The frames of a kind are the items after h up to k, and the end once it is over.
OnItsWay(kind, s, mail, h, k, over) ==
  /\ \A n \in Nat : h < n /\ n <= k => Msg(kind, s, n, FALSE) \in mail
  /\ \A m \in mail : m.kind = kind =>
       /\ h < m.n /\ m = Msg(kind, s, m.n, m.eof)
       /\ IF m.eof THEN m.n = k + 1 /\ over ELSE m.n <= k

\* The next item, or the end, may be appended.
LEMMA FollowsAppend ==
  ASSUME NEW q \in Seq(Nat), NEW k \in Nat, NEW e \in Nat, Follows(q, k), e = 0 \/ e = k + Len(q) + 1
  PROVE  Follows(Append(q, e), k) /\ Append(q, e) \in Seq(Nat) /\ Len(Append(q, e)) = Len(q) + 1
<1>1. Len(q) \in Nat
  BY LenProperties
<1>2. /\ Append(q, e) \in Seq(Nat) /\ Len(Append(q, e)) = Len(q) + 1
      /\ \A i \in 1..Len(q) : Append(q, e)[i] = q[i]
      /\ Append(q, e)[Len(q) + 1] = e
  BY AppendProperties
<1>3. ASSUME NEW i \in 1..Len(q) + 1
      PROVE  Append(q, e)[i] = 0 \/ Append(q, e)[i] = k + i
  <2>1. CASE i = Len(q) + 1
    BY <1>1, <1>2, <2>1
  <2>2. CASE i # Len(q) + 1
    <3>1. i \in 1..Len(q)
      BY <1>1, <2>2
    <3> QED
      BY <1>2, <3>1 DEF Follows
  <2> QED
    BY <2>1, <2>2
<1> QED
  BY <1>2, <1>3 DEF Follows

\* The head is the next item, and the rest goes on from it.
LEMMA FollowsTail ==
  ASSUME NEW q \in Seq(Nat), NEW k \in Nat, Follows(q, k), q # <<>>, Head(q) # 0
  PROVE  Head(q) = k + 1 /\ Follows(Tail(q), k + 1) /\ Len(Tail(q)) = Len(q) - 1
<1>1. Len(q) \in Nat \ {0}
  BY EmptySeq
<1>2. Head(q) = q[1]
  OBVIOUS
<1>3. Head(q) = k + 1
  <2>1. 1 \in 1..Len(q)
    BY <1>1
  <2> QED
    BY <1>2, <2>1 DEF Follows
<1>4. Len(Tail(q)) = Len(q) - 1 /\ \A i \in 1..Len(Tail(q)) : Tail(q)[i] = q[i + 1]
  BY HeadTailProperties
<1>5. ASSUME NEW i \in 1..Len(Tail(q))
      PROVE  Tail(q)[i] = 0 \/ Tail(q)[i] = (k + 1) + i
  <2>1. i + 1 \in 1..Len(q) /\ k + (i + 1) = (k + 1) + i
    BY <1>1, <1>4
  <2>2. q[i + 1] = 0 \/ q[i + 1] = k + (i + 1)
    BY <2>1 DEF Follows
  <2> QED
    BY <1>4, <2>1, <2>2
<1> QED
  BY <1>3, <1>4, <1>5 DEF Follows

\* So is what has been read of it.
LEMMA NumberedAppend ==
  ASSUME NEW q \in Seq(Nat), Numbered(q)
  PROVE  Numbered(Append(q, Len(q) + 1)) /\ Len(Append(q, Len(q) + 1)) = Len(q) + 1
<1>1. Len(q) \in Nat /\ Len(q) + 1 \in Nat
  BY LenProperties
<1> DEFINE e == Len(q) + 1
<1>2. /\ Len(Append(q, e)) = e
      /\ \A i \in 1..Len(q) : Append(q, e)[i] = q[i]
      /\ Append(q, e)[e] = e
  BY <1>1, AppendProperties
<1>3. ASSUME NEW i \in 1..e
      PROVE  Append(q, e)[i] = i
  <2>1. i = e \/ i \in 1..Len(q)
    BY <1>1
  <2> QED
    BY <1>2, <2>1 DEF Numbered
<1> QED
  BY <1>2, <1>3 DEF Numbered

\* A number up to the next is the next or an earlier one.
LEMMA NextOrEarlier ==
  ASSUME NEW n \in Nat, NEW k \in Nat, n <= k + 1
  PROVE  n = k + 1 \/ n <= k
OBVIOUS

\* The next item goes out.
LEMMA ItemGoes ==
  ASSUME NEW kind, NEW s, NEW mail, mail \subseteq Frames, NEW h \in Nat, NEW k \in Nat, h <= k,
         OnItsWay(kind, s, mail, h, k, FALSE)
  PROVE  OnItsWay(kind, s, mail \union {Msg(kind, s, k + 1, FALSE)}, h, k + 1, FALSE)
<1> DEFINE new == Msg(kind, s, k + 1, FALSE)
<1>1. new.n = k + 1 /\ new.eof = FALSE
  BY DEF Msg
<1>2. ASSUME NEW n \in Nat, h < n, n <= k + 1
      PROVE  Msg(kind, s, n, FALSE) \in mail \union {new}
  <2>1. n = k + 1 \/ n <= k
    BY <1>2, NextOrEarlier
  <2> QED
    BY <1>2, <2>1 DEF OnItsWay
<1> HIDE DEF new
<1>3. ASSUME NEW m \in mail \union {new}, m.kind = kind
      PROVE  /\ h < m.n /\ m = Msg(kind, s, m.n, m.eof)
             /\ IF m.eof THEN m.n = k + 1 + 1 /\ FALSE ELSE m.n <= k + 1
  <2>1. CASE m \in mail
    <3>1. h < m.n /\ m = Msg(kind, s, m.n, m.eof) /\ ~m.eof /\ m.n <= k
      BY <1>3, <2>1 DEF OnItsWay
    <3>2. m.n \in Nat
      BY <2>1 DEF Frames
    <3>3. m.n <= k + 1
      BY <3>1, <3>2
    <3> QED
      BY <3>1, <3>3
  <2>2. CASE m = new
    <3>1. h < k + 1 /\ k + 1 <= k + 1
      OBVIOUS
    <3> QED
      BY <1>1, <2>2, <3>1 DEF new
  <2> QED
    BY <1>3, <2>1, <2>2
<1>4. new = Msg(kind, s, k + 1, FALSE)
  BY DEF new
<1> QED
  BY <1>2, <1>3, <1>4 DEF OnItsWay

\* The end does.
LEMMA EndGoes ==
  ASSUME NEW kind, NEW s, NEW mail, mail \subseteq Frames, NEW h \in Nat, NEW k \in Nat, h <= k,
         OnItsWay(kind, s, mail, h, k, FALSE)
  PROVE  OnItsWay(kind, s, mail \union {Msg(kind, s, k + 1, TRUE)}, h, k, TRUE)
<1> DEFINE new == Msg(kind, s, k + 1, TRUE)
<1>1. new.n = k + 1 /\ new.eof = TRUE
  BY DEF Msg
<1>2. h < k + 1
  OBVIOUS
<1>3. \A n \in Nat : h < n /\ n <= k => Msg(kind, s, n, FALSE) \in mail \union {new}
  BY DEF OnItsWay
<1>4. \A m \in mail : m.kind = kind => h < m.n /\ m = Msg(kind, s, m.n, m.eof) /\ ~m.eof /\ m.n <= k
  BY DEF OnItsWay
<1>5. new = Msg(kind, s, new.n, new.eof)
  BY <1>1
<1> HIDE DEF new
<1>6. \A m \in mail \union {new} : m.kind = kind =>
        /\ h < m.n /\ m = Msg(kind, s, m.n, m.eof)
        /\ IF m.eof THEN m.n = k + 1 /\ TRUE ELSE m.n <= k
  BY <1>1, <1>2, <1>4, <1>5
<1> QED
  BY <1>3, <1>6 DEF OnItsWay, new

\* What arrives without overtaking any is the next item, or the end after the last.
LEMMA ItemComes ==
  ASSUME NEW kind, NEW s, NEW mail, mail \subseteq Frames, NEW h \in Nat, NEW k \in Nat, NEW over \in BOOLEAN,
         OnItsWay(kind, s, mail, h, k, over),
         NEW m \in mail, m.kind = kind, \A e \in mail : e.kind = kind => ~(e.n < m.n)
  PROVE  m.n = h + 1 /\ OnItsWay(kind, s, mail \ {m}, h + 1, k, over)
<1>t. \A e \in mail : e.n \in Nat /\ e.eof \in BOOLEAN
  BY DEF Frames
<1>f. \A n, eof : /\ Msg(kind, s, n, eof).kind = kind /\ Msg(kind, s, n, eof).n = n
                  /\ Msg(kind, s, n, eof).eof = eof
  BY DEF Msg
<1>a. \A n \in Nat : h < n /\ n <= k => Msg(kind, s, n, FALSE) \in mail
  BY DEF OnItsWay
<1>b. \A e \in mail : e.kind = kind => /\ h < e.n /\ e = Msg(kind, s, e.n, e.eof)
                                       /\ IF e.eof THEN e.n = k + 1 /\ over ELSE e.n <= k
  BY DEF OnItsWay
<1>1. m.n \in Nat /\ h < m.n /\ m.n <= k + 1
  <2>1. m.n \in Nat /\ h < m.n /\ (m.n = k + 1 \/ m.n <= k)
    BY <1>t, <1>b
  <2> QED
    BY <2>1
<1>2. m.n = h + 1
  <2> SUFFICES ASSUME m.n # h + 1
               PROVE  FALSE
    OBVIOUS
  <2>1. h + 1 \in Nat /\ h < h + 1 /\ h + 1 <= k /\ h + 1 < m.n
    BY <1>1
  <2>2. PICK e \in mail : e = Msg(kind, s, h + 1, FALSE)
    BY <1>a, <2>1
  <2>3. e.kind = kind /\ e.n = h + 1
    BY <1>f, <2>2
  <2> QED
    BY <2>1, <2>3
<1>3. \A n \in Nat : h + 1 < n /\ n <= k => Msg(kind, s, n, FALSE) \in mail \ {m}
  <2> SUFFICES ASSUME NEW n \in Nat, h + 1 < n, n <= k
               PROVE  Msg(kind, s, n, FALSE) \in mail \ {m}
    OBVIOUS
  <2>1. h < n /\ n # h + 1
    OBVIOUS
  <2>2. PICK e \in mail : e = Msg(kind, s, n, FALSE)
    BY <1>a, <2>1
  <2>3. e.n # m.n
    BY <1>f, <1>2, <2>1, <2>2
  <2> QED
    BY <2>2, <2>3
<1>4. ASSUME NEW e \in mail \ {m}, e.kind = kind
      PROVE  h + 1 < e.n
  <2>1. h < e.n /\ e.n \in Nat /\ e = Msg(kind, s, e.n, e.eof) /\ IF e.eof THEN e.n = k + 1 ELSE e.n <= k
    BY <1>4, <1>b, <1>t
  <2>2. m = Msg(kind, s, m.n, m.eof) /\ IF m.eof THEN m.n = k + 1 ELSE m.n <= k
    BY <1>b
  <2>3. e.n # h + 1
    <3> SUFFICES ASSUME e.n = h + 1
                 PROVE  FALSE
      OBVIOUS
    <3>1. e.n = m.n
      BY <1>2
    <3>2. e.eof # m.eof
      BY <2>1, <2>2, <3>1
    <3>3. ~(m.n = k + 1 /\ m.n <= k)
      BY <1>1
    <3> QED
      BY <1>t, <2>1, <2>2, <3>1, <3>2, <3>3
  <2> QED
    BY <2>1, <2>3
<1> QED
  BY <1>b, <1>2, <1>3, <1>4 DEF OnItsWay

-----------------------------------------------------------------------------
(* The output.                                                             *)

Heard(s) == Len(shown[s]) + Len(queue[s])

\* What is queued goes on from what is shown, and what is on its way from there.
InOrder(s) ==
  /\ Follows(queue[s], Len(shown[s]))
  /\ shell[s].at # "over" => Heard(s) <= shell[s].said
  /\ shell[s].at # "over" /\ s \in direct => Heard(s) = shell[s].said
  /\ s \notin direct => OnItsWay("stdout", s, Mail(s), Heard(s), shell[s].said, shell[s].at = "over")

OutputFlows(s) ==
  Sound(s) => Numbered(shown[s]) /\ (handler[s] \in {"idle", "calling", "open"} => InOrder(s))

\* What is added to one is added to the sum.
LEMMA Sums ==
  ASSUME NEW a \in Nat, NEW b \in Nat
  PROVE  /\ a + b \in Nat /\ a + (b + 1) = (a + b) + 1
         /\ (a + 1) + (b - 1) = a + b
         /\ \A n \in Nat : a <= n => a <= n + 1
OBVIOUS

\* What the lengths are.
LEMMA OutputTypes ==
  ASSUME ExecTypes, MoreTypes, NEW s \in Sessions
  PROVE  /\ queue[s] \in Seq(Nat) /\ shown[s] \in Seq(Nat) /\ got[s] \in Seq(Nat)
         /\ Len(queue[s]) \in Nat /\ Len(shown[s]) \in Nat /\ Len(got[s]) \in Nat /\ Heard(s) \in Nat
         /\ shell[s].said \in Nat /\ typed[s] \in Nat
         /\ Mail(s) \subseteq Frames
<1>1. queue[s] \in Seq(Nat) /\ shown[s] \in Seq(Nat) /\ got[s] \in Seq(Nat)
  BY DEF ExecTypes, MoreTypes
<1>2. Len(queue[s]) \in Nat /\ Len(shown[s]) \in Nat /\ Len(got[s]) \in Nat
  BY <1>1, LenProperties
<1>3. shell[s].said \in Nat /\ typed[s] \in Nat
  BY DEF ExecTypes, Shells
<1>4. Mail(s) \subseteq Frames
  BY DEF ExecTypes, Mail
<1>5. Heard(s) \in Nat
  BY <1>2, Sums DEF Heard
<1> QED
  BY <1>1, <1>2, <1>3, <1>4, <1>5

\* The frames of a kind are what matters.
LEMMA OtherFrames ==
  ASSUME NEW kind, NEW s, NEW mail, NEW after, NEW h, NEW k, NEW over \in BOOLEAN, NEW overAfter \in BOOLEAN,
         OnItsWay(kind, s, mail, h, k, over), over => overAfter,
         \A m : m.kind = kind => (m \in after <=> m \in mail)
  PROVE  OnItsWay(kind, s, after, h, k, overAfter)
<1>1. \A n, eof : Msg(kind, s, n, eof).kind = kind
  BY DEF Msg
<1>2. \A n \in Nat : h < n /\ n <= k => Msg(kind, s, n, FALSE) \in after
  BY <1>1 DEF OnItsWay
<1>3. \A m \in after : m.kind = kind =>
        /\ h < m.n /\ m = Msg(kind, s, m.n, m.eof)
        /\ IF m.eof THEN m.n = k + 1 /\ overAfter ELSE m.n <= k
  BY DEF OnItsWay
<1> QED
  BY <1>2, <1>3 DEF OnItsWay

\* Steps that leave the output alone.
LEMMA InOrderStays ==
  ASSUME NEW s \in Sessions, InOrder(s), QueueStays(s), shell'[s].said = shell[s].said,
         s \in direct' <=> s \in direct,
         shell[s].at = "over" => shell'[s].at = "over",
         s \notin direct => \A m : m.kind = "stdout" => (m \in Mail(s)' <=> m \in Mail(s))
  PROVE  InOrder(s)'
<1>1. Heard(s)' = Heard(s)
  BY DEF Heard, QueueStays
<1>2. s \notin direct => OnItsWay("stdout", s, Mail(s)', Heard(s), shell[s].said, shell'[s].at = "over")
  BY OtherFrames DEF InOrder
<1> QED
  BY <1>1, <1>2 DEF InOrder, QueueStays

\* A piece goes out, and is queued or on its way.
LEMMA SaysInOrder ==
  ASSUME ExecTypes, MoreTypes, NEW s \in Sessions, Linked(s), InOrder(s), Sound(s), Says(s)
  PROVE  InOrder(s)'
<1> DEFINE n == shell[s].said
<1>t. queue[s] \in Seq(Nat)
  BY OutputTypes
<1>n. Len(queue[s]) \in Nat /\ Len(shown[s]) \in Nat /\ Heard(s) \in Nat /\ n \in Nat
  BY OutputTypes
<1>m. Mail(s) \subseteq Frames
  BY OutputTypes
<1>0. /\ shell[s].at = "running" /\ shell'[s].at = "running" /\ shell'[s].said = n + 1 /\ shown'[s] = shown[s]
      /\ s \in direct' <=> s \in direct
  BY DEF Says, DoorStays
<1>l. Heard(s) <= n /\ n + 1 \in Nat
  BY <1>0, <1>n DEF InOrder
<1>s. shown'[s] = shown[s]
  BY <1>0
<1>1. CASE s \in direct
  <2>1. queue'[s] = Append(queue[s], n + 1)
    BY <1>1 DEF Says
  <2>2. Len(shown[s]) + Len(queue[s]) = n
    BY <1>0, <1>1 DEF InOrder, Heard
  <2> HIDE DEF n
  <2>3. Follows(queue'[s], Len(shown[s])) /\ Len(queue'[s]) = Len(queue[s]) + 1
    <3>1. Follows(queue[s], Len(shown[s]))
      BY DEF InOrder
    <3>2. n + 1 = Len(shown[s]) + Len(queue[s]) + 1
      BY <2>2
    <3> QED
      BY <1>t, <1>n, <1>l, <2>1, <3>1, <3>2, FollowsAppend
  <2>4. Len(shown[s]) + (Len(queue[s]) + 1) = n + 1
    BY <1>n, <2>2, Sums
  <2>5. Heard(s)' = n + 1 /\ n + 1 <= n + 1
    <3>1. Heard(s)' = Len(shown[s]) + (Len(queue[s]) + 1)
      BY <1>s, <2>3 DEF Heard
    <3>2. n + 1 <= n + 1
      BY <1>l
    <3> QED
      BY <2>4, <3>1, <3>2
  <2> QED
    BY <1>0, <1>1, <2>3, <2>5 DEF InOrder
<1>2. CASE s \notin direct
  <2>1. Live(s)
    BY <1>0, <1>2 DEF Linked, Sound, Live
  <2>2. queue'[s] = queue[s] /\ Mail(s)' = Mail(s) \union {Msg("stdout", s, n + 1, FALSE)}
    BY <1>2, <2>1 DEF Says
  <2>3. Heard(s)' = Heard(s)
    BY <1>0, <2>2 DEF Heard
  <2>4. OnItsWay("stdout", s, Mail(s), Heard(s), n, FALSE)
    BY <1>0, <1>2 DEF InOrder
  <2> HIDE DEF n
  <2>5. OnItsWay("stdout", s, Mail(s)', Heard(s), n + 1, FALSE)
    <3>1. OnItsWay("stdout", s, Mail(s) \union {Msg("stdout", s, n + 1, FALSE)}, Heard(s), n + 1, FALSE)
      BY <1>m, <1>n, <1>l, <2>4, ItemGoes
    <3> QED
      BY <2>2, <3>1
  <2>6. Heard(s) <= n + 1
    BY <1>n, <1>l, Sums
  <2>7. (shell'[s].at = "over") = FALSE
    BY <1>0
  <2> QED
    BY <1>0, <1>2, <2>2, <2>3, <2>5, <2>6, <2>7 DEF InOrder
<1> QED
  BY <1>1, <1>2

\* The end goes out likewise.
LEMMA EndsInOrder ==
  ASSUME ExecTypes, MoreTypes, NEW s \in Sessions, Linked(s), InOrder(s), Sound(s), EndsLoop(s)
  PROVE  InOrder(s)'
<1> DEFINE n == shell[s].said
<1>t. queue[s] \in Seq(Nat)
  BY OutputTypes
<1>n. Len(queue[s]) \in Nat /\ Len(shown[s]) \in Nat /\ Heard(s) \in Nat /\ n \in Nat
  BY OutputTypes
<1>m. Mail(s) \subseteq Frames
  BY OutputTypes
<1>0. /\ shell[s].at = "ended" /\ shell'[s].at = "over" /\ shell'[s].said = n /\ shown'[s] = shown[s]
      /\ s \in direct' <=> s \in direct
  BY DEF EndsLoop, DoorStays
<1>s. shown'[s] = shown[s]
  BY <1>0
<1>1. CASE s \in direct
  <2>1. queue'[s] = Append(queue[s], 0)
    BY <1>1 DEF EndsLoop
  <2>2. Follows(queue'[s], Len(shown[s]))
    <3>1. Follows(queue[s], Len(shown[s])) /\ 0 \in Nat
      BY DEF InOrder
    <3> QED
      BY <1>t, <1>n, <2>1, <3>1, FollowsAppend
  <2> QED
    BY <1>0, <1>1, <2>2 DEF InOrder
<1>2. CASE s \notin direct
  <2>1. Live(s)
    BY <1>0, <1>2 DEF Linked, Sound, Live
  <2>2. queue'[s] = queue[s] /\ Mail(s)' = Mail(s) \union {Msg("stdout", s, n + 1, TRUE)}
    BY <1>2, <2>1 DEF EndsLoop
  <2>3. Heard(s)' = Heard(s) /\ Heard(s) <= n
    BY <1>0, <2>2 DEF Heard, InOrder
  <2>4. OnItsWay("stdout", s, Mail(s), Heard(s), n, FALSE)
    BY <1>0, <1>2 DEF InOrder
  <2> HIDE DEF n
  <2>5. OnItsWay("stdout", s, Mail(s)', Heard(s), n, TRUE)
    <3>1. OnItsWay("stdout", s, Mail(s) \union {Msg("stdout", s, n + 1, TRUE)}, Heard(s), n, TRUE)
      BY <1>m, <1>n, <2>3, <2>4, EndGoes
    <3> QED
      BY <2>2, <3>1
  <2>7. (shell'[s].at = "over") = TRUE
    BY <1>0
  <2> QED
    BY <1>0, <1>2, <2>2, <2>3, <2>5, <2>7 DEF InOrder
<1> QED
  BY <1>1, <1>2

\* The browser is shown the next piece.
LEMMA ShowsInOrder ==
  ASSUME ExecTypes, MoreTypes, NEW s \in Sessions, InOrder(s), Numbered(shown[s]), Shows(s),
         handler'[s] = "open"
  PROVE  InOrder(s)' /\ Numbered(shown'[s])
<1>t. queue[s] \in Seq(Nat) /\ shown[s] \in Seq(Nat)
  BY OutputTypes
<1>n. Len(queue[s]) \in Nat /\ Len(shown[s]) \in Nat
  BY OutputTypes
<1>0. /\ queue[s] # <<>> /\ queue'[s] = Tail(queue[s]) /\ Head(queue[s]) # 0
      /\ shown'[s] = Append(shown[s], Head(queue[s]))
      /\ shell'[s] = shell[s] /\ Mail(s)' = Mail(s)
      /\ s \in direct' <=> s \in direct
  BY DEF Shows, ShellStays, MailStays
<1>1. Follows(queue[s], Len(shown[s]))
  BY DEF InOrder
<1>2. /\ Head(queue[s]) = Len(shown[s]) + 1
      /\ Follows(queue'[s], Len(shown[s]) + 1) /\ Len(queue'[s]) = Len(queue[s]) - 1
  BY <1>t, <1>n, <1>0, <1>1, FollowsTail
<1>3. Numbered(shown'[s]) /\ Len(shown'[s]) = Len(shown[s]) + 1
  BY <1>t, <1>0, <1>2, NumberedAppend
<1>4. (Len(shown[s]) + 1) + (Len(queue[s]) - 1) = Len(shown[s]) + Len(queue[s])
  BY <1>n, Sums
<1>5. Heard(s)' = Heard(s)
  <2>1. Len(queue'[s]) = Len(queue[s]) - 1 /\ Len(shown'[s]) = Len(shown[s]) + 1
    BY <1>2, <1>3
  <2> QED
    BY <1>4, <2>1 DEF Heard
<1>6. Follows(queue'[s], Len(shown'[s]))
  BY <1>2, <1>3
<1>7. Mail(s)' = Mail(s) /\ shell'[s].said = shell[s].said /\ shell'[s].at = shell[s].at
  BY <1>0
<1>8. s \in direct' <=> s \in direct
  BY <1>0
<1> QED
  BY <1>3, <1>5, <1>6, <1>7, <1>8 DEF InOrder

\* The handler is given the next piece, or the end after the last.
LEMMA PieceInOrder ==
  ASSUME ExecTypes, MoreTypes, NEW s \in Sessions, Begins(s), InOrder(s), Sound(s)',
         handler[s] \in {"idle", "calling", "open"}, NEW m \in Mail(s), GetsPiece(s, m)
  PROVE  InOrder(s)'
<1> DEFINE n == shell[s].said
           over == shell[s].at = "over"
<1>t. queue[s] \in Seq(Nat)
  BY OutputTypes
<1>n. Len(queue[s]) \in Nat /\ Len(shown[s]) \in Nat /\ Heard(s) \in Nat /\ n \in Nat
  BY OutputTypes
<1>m. Mail(s) \subseteq Frames
  BY OutputTypes
<1>0. /\ shell'[s] = shell[s] /\ shown'[s] = shown[s] /\ s \notin direct /\ s \notin direct'
      /\ s \in registered /\ Mail(s)' = Mail(s) \ {m} /\ m.kind = "stdout"
  BY DEF GetsPiece, Gets, Begins, DoorStays, ShellStays
<1>s. shown'[s] = shown[s]
  BY <1>0
<1>1. queue'[s] = Append(queue[s], Item(m))
  BY <1>0 DEF GetsPiece
<1>2. \A e \in Mail(s) : e.kind = "stdout" => ~(e.n < m.n)
  BY <1>0 DEF GetsPiece, Gets, Overtakes, Mail, Sound
<1>3. over \in BOOLEAN /\ OnItsWay("stdout", s, Mail(s), Heard(s), n, over)
  BY <1>0 DEF InOrder
<1>4. IF m.eof THEN over ELSE m.n <= n
  BY <1>0, <1>3 DEF OnItsWay
<1> HIDE DEF n, over
<1>5. m.n = Heard(s) + 1 /\ OnItsWay("stdout", s, Mail(s)', Heard(s) + 1, n, over)
  BY <1>m, <1>n, <1>0, <1>2, <1>3, ItemComes
<1>6. Item(m) \in Nat /\ (Item(m) = 0 \/ Item(m) = Len(shown[s]) + Len(queue[s]) + 1)
  <2>1. m.n \in Nat /\ 0 \in Nat /\ m.n = Len(shown[s]) + Len(queue[s]) + 1
    BY <1>n, <1>5, Sums DEF Heard
  <2> QED
    BY <2>1 DEF Item
<1>7. Follows(queue'[s], Len(shown[s])) /\ Len(queue'[s]) = Len(queue[s]) + 1
  <2>1. Follows(queue[s], Len(shown[s]))
    BY DEF InOrder
  <2> DEFINE e == Item(m)
  <2>2. e \in Nat /\ (e = 0 \/ e = Len(shown[s]) + Len(queue[s]) + 1)
    BY <1>6
  <2> HIDE DEF e
  <2>3. Follows(Append(queue[s], e), Len(shown[s])) /\ Len(Append(queue[s], e)) = Len(queue[s]) + 1
    BY <1>n, <1>t, <2>1, <2>2, FollowsAppend
  <2> QED
    BY <1>1, <2>3 DEF e
<1>8. Len(shown[s]) + (Len(queue[s]) + 1) = (Len(shown[s]) + Len(queue[s])) + 1
  BY <1>n, Sums
<1>9. Heard(s)' = Heard(s) + 1
  BY <1>s, <1>7, <1>8 DEF Heard
<1>10. ~over => Heard(s) + 1 <= n
  BY <1>4, <1>5
<1> QED
  BY <1>0, <1>5, <1>7, <1>9, <1>10 DEF InOrder, n, over

\* No step lets the output get out of order.
LEMMA OutputFlowsStep ==
  ASSUME ExecTypes, MoreTypes, NEW s \in Sessions, Begins(s), Linked(s), OutputFlows(s), SessionStep(s)
  PROVE  OutputFlows(s)'
<1> SUFFICES ASSUME Sound(s)'
             PROVE  Numbered(shown'[s]) /\ (handler'[s] \in {"idle", "calling", "open"} => InOrder(s)')
  BY DEF OutputFlows
<1>2. Sound(s)
  BY WhyGrows DEF Sound
<1>3. Numbered(shown[s]) /\ (handler[s] \in {"idle", "calling", "open"} => InOrder(s))
  BY <1>2 DEF OutputFlows
<1> DEFINE Goal == Numbered(shown'[s]) /\ (handler'[s] \in {"idle", "calling", "open"} => InOrder(s)')
<1>k. ASSUME QueueStays(s),
             handler'[s] \in {"idle", "calling", "open"} => handler[s] \in {"idle", "calling", "open"},
             shell'[s].said = shell[s].said, s \in direct' <=> s \in direct,
             shell[s].at = "over" => shell'[s].at = "over",
             \A m : m.kind = "stdout" => (m \in Mail(s)' <=> m \in Mail(s))
      PROVE  Goal
  BY <1>k, <1>3, InOrderStays DEF QueueStays
<1> USE DEF DoorStays, ShellStays, MailStays
<1>4. CASE Same(s) \/ GivesUp(s) \/ Connects(s)
  BY <1>k, <1>4 DEF Same, GivesUp, Connects
<1>5. CASE Opens(s)
  <2>1. \A m : m.kind = "stdout" => (m \in Mail(s)' <=> m \in Mail(s))
    BY <1>5 DEF Opens, Msg
  <2> QED
    BY <1>k, <1>5, <2>1 DEF Opens
<1>6. CASE OpensDirect(s)
  <2>1. InOrder(s) /\ shell[s].at = "none" /\ shell[s].said = 0
    BY <1>3, <1>6 DEF OpensDirect, Begins
  <2>2. Heard(s) \in Nat /\ Heard(s) <= 0
    BY <2>1, OutputTypes DEF InOrder
  <2>3. Heard(s) = 0 /\ 0 <= 0
    BY <2>2
  <2>4. shown'[s] = shown[s] /\ queue'[s] = queue[s] /\ s \in direct' /\ shell'[s].said = 0
    BY <1>6, <2>1 DEF OpensDirect, QueueStays
  <2>5. Heard(s)' = 0
    BY <2>3, <2>4 DEF Heard
  <2> QED
    BY <1>3, <2>1, <2>3, <2>4, <2>5 DEF InOrder
<1>7. CASE Says(s)
  BY <1>2, <1>3, <1>7, SaysInOrder DEF Says
<1>8. CASE Exits(s)
  BY <1>k, <1>8 DEF Exits
<1>f. ASSUME NEW frames, Finishes(s, frames), QueueStays(s)
      PROVE  Goal
  BY <1>3, <1>f DEF Finishes, QueueStays
<1>9. CASE TypesKey(s)
  <2>1. CASE Finishes(s, {Msg("stdin", s, typed[s] + 1, FALSE)})
    BY <1>f, <1>9, <2>1 DEF TypesKey
  <2>2. CASE ~Finishes(s, {Msg("stdin", s, typed[s] + 1, FALSE)})
    <3>1. \A m : m.kind = "stdout" => (m \in Mail(s)' <=> m \in Mail(s))
      BY <1>9, <2>2 DEF TypesKey, Msg
    <3> QED
      BY <1>k, <1>9, <2>2, <3>1 DEF TypesKey
  <2> QED
    BY <2>1, <2>2
<1>10. CASE Replies(s)
  <2>1. \A m : m.kind = "stdout" => (m \in Mail(s)' <=> m \in Mail(s))
    BY <1>10 DEF Replies, Msg
  <2> QED
    BY <1>k, <1>10, <2>1 DEF Replies
<1>11. CASE EndsLoop(s)
  BY <1>2, <1>3, <1>11, EndsInOrder DEF EndsLoop
<1>12. CASE Shows(s)
  BY <1>3, <1>12, ShowsInOrder DEF Shows
<1>13. CASE HangsUp(s)
  BY <1>f, <1>13 DEF HangsUp
<1>14. ASSUME NEW m \in Mail(s), GetsOpen(s, m)
       PROVE  Goal
  <2>1. shell[s].at = "none"
    BY <1>14 DEF GetsOpen, Gets, Begins
  <2> QED
    BY <1>k, <1>14, <2>1 DEF GetsOpen, Gets
<1>15. ASSUME NEW m \in Mail(s), GetsReply(s, m) \/ GetsKey(s, m)
       PROVE  Goal
  <2>1. handler'[s] \in {"idle", "calling", "open"} => handler[s] \in {"idle", "calling", "open"}
    BY <1>15 DEF GetsReply, GetsKey
  <2> QED
    BY <1>k, <1>15, <2>1 DEF GetsReply, GetsKey, Gets
<1>16. ASSUME NEW m \in Mail(s), GetsPiece(s, m)
       PROVE  Goal
  BY <1>3, <1>16, PieceInOrder DEF GetsPiece
<1>17. ASSUME NEW m \in Mail(s), GetsClose(s, m)
       PROVE  Goal
  BY <1>k, <1>17 DEF GetsClose, Gets, Closes
<1>18. CASE Breaks(s) \/ RestartsHere(s) \/ RestartsThere(s)
  <2>1. s \in direct \/ handler[s] = "idle"
    BY <1>18 DEF Breaks, RestartsHere, RestartsThere, LosesLink, Sound
  <2>2. QueueStays(s) /\ (s \in direct' <=> s \in direct) /\ shell'[s].said = shell[s].said
    BY <1>18 DEF Breaks, RestartsHere, RestartsThere
  <2>3. CASE s \in direct
    <3>1. shell[s].at = "over" => shell'[s].at = "over"
      BY <1>18 DEF Breaks, RestartsHere, RestartsThere
    <3>2. handler'[s] \in {"idle", "calling", "open"} => handler[s] \in {"idle", "calling", "open"}
      BY <1>18 DEF Breaks, RestartsHere, RestartsThere
    <3> QED
      BY <1>3, <2>2, <2>3, <3>1, <3>2, InOrderStays DEF QueueStays
  <2>4. CASE handler[s] = "idle"
    <3>1. Mail(s) = {} /\ Mail(s)' = {} /\ shell[s].at = "none"
      BY <1>18, <2>4 DEF Breaks, RestartsHere, RestartsThere, LosesLink, Begins
    <3> QED
      BY <1>k, <2>2, <2>4, <3>1
  <2> QED
    BY <2>1, <2>3, <2>4
<1> QED
  BY <1>4, <1>5, <1>6, <1>7, <1>8, <1>9, <1>10, <1>11, <1>12, <1>13, <1>14, <1>15,
     <1>16, <1>17, <1>18 DEF SessionStep

-----------------------------------------------------------------------------
(* The keys.                                                               *)

\* The keys that the shell has not read are on their way to it.
KeysFlow(s) ==
  /\ s \in direct /\ handler[s] \in {"open", "stopped"} => Len(got[s]) = typed[s]
  /\ s \notin direct /\ s \in listed =>
       Len(got[s]) <= typed[s] /\ OnItsWay("stdin", s, Mail(s), Len(got[s]), typed[s], FALSE)

KeysArrive(s) == Sound(s) => Numbered(got[s]) /\ KeysFlow(s)

\* Steps that leave the keys alone.
LEMMA KeysFlowStays ==
  ASSUME NEW s \in Sessions, KeysFlow(s), KeysStay(s),
         s \in direct' <=> s \in direct,
         handler'[s] \in {"open", "stopped"} => handler[s] \in {"open", "stopped"} \/ s \notin direct,
         s \in listed' => s \in listed,
         s \notin direct => \A m : m.kind = "stdin" => (m \in Mail(s)' <=> m \in Mail(s))
  PROVE  KeysFlow(s)'
<1>1. s \notin direct /\ s \in listed =>
        Len(got[s]) <= typed[s] /\ OnItsWay("stdin", s, Mail(s)', Len(got[s]), typed[s], FALSE)
  BY OtherFrames DEF KeysFlow
<1> QED
  BY <1>1 DEF KeysFlow, KeysStay

\* A key is typed: a shell of this cluster reads it, and it is on its way to another.
LEMMA TypesInOrder ==
  ASSUME ExecTypes, MoreTypes, NEW s \in Sessions, Linked(s), Begins(s), KeysFlow(s), Numbered(got[s]), Sound(s),
         TypesKey(s)
  PROVE  Numbered(got'[s]) /\ KeysFlow(s)'
<1> DEFINE n == typed[s]
           key == Msg("stdin", s, n + 1, FALSE)
<1>t. got[s] \in Seq(Nat)
  BY OutputTypes
<1>n. Len(got[s]) \in Nat /\ n \in Nat
  BY OutputTypes
<1>m. Mail(s) \subseteq Frames
  BY OutputTypes
<1>0. /\ handler[s] \in {"open", "stopped"} /\ typed'[s] = n + 1
      /\ s \in direct' <=> s \in direct
  BY DEF TypesKey
<1>1. CASE s \in direct
  <2>1. Len(got[s]) = n
    BY <1>0, <1>1 DEF KeysFlow
  <2>2. CASE s \in listed
    <3>1. got'[s] = Append(got[s], Len(got[s]) + 1)
      BY <1>1, <2>1, <2>2 DEF TypesKey
    <3>2. Numbered(got'[s]) /\ Len(got'[s]) = Len(got[s]) + 1
      BY <1>t, <3>1, NumberedAppend
    <3> QED
      BY <1>0, <1>1, <2>1, <3>2 DEF KeysFlow
  <2>3. CASE s \notin listed
    <3>1. handler'[s] = "over" /\ got'[s] = got[s]
      BY <1>1, <2>3 DEF TypesKey, Finishes
    <3> QED
      BY <1>0, <1>1, <3>1 DEF KeysFlow
  <2> QED
    BY <2>2, <2>3
<1>2. CASE s \notin direct
  <2>1. got'[s] = got[s] /\ up
    BY <1>0, <1>2 DEF TypesKey, Linked, Sound
  <2>2. s \in listed' => s \in listed
    BY <1>2 DEF TypesKey, Finishes, ShellStays
  <2>3. \A m : m.kind = "stdin" => (m \in Mail(s)' <=> m \in Mail(s) \union {key})
    BY <1>2, <2>1 DEF TypesKey, Finishes, Msg
  <2> HIDE DEF n
  <2>4. ASSUME s \in listed
        PROVE  Len(got[s]) <= n + 1 /\ OnItsWay("stdin", s, Mail(s)', Len(got[s]), n + 1, FALSE)
    <3>1. OnItsWay("stdin", s, Mail(s), Len(got[s]), n, FALSE) /\ Len(got[s]) <= n
      BY <1>2, <2>4 DEF KeysFlow, n
    <3>2. Len(got[s]) <= n + 1
      BY <1>n, <3>1, Sums
    <3>3. OnItsWay("stdin", s, Mail(s) \union {key}, Len(got[s]), n + 1, FALSE)
      BY <1>m, <1>n, <3>1, ItemGoes
    <3> HIDE DEF key
    <3> QED
      BY <2>3, <3>2, <3>3, OtherFrames
  <2> QED
    BY <1>0, <1>2, <2>1, <2>2, <2>4 DEF KeysFlow
<1> QED
  BY <1>1, <1>2

\* The shell is given the next key.
LEMMA KeyInOrder ==
  ASSUME ExecTypes, MoreTypes, NEW s \in Sessions, Begins(s), KeysFlow(s), Numbered(got[s]), Sound(s)',
         NEW m \in Mail(s), GetsKey(s, m)
  PROVE  Numbered(got'[s]) /\ KeysFlow(s)'
<1>t. got[s] \in Seq(Nat)
  BY OutputTypes
<1>n. Len(got[s]) \in Nat /\ typed[s] \in Nat
  BY OutputTypes
<1>m. Mail(s) \subseteq Frames
  BY OutputTypes
<1>0. /\ s \notin direct /\ s \notin direct' /\ m.kind = "stdin" /\ Mail(s)' = Mail(s) \ {m} /\ typed'[s] = typed[s]
      /\ s \in listed' <=> s \in listed
  BY DEF GetsKey, Gets, Begins, DoorStays, ShellStays
<1>1. CASE s \in listed
  <2>1. got'[s] = Append(got[s], m.n)
    BY <1>1 DEF GetsKey
  <2>2. \A e \in Mail(s) : e.kind = "stdin" => ~(e.n < m.n)
    BY <1>0 DEF GetsKey, Gets, Overtakes, Mail, Sound
  <2>3. OnItsWay("stdin", s, Mail(s), Len(got[s]), typed[s], FALSE)
    BY <1>0, <1>1 DEF KeysFlow
  <2>4. m.n = Len(got[s]) + 1 /\ OnItsWay("stdin", s, Mail(s) \ {m}, Len(got[s]) + 1, typed[s], FALSE)
    BY <1>m, <1>n, <1>0, <2>2, <2>3, ItemComes
  <2>5. Numbered(got'[s]) /\ Len(got'[s]) = Len(got[s]) + 1
    BY <1>t, <2>1, <2>4, NumberedAppend
  <2>6. m.n <= typed[s]
    BY <1>0, <2>3 DEF OnItsWay
  <2> QED
    BY <1>0, <2>4, <2>5, <2>6 DEF KeysFlow
<1>2. CASE s \notin listed
  BY <1>0, <1>2 DEF KeysFlow, GetsKey
<1> QED
  BY <1>1, <1>2

\* No step lets the keys get out of order.
LEMMA KeysArriveStep ==
  ASSUME ExecTypes, MoreTypes, NEW s \in Sessions, Begins(s), Linked(s), KeysArrive(s), SessionStep(s)
  PROVE  KeysArrive(s)'
<1> SUFFICES ASSUME Sound(s)'
             PROVE  Numbered(got'[s]) /\ KeysFlow(s)'
  BY DEF KeysArrive
<1>1. Sound(s)
  BY WhyGrows DEF Sound
<1>2. Numbered(got[s]) /\ KeysFlow(s)
  BY <1>1 DEF KeysArrive
<1> DEFINE Goal == Numbered(got'[s]) /\ KeysFlow(s)'
<1>k. ASSUME KeysStay(s), s \in direct' <=> s \in direct,
             handler'[s] \in {"open", "stopped"} => handler[s] \in {"open", "stopped"} \/ s \notin direct,
             s \in listed' => s \in listed,
             \A m : m.kind = "stdin" => (m \in Mail(s)' <=> m \in Mail(s))
      PROVE  Goal
  BY <1>k, <1>2, KeysFlowStays DEF KeysStay
<1> USE DEF DoorStays, ShellStays, MailStays
<1>3. CASE Same(s) \/ GivesUp(s) \/ Connects(s) \/ Exits(s)
  BY <1>k, <1>3 DEF Same, GivesUp, Connects, Exits
<1>4. CASE Shows(s)
  BY <1>k, <1>4 DEF Shows
<1>5. CASE Opens(s)
  <2>1. \A m : m.kind = "stdin" => (m \in Mail(s)' <=> m \in Mail(s))
    BY <1>5 DEF Opens, Msg
  <2> QED
    BY <1>k, <1>5, <2>1 DEF Opens
<1>6. CASE OpensDirect(s)
  <2>1. got[s] = <<>> /\ typed[s] = 0 /\ got'[s] = got[s] /\ typed'[s] = typed[s] /\ s \in direct'
    BY <1>6 DEF OpensDirect, Begins, KeysStay
  <2>2. Len(got'[s]) = 0
    BY <2>1
  <2> QED
    BY <1>2, <2>1, <2>2 DEF KeysFlow
<1>7. CASE Says(s)
  <2>1. \A m : m.kind = "stdin" => (m \in Mail(s)' <=> m \in Mail(s))
    BY <1>7 DEF Says, Msg
  <2> QED
    BY <1>k, <1>7, <2>1 DEF Says
<1>8. CASE EndsLoop(s)
  <2>1. \A m : m.kind = "stdin" => (m \in Mail(s)' <=> m \in Mail(s))
    BY <1>8 DEF EndsLoop, Msg
  <2> QED
    BY <1>k, <1>8, <2>1 DEF EndsLoop
<1>9. CASE TypesKey(s)
  BY <1>1, <1>2, <1>9, TypesInOrder
<1>10. CASE HangsUp(s)
  <2>1. \A m : m.kind = "stdin" => (m \in Mail(s)' <=> m \in Mail(s))
    BY <1>10 DEF HangsUp, Finishes, Msg
  <2>2. s \in listed' => s \in listed
    BY <1>10 DEF HangsUp, Finishes, Closes
  <2> QED
    BY <1>k, <1>10, <2>1, <2>2 DEF HangsUp
<1>11. CASE Replies(s)
  <2>1. \A m : m.kind = "stdin" => (m \in Mail(s)' <=> m \in Mail(s))
    BY <1>11 DEF Replies, Msg
  <2> QED
    BY <1>k, <1>11, <2>1 DEF Replies
<1>12. ASSUME NEW m \in Mail(s), GetsOpen(s, m)
       PROVE  Goal
  <2>1. shell[s].at = "none" /\ s \notin direct
    BY <1>12 DEF GetsOpen, Gets, Begins
  <2>2. got'[s] = <<>> /\ typed'[s] = 0 /\ got'[s] = got[s] /\ s \notin direct'
    BY <1>12, <2>1 DEF GetsOpen, Begins, KeysStay
  <2>3. \A e \in Mail(s)' : e.kind # "stdin"
    BY <1>12, <2>1 DEF GetsOpen, Gets, Begins, Msg
  <2>4. ~ \E n \in Nat : 0 < n /\ n <= 0
    OBVIOUS
  <2>5. OnItsWay("stdin", s, Mail(s)', 0, 0, FALSE)
    BY <2>3, <2>4 DEF OnItsWay
  <2>6. Len(got'[s]) = 0 /\ 0 <= 0
    BY <2>2
  <2> QED
    BY <1>2, <2>2, <2>5, <2>6 DEF KeysFlow
<1>13. ASSUME NEW m \in Mail(s), GetsReply(s, m)
       PROVE  Goal
  <2>1. s \notin direct
    BY DEF Begins
  <2> QED
    BY <1>k, <1>13, <2>1 DEF GetsReply, Gets
<1>14. ASSUME NEW m \in Mail(s), GetsPiece(s, m)
       PROVE  Goal
  BY <1>k, <1>14 DEF GetsPiece, Gets
<1>15. ASSUME NEW m \in Mail(s), GetsKey(s, m)
       PROVE  Goal
  BY <1>2, <1>15, KeyInOrder
<1>16. ASSUME NEW m \in Mail(s), GetsClose(s, m)
       PROVE  Goal
  BY <1>k, <1>16 DEF GetsClose, Gets, Closes
<1>17. CASE Breaks(s) \/ RestartsHere(s) \/ RestartsThere(s)
  <2>1. s \in direct \/ handler[s] = "idle"
    BY <1>17 DEF Breaks, RestartsHere, RestartsThere, LosesLink, Sound
  <2>2. KeysStay(s) /\ (s \in direct' <=> s \in direct) /\ (s \in listed' => s \in listed)
    BY <1>17 DEF Breaks, RestartsHere, RestartsThere
  <2>3. handler'[s] \in {"open", "stopped"} => handler[s] \in {"open", "stopped"}
    BY <1>17 DEF Breaks, RestartsHere, RestartsThere
  <2>4. s \notin direct => Mail(s) = {} /\ Mail(s)' = {}
    BY <1>17, <2>1 DEF Breaks, RestartsHere, RestartsThere, LosesLink, Begins
  <2> QED
    BY <1>2, <2>2, <2>3, <2>4, KeysFlowStays DEF KeysStay
<1> QED
  BY <1>3, <1>4, <1>5, <1>6, <1>7, <1>8, <1>9, <1>10, <1>11, <1>12, <1>13, <1>14, <1>15,
     <1>16, <1>17 DEF SessionStep

-----------------------------------------------------------------------------
(* The end.                                                                *)

\* The end of the output is queued, or on its way.
Comes(s) ==
  \/ \E i \in 1..Len(queue[s]) : queue[s][i] = 0
  \/ \E m \in Mail(s) : m.kind = "stdout" /\ m.eof

\* The answer that there is no shell is owed, or on its way.
Refused(s) == shell[s].owes = "error" \/ Msg("reply", s, 0, FALSE) \in Mail(s)

\* A terminal whose shell is over has yet to be told.
EndComes(s) ==
  "broken" \notin why[s] /\ shell[s].at = "over" =>
    /\ handler[s] = "open" => Comes(s)
    /\ handler[s] = "calling" => Comes(s) \/ Refused(s)

\* A call is on its way, being answered, or its answer is.
CallIsAnswered(s) ==
  "broken" \notin why[s] /\ handler[s] = "calling" =>
    shell[s].owes # "nothing" \/ \E m \in Mail(s) : m.kind \in {"open", "reply"}

\* What is queued stays when an item is added to it, and when one is taken.
LEMMA ComesAppend ==
  ASSUME NEW q \in Seq(Nat), NEW e \in Nat, e = 0 \/ \E i \in 1..Len(q) : q[i] = 0
  PROVE  \E i \in 1..Len(Append(q, e)) : Append(q, e)[i] = 0
<1>1. Len(q) \in Nat
  BY LenProperties
<1>2. /\ Len(Append(q, e)) = Len(q) + 1
      /\ \A i \in 1..Len(q) : Append(q, e)[i] = q[i]
      /\ Append(q, e)[Len(q) + 1] = e
  BY AppendProperties
<1>3. Len(q) + 1 \in 1..Len(q) + 1 /\ 1..Len(q) \subseteq 1..Len(q) + 1
  BY <1>1
<1> QED
  BY <1>2, <1>3

LEMMA ComesTail ==
  ASSUME NEW q \in Seq(Nat), q # <<>>, Head(q) # 0, NEW i \in 1..Len(q), q[i] = 0
  PROVE  \E j \in 1..Len(Tail(q)) : Tail(q)[j] = 0
<1>1. Len(q) \in Nat \ {0}
  BY EmptySeq
<1>2. Head(q) = q[1]
  OBVIOUS
<1>3. Len(Tail(q)) = Len(q) - 1 /\ \A j \in 1..Len(Tail(q)) : Tail(q)[j] = q[j + 1]
  BY HeadTailProperties
<1>4. i # 1
  BY <1>2
<1>5. i - 1 \in 1..Len(q) - 1 /\ (i - 1) + 1 = i
  BY <1>1, <1>4
<1> QED
  BY <1>3, <1>5

\* No step loses the end of a shell.
LEMMA EndComesStep ==
  ASSUME ExecTypes, MoreTypes, NEW s \in Sessions, Begins(s), Linked(s), AnsweredOnce(s), EndComes(s), SessionStep(s)
  PROVE  EndComes(s)'
<1> SUFFICES ASSUME "broken" \notin why'[s], shell'[s].at = "over"
             PROVE  /\ handler'[s] = "open" => Comes(s)'
                    /\ handler'[s] = "calling" => Comes(s)' \/ Refused(s)'
  BY DEF EndComes
<1> DEFINE Goal == /\ handler'[s] = "open" => Comes(s)'
                   /\ handler'[s] = "calling" => Comes(s)' \/ Refused(s)'
<1>1. "broken" \notin why[s]
  BY WhyGrows
<1>q. queue[s] \in Seq(Nat)
  BY OutputTypes
<1>k. ASSUME shell[s].at = "over", handler'[s] \in {"open", "calling"} => handler'[s] = handler[s],
             queue'[s] = queue[s], shell[s].owes = "error" => shell'[s].owes = "error",
             \A m \in Mail(s) : m.kind = "reply" \/ m.kind = "stdout" => m \in Mail(s)'
      PROVE  Goal
  <2>1. Comes(s) => Comes(s)'
    BY <1>k DEF Comes
  <2>2. Refused(s) => Refused(s)'
    BY <1>k DEF Refused, Msg
  <2> QED
    BY <1>1, <1>k, <2>1, <2>2 DEF EndComes
<1> USE DEF DoorStays, QueueStays, ShellStays, MailStays
<1>2. CASE Same(s) \/ Connects(s)
  BY <1>k, <1>2 DEF Same, Connects
<1>3. CASE Opens(s)
  BY <1>3 DEF Opens, Begins
<1>4. CASE OpensDirect(s)
  BY <1>4 DEF OpensDirect
<1>5. CASE GivesUp(s) \/ Says(s) \/ Exits(s) \/ HangsUp(s)
  BY <1>5 DEF GivesUp, Says, Exits, HangsUp, Finishes
<1>6. CASE TypesKey(s)
  <2>1. CASE Finishes(s, {Msg("stdin", s, typed[s] + 1, FALSE)})
    BY <2>1 DEF Finishes
  <2>2. CASE ~Finishes(s, {Msg("stdin", s, typed[s] + 1, FALSE)})
    BY <1>k, <1>6, <2>2 DEF TypesKey
  <2> QED
    BY <2>1, <2>2
<1>7. CASE Replies(s)
  <2>0. shell[s].at = "over" /\ handler'[s] = handler[s] /\ queue'[s] = queue[s]
        /\ \A m \in Mail(s) : m \in Mail(s)'
    BY <1>7 DEF Replies
  <2>1. Comes(s) => Comes(s)'
    BY <2>0 DEF Comes
  <2>2. Refused(s) => Refused(s)'
    <3>1. CASE Msg("reply", s, 0, FALSE) \in Mail(s)
      <4>1. Msg("reply", s, 0, FALSE) \in Mail(s)'
        BY <2>0, <3>1
      <4> QED
        BY <4>1 DEF Refused, Msg
    <3>2. CASE shell[s].owes = "error"
      <4>1. s \notin direct /\ Live(s)
        BY <1>1, <2>0, <3>2 DEF Begins, Linked, Live
      <4>2. Msg("reply", s, 0, FALSE) \in Mail(s)'
        BY <1>7, <3>2, <4>1 DEF Replies
      <4> QED
        BY <4>2 DEF Refused, Msg
    <3> QED
      BY <3>1, <3>2 DEF Refused
  <2> QED
    BY <1>1, <2>0, <2>1, <2>2 DEF EndComes
<1>8. CASE EndsLoop(s)
  <2>1. CASE s \in direct
    <3>1. queue'[s] = Append(queue[s], 0) /\ 0 \in Nat
      BY <1>8, <2>1 DEF EndsLoop
    <3>2. \E i \in 1..Len(queue'[s]) : queue'[s][i] = 0
      BY <1>q, <3>1, ComesAppend
    <3> QED
      BY <3>2 DEF Comes
  <2>2. CASE s \notin direct
    <3>1. Live(s)
      BY <1>1, <1>8, <2>2 DEF EndsLoop, Linked, Live
    <3>2. Msg("stdout", s, shell[s].said + 1, TRUE) \in Mail(s)'
      BY <1>8, <2>2, <3>1 DEF EndsLoop
    <3> QED
      BY <3>2 DEF Comes, Msg
  <2> QED
    BY <2>1, <2>2
<1>9. CASE Shows(s)
  <2>0. shell'[s] = shell[s]
    BY <1>9 DEF Shows
  <2>1. /\ handler[s] = "open" /\ Mail(s)' = Mail(s)
        /\ handler'[s] = "stopped" \/ (handler'[s] = "open" /\ Head(queue[s]) # 0)
        /\ queue[s] # <<>> /\ queue'[s] = Tail(queue[s])
    BY <1>9 DEF Shows
  <2>2. Comes(s)
    BY <1>1, <2>0, <2>1 DEF EndComes
  <2>3. CASE \E m \in Mail(s) : m.kind = "stdout" /\ m.eof
    BY <2>1, <2>3 DEF Comes
  <2>4. CASE \E i \in 1..Len(queue[s]) : queue[s][i] = 0
    <3>1. Head(queue[s]) # 0 => \E i \in 1..Len(queue'[s]) : queue'[s][i] = 0
      BY <1>q, <2>1, <2>4, ComesTail
    <3> QED
      BY <2>1, <3>1 DEF Comes
  <2> QED
    BY <2>2, <2>3, <2>4 DEF Comes
<1>10. ASSUME NEW m \in Mail(s), GetsOpen(s, m)
       PROVE  Goal
  <2>1. shell[s].at = "none"
    BY <1>10 DEF GetsOpen, Gets, Begins
  <2>2. handler'[s] # "open" /\ shell'[s].owes = "error"
    BY <1>10, <2>1 DEF GetsOpen, Begins
  <2> QED
    BY <2>2 DEF Refused
<1>11. ASSUME NEW m \in Mail(s), GetsReply(s, m)
       PROVE  Goal
  <2>1. m.kind = "reply" /\ shell'[s] = shell[s] /\ queue'[s] = queue[s] /\ Mail(s)' = Mail(s) \ {m}
    BY <1>11 DEF GetsReply, Gets
  <2>2. shell[s].owes = "nothing"
    BY <2>1 DEF AnsweredOnce
  <2>3. Comes(s) => Comes(s)'
    BY <2>1 DEF Comes
  <2>4. CASE handler[s] # "calling"
    <3>1. handler'[s] = handler[s]
      BY <1>11, <2>4 DEF GetsReply
    <3> QED
      BY <1>1, <2>1, <2>3, <2>4, <3>1 DEF EndComes
  <2>5. CASE handler[s] = "calling"
    <3>1. m.n = 1 \/ handler'[s] = "over"
      BY <1>11, <2>5 DEF GetsReply
    <3>2. m.n = 1 => ~Refused(s)
      <4> SUFFICES ASSUME m.n = 1, Msg("reply", s, 0, FALSE) \in Mail(s)
                   PROVE  FALSE
        BY <2>2 DEF Refused
      <4>1. PICK e \in Mail(s) : e = Msg("reply", s, 0, FALSE)
        OBVIOUS
      <4>2. e.kind = "reply" /\ e.n = 0
        BY <4>1 DEF Msg
      <4>3. m = e
        BY <2>1, <4>2 DEF AnsweredOnce
      <4> QED
        BY <4>2, <4>3
    <3> QED
      BY <1>1, <2>1, <2>3, <2>5, <3>1, <3>2 DEF EndComes
  <2> QED
    BY <2>4, <2>5
<1>12. ASSUME NEW m \in Mail(s), GetsPiece(s, m)
       PROVE  Goal
  <2> SUFFICES ASSUME handler[s] \in {"open", "calling"}
               PROVE  (Comes(s) => Comes(s)') /\ (Refused(s) => Refused(s)')
    BY <1>1, <1>12 DEF GetsPiece, EndComes
  <2>1. m.kind = "stdout" /\ Mail(s)' = Mail(s) \ {m} /\ shell'[s] = shell[s]
    BY <1>12 DEF GetsPiece, Gets
  <2>2. queue'[s] = Append(queue[s], Item(m))
    BY <1>12 DEF GetsPiece, Begins
  <2>3. Item(m) \in Nat /\ (m.eof => Item(m) = 0)
    BY DEF Item, Mail, ExecTypes, Frames
  <2>4. Item(m) = 0 \/ (\E i \in 1..Len(queue[s]) : queue[s][i] = 0) => Comes(s)'
    BY <1>q, <2>2, <2>3, ComesAppend DEF Comes
  <2>5. Comes(s) => Comes(s)'
    <3>1. CASE \E e \in Mail(s) \ {m} : e.kind = "stdout" /\ e.eof
      BY <2>1, <3>1 DEF Comes
    <3> QED
      BY <2>3, <2>4, <3>1 DEF Comes
  <2>6. Refused(s) => Refused(s)'
    BY <2>1 DEF Refused, Msg
  <2> QED
    BY <2>5, <2>6
<1>13. ASSUME NEW m \in Mail(s), GetsKey(s, m)
       PROVE  Goal
  BY <1>k, <1>13 DEF GetsKey, Gets
<1>14. ASSUME NEW m \in Mail(s), GetsClose(s, m)
       PROVE  Goal
  <2>1. shell[s].at = "over" /\ shell'[s].owes = shell[s].owes
    BY <1>14 DEF GetsClose, Closes
  <2> QED
    BY <1>k, <1>14, <2>1 DEF GetsClose, Gets
<1>15. CASE Breaks(s) \/ RestartsHere(s) \/ RestartsThere(s)
  <2>1. s \in direct \/ handler[s] = "idle"
    BY <1>15 DEF Breaks, RestartsHere, RestartsThere, LosesLink
  <2>2. CASE handler[s] = "idle"
    BY <1>15, <2>2 DEF Breaks, RestartsHere, RestartsThere
  <2>3. CASE s \in direct /\ handler[s] # "idle"
    <3>1. CASE RestartsThere(s)
      BY <2>3, <3>1 DEF RestartsThere
    <3>2. CASE Breaks(s) \/ RestartsHere(s)
      <4>1. Mail(s) = {} /\ handler'[s] = handler[s] /\ shell'[s] = shell[s] /\ queue'[s] = queue[s]
        BY <2>3, <3>2 DEF Breaks, RestartsHere, Begins
      <4> QED
        BY <1>k, <4>1
    <3> QED
      BY <1>15, <3>1, <3>2
  <2> QED
    BY <2>1, <2>2, <2>3
<1> QED
  BY <1>2, <1>3, <1>4, <1>5, <1>6, <1>7, <1>8, <1>9, <1>10, <1>11, <1>12, <1>13, <1>14, <1>15 DEF SessionStep

\* Nor the answer to a call.
LEMMA CallIsAnsweredStep ==
  ASSUME ExecTypes, MoreTypes, NEW s \in Sessions, Begins(s), Linked(s), CallIsAnswered(s), SessionStep(s)
  PROVE  CallIsAnswered(s)'
<1> SUFFICES ASSUME "broken" \notin why'[s], handler'[s] = "calling"
             PROVE  shell'[s].owes # "nothing" \/ \E m \in Mail(s)' : m.kind \in {"open", "reply"}
  BY DEF CallIsAnswered
<1> DEFINE Goal == shell'[s].owes # "nothing" \/ \E m \in Mail(s)' : m.kind \in {"open", "reply"}
<1>1. "broken" \notin why[s]
  BY WhyGrows
<1>k. ASSUME handler[s] = "calling", shell'[s].owes = shell[s].owes,
             \A m \in Mail(s) : m.kind \in {"open", "reply"} => m \in Mail(s)'
      PROVE  Goal
  BY <1>1, <1>k DEF CallIsAnswered
<1> USE DEF DoorStays, ShellStays, MailStays
<1>2. CASE Same(s) \/ Connects(s) \/ Exits(s)
  BY <1>k, <1>2 DEF Same, Connects, Exits
<1>3. CASE Opens(s)
  <2>1. Msg("open", s, 0, FALSE) \in Mail(s)'
    BY <1>3 DEF Opens
  <2>2. Msg("open", s, 0, FALSE).kind = "open"
    BY DEF Msg
  <2> QED
    BY <2>1, <2>2
<1>4. CASE OpensDirect(s) \/ GivesUp(s) \/ Shows(s) \/ HangsUp(s)
  BY <1>4 DEF OpensDirect, GivesUp, Shows, HangsUp, Finishes
<1>5. CASE Says(s)
  BY <1>k, <1>5 DEF Says
<1>6. CASE TypesKey(s)
  BY <1>6 DEF TypesKey, Finishes
<1>7. CASE Replies(s)
  <2>1. s \notin direct /\ shell[s].at # "none"
    BY <1>7 DEF Replies, Begins
  <2>2. Live(s)
    BY <1>1, <2>1 DEF Linked, Live
  <2>3. PICK n : Msg("reply", s, n, FALSE) \in Mail(s)'
    BY <1>7, <2>2 DEF Replies
  <2>4. Msg("reply", s, n, FALSE).kind = "reply"
    BY DEF Msg
  <2> QED
    BY <2>3, <2>4
<1>8. CASE EndsLoop(s)
  BY <1>k, <1>8 DEF EndsLoop
<1>9. ASSUME NEW m \in Mail(s), GetsOpen(s, m)
      PROVE  Goal
  BY <1>9 DEF GetsOpen
<1>10. ASSUME NEW m \in Mail(s), GetsReply(s, m)
       PROVE  Goal
  BY <1>10 DEF GetsReply
<1>11. ASSUME NEW m \in Mail(s), GetsPiece(s, m) \/ GetsKey(s, m) \/ GetsClose(s, m)
       PROVE  Goal
  BY <1>k, <1>11 DEF GetsPiece, GetsKey, GetsClose, Gets, Closes
<1>12. CASE Breaks(s) \/ RestartsHere(s) \/ RestartsThere(s)
  BY <1>12 DEF Breaks, RestartsHere, RestartsThere, LosesLink, Begins
<1> QED
  BY <1>2, <1>3, <1>4, <1>5, <1>6, <1>7, <1>8, <1>9, <1>10, <1>11, <1>12 DEF SessionStep

-----------------------------------------------------------------------------
(* What a terminal leaves behind.                                          *)

\* A shell whose terminal is over is about to be told to close.
NothingLeft(s) ==
  handler[s] = "over" /\ "gave-up" \notin why[s] /\ "broken" \notin why[s] =>
    /\ shell[s].at = "running" => Msg("close", s, 0, FALSE) \in Mail(s)
    /\ \A m \in Mail(s) : m.kind # "open"

LEMMA NothingLeftStep ==
  ASSUME ExecTypes, MoreTypes, NEW s \in Sessions, Begins(s), Linked(s), AnsweredOnce(s), NothingLeft(s), SessionStep(s)
  PROVE  NothingLeft(s)'
<1>c. Msg("close", s, 0, FALSE)' = Msg("close", s, 0, FALSE) /\ Msg("close", s, 0, FALSE).kind = "close"
  BY DEF Msg
<1> SUFFICES ASSUME handler'[s] = "over", "gave-up" \notin why'[s], "broken" \notin why'[s]
             PROVE  /\ shell'[s].at = "running" => Msg("close", s, 0, FALSE) \in Mail(s)'
                    /\ \A m \in Mail(s)' : m.kind # "open"
  BY <1>c DEF NothingLeft
<1> DEFINE Goal == /\ shell'[s].at = "running" => Msg("close", s, 0, FALSE) \in Mail(s)'
                   /\ \A m \in Mail(s)' : m.kind # "open"
<1>1. "gave-up" \notin why[s] /\ "broken" \notin why[s]
  BY WhyGrows
<1>k. ASSUME handler[s] = "over", shell'[s].at = "running" => shell[s].at = "running",
             \A m \in Mail(s) : m.kind = "close" => m \in Mail(s)',
             \A m \in Mail(s)' : m.kind = "open" => m \in Mail(s)
      PROVE  Goal
  BY <1>1, <1>c, <1>k DEF NothingLeft
<1> USE DEF DoorStays, ShellStays, MailStays
<1>2. CASE Same(s) \/ Connects(s) \/ Exits(s)
  BY <1>k, <1>2 DEF Same, Connects, Exits
<1>3. CASE Opens(s)
  BY <1>3 DEF Opens, Begins
<1>4. CASE OpensDirect(s)
  BY <1>4 DEF OpensDirect, Begins
<1>5. CASE GivesUp(s) \/ Shows(s)
  BY <1>5 DEF GivesUp, Shows
<1>6. CASE Says(s)
  BY <1>k, <1>6 DEF Says, Msg
<1>f. ASSUME NEW frames, Finishes(s, frames), handler[s] \in {"open", "stopped"}, \A m \in frames : m.kind # "open"
      PROVE  Goal
  <2>1. shell[s].at # "none" /\ \A m \in Mail(s) : m.kind # "open"
    BY <1>f DEF Begins
  <2>2. CASE s \in direct
    BY <1>f, <2>1, <2>2 DEF Finishes, Closes, Begins
  <2>3. CASE s \notin direct
    <3>1. up
      BY <1>1, <1>f, <2>3 DEF Linked
    <3> QED
      BY <1>c, <1>f, <2>1, <2>3, <3>1 DEF Finishes
  <2> QED
    BY <2>2, <2>3
<1>7. CASE TypesKey(s)
  <2>1. CASE Finishes(s, {Msg("stdin", s, typed[s] + 1, FALSE)})
    <3> DEFINE frames == {Msg("stdin", s, typed[s] + 1, FALSE)}
    <3>1. Finishes(s, frames) /\ handler[s] \in {"open", "stopped"}
      BY <1>7, <2>1 DEF TypesKey
    <3>2. \A m \in frames : m.kind # "open"
      BY DEF Msg
    <3> HIDE DEF frames
    <3> QED
      BY <1>f, <3>1, <3>2
  <2>2. CASE ~Finishes(s, {Msg("stdin", s, typed[s] + 1, FALSE)})
    BY <1>7, <2>2 DEF TypesKey
  <2> QED
    BY <2>1, <2>2
<1>8. CASE Replies(s)
  BY <1>k, <1>8 DEF Replies, Msg
<1>9. CASE EndsLoop(s)
  <2>1. \A m \in Mail(s)' : m.kind = "open" => m \in Mail(s)
    BY <1>9 DEF EndsLoop, Msg
  <2> QED
    BY <1>k, <1>9, <2>1 DEF EndsLoop
<1>10. CASE HangsUp(s)
  <2>1. PICK frames : frames = {} /\ Finishes(s, frames) /\ handler[s] \in {"open", "stopped"}
    BY <1>10 DEF HangsUp
  <2>2. Finishes(s, frames) /\ handler[s] \in {"open", "stopped"} /\ \A m \in frames : m.kind # "open"
    BY <2>1
  <2> QED
    BY ONLY <1>f, <2>2
<1>11. ASSUME NEW m \in Mail(s), GetsOpen(s, m)
       PROVE  Goal
  BY <1>1, <1>11 DEF GetsOpen, Gets, NothingLeft
<1>12. ASSUME NEW m \in Mail(s), GetsReply(s, m)
       PROVE  Goal
  <2>1. CASE handler[s] = "calling"
    BY <1>12, <2>1 DEF GetsReply, Gets, AnsweredOnce, Begins
  <2>2. CASE handler[s] # "calling"
    BY <1>k, <1>12, <2>2 DEF GetsReply, Gets
  <2> QED
    BY <2>1, <2>2
<1>13. ASSUME NEW m \in Mail(s), GetsPiece(s, m) \/ GetsKey(s, m)
       PROVE  Goal
  BY <1>k, <1>13 DEF GetsPiece, GetsKey, Gets
<1>14. ASSUME NEW m \in Mail(s), GetsClose(s, m)
       PROVE  Goal
  <2>1. shell'[s].at # "running"
    BY <1>14 DEF GetsClose, Closes, Begins
  <2> QED
    BY <1>1, <1>14, <2>1 DEF GetsClose, Gets, NothingLeft
<1>15. CASE Breaks(s) \/ RestartsHere(s) \/ RestartsThere(s)
  <2>1. Mail(s)' = {}
    BY <1>15 DEF Breaks, RestartsHere, RestartsThere, LosesLink
  <2>2. s \in direct \/ handler[s] = "idle"
    BY <1>15 DEF Breaks, RestartsHere, RestartsThere, LosesLink
  <2>3. shell'[s].at = "running" => shell[s].at = "running" /\ handler[s] = "over" /\ s \in direct
    BY <1>15, <2>2 DEF Breaks, RestartsHere, RestartsThere, Begins
  <2> QED
    BY <1>1, <2>1, <2>3 DEF NothingLeft, Begins
<1> QED
  BY <1>2, <1>3, <1>4, <1>5, <1>6, <1>7, <1>8, <1>9, <1>10, <1>11, <1>12, <1>13, <1>14, <1>15 DEF SessionStep

-----------------------------------------------------------------------------
(* The bounds.                                                             *)

\* A frame bears the number of an item, of the end, or no number.
Fits(m) ==
  /\ m.n \in 0..MaxItems + 1
  /\ m.kind = "stdin" \/ (m.kind = "stdout" /\ ~m.eof) => m.n \in 1..MaxItems

LEMMA MsgFits ==
  ASSUME NEW s, NEW n \in 0..MaxItems + 1
  PROVE  /\ Fits(Msg("open", s, n, FALSE)) /\ Fits(Msg("reply", s, n, FALSE)) /\ Fits(Msg("close", s, n, FALSE))
         /\ Fits(Msg("stdout", s, n, TRUE))
         /\ n \in 1..MaxItems => Fits(Msg("stdout", s, n, FALSE)) /\ Fits(Msg("stdin", s, n, FALSE))
BY DEF Fits, Msg

\* A session has no more items than there are, which are no more than MaxItems.
Bounded(s) ==
  /\ s \in direct => s \notin registered
  /\ shell[s].said + typed[s] <= MaxItems
  /\ queue[s] \in Seq(0..MaxItems) /\ shown[s] \in Seq(1..MaxItems) /\ got[s] \in Seq(1..MaxItems)
  /\ \A m \in Mail(s) : Fits(m)

\* The items of a session are items.
LEMMA ItemsBound ==
  ASSUME NEW s \in Sessions, NEW k \in Nat, shell[s].said + typed[s] = k, k <= MaxItems, Items < MaxItems
  PROVE  k + 1 <= MaxItems
<1> DEFINE all == {x \in Sessions \X (1..MaxItems) : x[2] <= shell[x[1]].said + typed[x[1]]}
           own == {s} \X (1..k)
<1>n. MaxItems \in Nat /\ IsFiniteSet(Sessions)
  BY ExecAssumption
<1>1. IsFiniteSet(1..MaxItems) /\ IsFiniteSet(1..k)
  BY <1>n, FS_Interval
<1>2. IsFiniteSet(Sessions \X (1..MaxItems))
  BY <1>n, <1>1, FS_Product
<1>3. IsFiniteSet(all)
  <2>1. all \subseteq Sessions \X (1..MaxItems)
    OBVIOUS
  <2> HIDE DEF all
  <2> QED
    BY <1>2, <2>1, FS_Subset
<1>4. own \subseteq all
  <2> SUFFICES ASSUME NEW i \in 1..k
               PROVE  <<s, i>> \in all
    OBVIOUS
  <2>1. i \in 1..MaxItems /\ i <= k
    BY <1>n
  <2> QED
    BY <2>1
<1>5. Cardinality(own) = k
  <2>1. Cardinality(1..k) = k
    <3>1. Cardinality(1..k) = IF 1 > k THEN 0 ELSE k - 1 + 1
      BY FS_Interval
    <3> QED
      BY <3>1
  <2>2. IsFiniteSet({s}) /\ Cardinality({s}) = 1
    BY FS_Singleton
  <2>3. Cardinality(own) = Cardinality({s}) * Cardinality(1..k)
    BY <1>1, <2>2, FS_Product
  <2>4. 1 * k = k
    OBVIOUS
  <2> QED
    BY <2>1, <2>2, <2>3, <2>4
<1>6. Items = Cardinality(all)
  BY DEF Items
<1> HIDE DEF all, own
<1>7. Cardinality(own) <= Cardinality(all) /\ Cardinality(all) \in Nat
  BY <1>3, <1>4, FS_Subset, FS_CardinalityType
<1>8. Items \in Nat /\ k <= Items
  BY <1>5, <1>6, <1>7
<1> QED
  BY <1>n, <1>8

\* Narrower items.
LEMMA BoundedAppend ==
  ASSUME NEW S, NEW q \in Seq(S), NEW e \in S
  PROVE  Append(q, e) \in Seq(S)
BY AppendProperties

\* Every step keeps to the bounds.
LEMMA BoundedStep ==
  ASSUME ExecTypes, MoreTypes, NEW s \in Sessions, Begins(s), Bounded(s), SessionStep(s)
  PROVE  Bounded(s)'
<1>n. MaxItems \in Nat
  BY ExecAssumption
<1>i. /\ 0 \in 0..MaxItems /\ 0 \in 0..MaxItems + 1 /\ 1 \in 0..MaxItems + 1
      /\ 1..MaxItems \subseteq 0..MaxItems + 1 /\ 1..MaxItems \subseteq 0..MaxItems
      /\ (0..MaxItems) \ {0} \subseteq 1..MaxItems
  BY <1>n
<1>b. /\ shell[s].said + typed[s] <= MaxItems
      /\ queue[s] \in Seq(0..MaxItems) /\ shown[s] \in Seq(1..MaxItems) /\ got[s] \in Seq(1..MaxItems)
      /\ \A m \in Mail(s) : Fits(m)
      /\ s \in direct => s \notin registered
  BY DEF Bounded
<1>t. shell[s].said \in Nat /\ typed[s] \in Nat
  BY OutputTypes
<1>k. ASSUME s \in direct' => s \notin registered', shell'[s].said = shell[s].said, KeysStay(s), QueueStays(s),
             \A m \in Mail(s)' : m \in Mail(s) \/ Fits(m)
      PROVE  Bounded(s)'
  BY <1>b, <1>k DEF Bounded, KeysStay, QueueStays
<1>d. DoorStays(s) => (s \in direct' => s \notin registered')
  BY <1>b DEF DoorStays
<1> USE DEF ShellStays, MailStays
<1>1. CASE Same(s)
  BY <1>d, <1>k, <1>1 DEF Same
<1>2. CASE Opens(s)
  <2>1. s \notin direct'
    BY <1>2 DEF Opens, Begins
  <2>2. Fits(Msg("open", s, 0, FALSE))
    BY <1>i, MsgFits
  <2>3. \A m \in Mail(s)' : m \in Mail(s) \/ Fits(m)
    BY <1>2, <2>2 DEF Opens
  <2> QED
    BY <1>k, <1>2, <2>1, <2>3 DEF Opens
<1>3. CASE OpensDirect(s)
  BY <1>k, <1>3 DEF OpensDirect, Begins
<1>4. CASE GivesUp(s)
  BY <1>k, <1>4 DEF GivesUp
<1>5. CASE Exits(s)
  BY <1>d, <1>k, <1>5 DEF Exits
<1>6. CASE Says(s)
  <2> DEFINE n == shell[s].said + 1
  <2>1. shell'[s].said = n /\ typed'[s] = typed[s] /\ shown'[s] = shown[s] /\ got'[s] = got[s]
    BY <1>6 DEF Says, KeysStay
  <2>2. (shell[s].said + typed[s]) + 1 <= MaxItems
    <3>1. shell[s].said + typed[s] \in Nat
      BY <1>t
    <3> QED
      BY <1>6, <1>b, <3>1, ItemsBound DEF Says
  <2>3. n + typed[s] <= MaxItems /\ n \in 1..MaxItems
    BY <1>n, <1>t, <2>2
  <2> HIDE DEF n
  <2>4. queue'[s] \in Seq(0..MaxItems)
    <3>1. queue'[s] = queue[s] \/ queue'[s] = Append(queue[s], n)
      BY <1>6 DEF Says, n
    <3> QED
      BY <1>b, <1>i, <2>3, <3>1, BoundedAppend
  <2>5. \A m \in Mail(s)' : Fits(m)
    <3>1. Mail(s)' \subseteq Mail(s) \union {Msg("stdout", s, n, FALSE)}
      BY <1>6 DEF Says, n
    <3>2. Fits(Msg("stdout", s, n, FALSE))
      BY <1>i, <2>3, MsgFits
    <3> QED
      BY <1>b, <3>1, <3>2
  <2>6. s \in direct' => s \notin registered'
    BY <1>d, <1>6 DEF Says
  <2> QED
    BY <1>b, <2>1, <2>3, <2>4, <2>5, <2>6 DEF Bounded
<1>7. CASE TypesKey(s)
  <2> DEFINE n == typed[s] + 1
             key == Msg("stdin", s, n, FALSE)
  <2>1. shell'[s].said = shell[s].said /\ typed'[s] = n /\ QueueStays(s)
    BY <1>7 DEF TypesKey, Finishes, Closes
  <2>2. (shell[s].said + typed[s]) + 1 <= MaxItems
    <3>1. shell[s].said + typed[s] \in Nat
      BY <1>t
    <3> QED
      BY <1>7, <1>b, <3>1, ItemsBound DEF TypesKey
  <2>3. shell[s].said + n <= MaxItems /\ n \in 1..MaxItems
    BY <1>n, <1>t, <2>2
  <2>4. got'[s] \in Seq(1..MaxItems)
    <3>1. got'[s] = got[s] \/ got'[s] = Append(got[s], n)
      BY <1>7 DEF TypesKey
    <3> HIDE DEF n
    <3> QED
      BY <1>b, <2>3, <3>1, BoundedAppend
  <2>5. \A m \in Mail(s)' : Fits(m)
    <3>1. Mail(s)' \subseteq Mail(s) \union {key, Msg("close", s, 0, FALSE)}
      BY <1>7 DEF TypesKey, Finishes
    <3> HIDE DEF n
    <3>2. Fits(key) /\ Fits(Msg("close", s, 0, FALSE))
      BY <1>i, <2>3, MsgFits
    <3> QED
      BY <1>b, <3>1, <3>2
  <2>6. s \in direct' => s \notin registered'
    BY <1>b, <1>7 DEF TypesKey, Finishes, DoorStays
  <2> HIDE DEF n
  <2> QED
    BY <1>b, <2>1, <2>3, <2>4, <2>5, <2>6 DEF Bounded, QueueStays
<1>8. CASE Replies(s)
  <2> DEFINE n == IF shell[s].owes = "ok" THEN 1 ELSE 0
  <2>1. Fits(Msg("reply", s, n, FALSE))
    BY <1>i, MsgFits
  <2>2. \A m \in Mail(s)' : m \in Mail(s) \/ m = Msg("reply", s, n, FALSE)
    BY <1>8 DEF Replies
  <2> HIDE DEF n
  <2> QED
    BY <1>d, <1>k, <1>8, <2>1, <2>2 DEF Replies
<1>9. CASE EndsLoop(s)
  <2> DEFINE n == shell[s].said + 1
  <2>1. /\ shell'[s].said = shell[s].said /\ shown'[s] = shown[s] /\ KeysStay(s)
        /\ s \in direct' => s \notin registered'
    BY <1>d, <1>9 DEF EndsLoop
  <2>2. queue'[s] \in Seq(0..MaxItems)
    <3>1. queue'[s] = queue[s] \/ queue'[s] = Append(queue[s], 0)
      BY <1>9 DEF EndsLoop
    <3> QED
      BY <1>b, <1>i, <3>1, BoundedAppend
  <2>3. n \in 0..MaxItems + 1
    BY <1>b, <1>n, <1>t
  <2>4. Mail(s)' \subseteq Mail(s) \union {Msg("stdout", s, n, TRUE)}
    BY <1>9 DEF EndsLoop
  <2> HIDE DEF n
  <2>5. Fits(Msg("stdout", s, n, TRUE))
    BY <2>3, MsgFits
  <2>6. \A m \in Mail(s)' : Fits(m)
    BY <1>b, <2>4, <2>5
  <2> QED
    BY <1>b, <2>1, <2>2, <2>6 DEF Bounded, KeysStay
<1>10. CASE Shows(s)
  <2>1. /\ shell'[s] = shell[s] /\ Mail(s)' = Mail(s) /\ KeysStay(s)
        /\ s \in direct' => s \notin registered'
    BY <1>b, <1>10 DEF Shows
  <2>2. Head(queue[s]) \in 0..MaxItems /\ queue'[s] \in Seq(0..MaxItems)
    BY <1>b, <1>10, HeadTailProperties DEF Shows
  <2>3. shown'[s] \in Seq(1..MaxItems)
    <3>1. shown'[s] = shown[s] \/ (Head(queue[s]) # 0 /\ shown'[s] = Append(shown[s], Head(queue[s])))
      BY <1>10 DEF Shows
    <3> QED
      BY <1>b, <1>i, <2>2, <3>1, BoundedAppend
  <2> QED
    BY <1>b, <2>1, <2>2, <2>3 DEF Bounded, KeysStay
<1>11. CASE HangsUp(s)
  <2>1. Fits(Msg("close", s, 0, FALSE))
    BY <1>i, MsgFits
  <2>2. Mail(s)' \subseteq Mail(s) \union {Msg("close", s, 0, FALSE)}
    BY <1>11 DEF HangsUp, Finishes
  <2>3. shell'[s].said = shell[s].said /\ s \notin registered'
    BY <1>11 DEF HangsUp, Finishes, Closes
  <2> QED
    BY <1>k, <1>11, <2>1, <2>2, <2>3 DEF HangsUp
<1>12. ASSUME NEW m \in Mail(s), GetsOpen(s, m)
       PROVE  Bounded(s)'
  BY <1>d, <1>k, <1>12 DEF GetsOpen, Gets
<1>13. ASSUME NEW m \in Mail(s), GetsReply(s, m)
       PROVE  Bounded(s)'
  <2>1. s \in direct' => s \notin registered'
    BY <1>b, <1>13 DEF GetsReply, DoorStays
  <2> QED
    BY <1>k, <1>13, <2>1 DEF GetsReply, Gets
<1>14. ASSUME NEW m \in Mail(s), GetsPiece(s, m)
       PROVE  Bounded(s)'
  <2>1. /\ Mail(s)' = Mail(s) \ {m} /\ shell'[s] = shell[s] /\ shown'[s] = shown[s] /\ KeysStay(s)
        /\ s \in direct' => s \notin registered'
    BY <1>d, <1>14 DEF GetsPiece, Gets
  <2>2. Item(m) \in 0..MaxItems
    BY <1>b, <1>i, <1>14 DEF GetsPiece, Gets, Item, Fits
  <2>3. queue'[s] \in Seq(0..MaxItems)
    BY <1>b, <1>14, <2>2, BoundedAppend DEF GetsPiece
  <2> QED
    BY <1>b, <2>1, <2>3 DEF Bounded, KeysStay
<1>15. ASSUME NEW m \in Mail(s), GetsKey(s, m)
       PROVE  Bounded(s)'
  <2>1. /\ Mail(s)' = Mail(s) \ {m} /\ shell'[s] = shell[s] /\ typed'[s] = typed[s] /\ QueueStays(s)
        /\ s \in direct' => s \notin registered'
    BY <1>d, <1>15 DEF GetsKey, Gets
  <2>2. m.n \in 1..MaxItems
    BY <1>b, <1>15 DEF GetsKey, Gets, Fits
  <2>3. got'[s] \in Seq(1..MaxItems)
    BY <1>b, <1>15, <2>2, BoundedAppend DEF GetsKey
  <2> QED
    BY <1>b, <2>1, <2>3 DEF Bounded, QueueStays
<1>16. ASSUME NEW m \in Mail(s), GetsClose(s, m)
       PROVE  Bounded(s)'
  BY <1>d, <1>k, <1>16 DEF GetsClose, Gets, Closes
<1>17. CASE Breaks(s)
  BY <1>d, <1>k, <1>17 DEF Breaks, LosesLink
<1>18. CASE Connects(s)
  BY <1>d, <1>k, <1>18 DEF Connects
<1>19. CASE RestartsHere(s)
  BY <1>k, <1>19 DEF RestartsHere, LosesLink
<1>20. CASE RestartsThere(s)
  <2>1. shell'[s].said = shell[s].said /\ Mail(s)' = {}
    BY <1>20 DEF RestartsThere, LosesLink
  <2> QED
    BY <1>b, <1>k, <1>20, <2>1 DEF RestartsThere
<1> QED
  BY <1>1, <1>2, <1>3, <1>4, <1>5, <1>6, <1>7, <1>8, <1>9, <1>10, <1>11, <1>12, <1>13, <1>14, <1>15,
     <1>16, <1>17, <1>18, <1>19, <1>20 DEF SessionStep

-----------------------------------------------------------------------------
(* The theorems.                                                           *)

\* The strengthening of the invariants that is inductive, session by session.
Flows(s) ==
  /\ Begins(s) /\ AnsweredOnce(s) /\ Linked(s) /\ Bounded(s)
  /\ OutputFlows(s) /\ KeysArrive(s)
  /\ EndComes(s) /\ CallIsAnswered(s) /\ NothingLeft(s)

StreamIInv == ExecTypes /\ MoreTypes /\ \A s \in Sessions : Flows(s)

\* It holds at first, when no session has begun.
LEMMA InitStreamIInv ==
  ASSUME Init
  PROVE  StreamIInv
<1>n. MaxItems \in Nat /\ 0 + 0 <= MaxItems /\ 0 <= 0
  BY ExecAssumption
<1>e. /\ <<>> \in Seq(Nat) /\ <<>> \in Seq(0..MaxItems) /\ <<>> \in Seq(1..MaxItems) /\ Len(<<>>) = 0
      /\ Len(<<>>) + Len(<<>>) = 0
  OBVIOUS
<1>1. ExecTypes
  BY InitIInv DEF IInv
<1>2. MoreTypes
  BY <1>e DEF Init, MoreTypes
<1>3. ASSUME NEW s \in Sessions
      PROVE  Flows(s)
  <2>1. /\ handler[s] = "idle" /\ s \notin direct /\ s \notin registered /\ s \notin listed
        /\ queue[s] = <<>> /\ shown[s] = <<>> /\ typed[s] = 0 /\ got[s] = <<>>
        /\ shell[s].at = "none" /\ shell[s].said = 0 /\ shell[s].owes = "nothing"
    BY DEF Init
  <2>2. Mail(s) = {}
    BY DEF Init, Mail
  <2>3. Begins(s) /\ AnsweredOnce(s) /\ Linked(s)
    BY <2>1, <2>2 DEF Begins, AnsweredOnce, Linked
  <2>4. Bounded(s)
    BY <1>n, <1>e, <2>1, <2>2 DEF Bounded
  <2>5. OutputFlows(s)
    <3>1. Follows(queue[s], Len(shown[s])) /\ Heard(s) = 0 /\ Numbered(shown[s])
      BY <1>e, <2>1 DEF Follows, Heard, Numbered
    <3>2. ~ \E n \in Nat : 0 < n /\ n <= 0
      OBVIOUS
    <3>3. OnItsWay("stdout", s, Mail(s), 0, 0, FALSE)
      BY <2>2, <3>2 DEF OnItsWay
    <3>4. (shell[s].at = "over") = FALSE
      BY <2>1
    <3>5. InOrder(s)
      BY <1>n, <2>1, <3>1, <3>3, <3>4 DEF InOrder
    <3> QED
      BY <3>1, <3>5 DEF OutputFlows
  <2>6. KeysArrive(s)
    <3>1. Numbered(got[s])
      BY <1>e, <2>1 DEF Numbered
    <3>2. KeysFlow(s)
      BY <2>1 DEF KeysFlow
    <3> QED
      BY <3>1, <3>2 DEF KeysArrive
  <2>7. EndComes(s) /\ CallIsAnswered(s) /\ NothingLeft(s)
    BY <2>1 DEF EndComes, CallIsAnswered, NothingLeft
  <2> QED
    BY <2>3, <2>4, <2>5, <2>6, <2>7 DEF Flows
<1> QED
  BY <1>1, <1>2, <1>3 DEF StreamIInv

\* Every step keeps it.
LEMMA StepStreamIInv ==
  ASSUME StreamIInv, [Next]_vars
  PROVE  StreamIInv'
<1> USE DEF StreamIInv
<1>1. ExecTypes' /\ MoreTypes'
  BY ExecTypesStep, MoreTypesStep
<1>2. ASSUME NEW s \in Sessions
      PROVE  Flows(s)'
  <2>1. SessionStep(s)
    BY SessionSteps
  <2>2. /\ Begins(s) /\ AnsweredOnce(s) /\ Linked(s) /\ Bounded(s) /\ OutputFlows(s) /\ KeysArrive(s)
        /\ EndComes(s) /\ CallIsAnswered(s) /\ NothingLeft(s)
    BY DEF Flows
  <2>3. Begins(s)' /\ AnsweredOnce(s)'
    BY <2>1, <2>2, BeginsStep, AnsweredOnceStep
  <2>4. Linked(s)' /\ Bounded(s)'
    BY <2>1, <2>2, LinkedStep, BoundedStep
  <2>5. OutputFlows(s)' /\ KeysArrive(s)'
    BY <2>1, <2>2, OutputFlowsStep, KeysArriveStep
  <2>6. EndComes(s)' /\ CallIsAnswered(s)' /\ NothingLeft(s)'
    BY <2>1, <2>2, EndComesStep, CallIsAnsweredStep, NothingLeftStep
  <2> QED
    BY <2>3, <2>4, <2>5, <2>6 DEF Flows
<1> QED
  BY <1>1, <1>2

\* And so it holds for ever.
LEMMA AlwaysFlows == Spec => []StreamIInv
<1>1. Init => StreamIInv
  BY InitStreamIInv
<1>2. StreamIInv /\ [Next]_vars => StreamIInv'
  BY StepStreamIInv
<1> QED
  BY <1>1, <1>2, PTL DEF Spec

\* The state stays within its types and bounds, and a session opened at the cluster of
\* the pod is never in the table of those whose output is pushed (agent.py 229, 301).
THEOREM ExecTypeCorrect == Spec => []TypeOK
<1>1. StreamIInv => TypeOK
  <2> SUFFICES ASSUME StreamIInv
               PROVE  TypeOK
    OBVIOUS
  <2>n. MaxItems \in Nat
    BY ExecAssumption
  <2>1. ExecTypes /\ MoreTypes /\ \A s \in Sessions : Bounded(s)
    BY DEF StreamIInv, Flows
  <2>2. /\ handler \in [Sessions -> {"idle", "calling", "open", "stopped", "over"}]
        /\ conn \in 1..MaxConns /\ up \in BOOLEAN
        /\ gone \subseteq Sessions /\ direct \subseteq Sessions /\ listed \subseteq Sessions
        /\ why \in [Sessions -> SUBSET {"gave-up", "broken", "reordered"}]
    BY <2>1 DEF ExecTypes, MoreTypes
  <2>3. registered \subseteq Sessions \ direct
    BY <2>1 DEF MoreTypes, Bounded
  <2>4. /\ queue \in [Sessions -> Seq(0..MaxItems)] /\ shown \in [Sessions -> Seq(1..MaxItems)]
        /\ got \in [Sessions -> Seq(1..MaxItems)]
    <3>1. queue = [s \in Sessions |-> queue[s]] /\ shown = [s \in Sessions |-> shown[s]]
          /\ got = [s \in Sessions |-> got[s]]
      BY <2>1 DEF ExecTypes, MoreTypes
    <3>2. \A s \in Sessions : /\ queue[s] \in Seq(0..MaxItems) /\ shown[s] \in Seq(1..MaxItems)
                              /\ got[s] \in Seq(1..MaxItems)
      BY <2>1 DEF Bounded
    <3> QED
      BY <3>1, <3>2
  <2>5. ASSUME NEW s \in Sessions
        PROVE  shell[s].said \in 0..MaxItems /\ typed[s] \in 0..MaxItems
    <3>1. shell[s].said + typed[s] <= MaxItems
      BY <2>1 DEF Bounded
    <3>2. shell[s].said \in Nat /\ typed[s] \in Nat
      BY <2>1 DEF ExecTypes, Shells
    <3> QED
      BY <2>n, <3>1, <3>2
  <2>6. typed \in [Sessions -> 0..MaxItems]
    <3>1. typed = [s \in Sessions |-> typed[s]]
      BY <2>1 DEF ExecTypes
    <3> QED
      BY <2>5, <3>1
  <2>7. shell \in [Sessions -> [at : {"none", "running", "ended", "over"}, said : 0..MaxItems,
                                owes : {"nothing", "ok", "error"}, ch : 0..MaxConns]]
    <3>1. shell \in [Sessions -> Shells]
      BY <2>1 DEF ExecTypes
    <3>2. ASSUME NEW s \in Sessions
          PROVE  shell[s] \in [at : {"none", "running", "ended", "over"}, said : 0..MaxItems,
                               owes : {"nothing", "ok", "error"}, ch : 0..MaxConns]
      <4>1. shell[s] \in Shells /\ shell[s].said \in 0..MaxItems
        BY <2>5, <3>1
      <4> QED
        BY <4>1 DEF Shells
    <3> DEFINE R == [at : {"none", "running", "ended", "over"}, said : 0..MaxItems,
                     owes : {"nothing", "ok", "error"}, ch : 0..MaxConns]
    <3>3. \A s \in Sessions : shell[s] \in R
      BY <3>2
    <3>4. shell = [s \in Sessions |-> shell[s]]
      BY <3>1
    <3> HIDE DEF R
    <3>5. shell \in [Sessions -> R]
      BY <3>3, <3>4
    <3> QED
      BY <3>5 DEF R
  <2>8. wire \subseteq Frame
    <3> SUFFICES ASSUME NEW m \in wire
                 PROVE  m \in Frame
      OBVIOUS
    <3>1. m \in Frames
      BY <2>1 DEF ExecTypes
    <3>2. m.sess \in Sessions /\ m \in Mail(m.sess)
      BY <3>1 DEF Frames, Mail
    <3>3. m.n \in 0..MaxItems + 1
      BY <2>1, <3>2 DEF Bounded, Fits
    <3> QED
      BY <3>1, <3>3 DEF Frames, Frame
  <2> QED
    BY <2>2, <2>3, <2>4, <2>6, <2>7, <2>8 DEF TypeOK
<1> QED
  BY <1>1, AlwaysFlows, PTL

\* The browser is sent the pieces of its own shell one after the other (agent.py 335,
\* channel_handlers.py 330), unless the connection broke or two workers handled two
\* pieces in the wrong order.
THEOREM OutputIsWhole == Spec => []NothingSkipped
<1>1. StreamIInv => NothingSkipped
  BY DEF StreamIInv, Flows, OutputFlows, Sound, NothingSkipped
<1> QED
  BY <1>1, AlwaysFlows, PTL

\* The shell reads the keys one after the other (channel_handlers.py 284), likewise.
THEOREM KeysAreRead == Spec => []KeysInOrder
<1>1. StreamIInv => KeysInOrder
  BY DEF StreamIInv, Flows, KeysArrive, Sound, KeysInOrder
<1> QED
  BY <1>1, AlwaysFlows, PTL

\* When all is quiet, a terminal whose shell is over has been told, unless its
\* connection broke (the finally clause of _read_loop, k8s/executor.py 872).
THEOREM EndsAreSeen == Spec => []EndIsSeen
<1>1. StreamIInv => EndIsSeen
  <2> SUFFICES ASSUME StreamIInv, NEW s \in Sessions, Quiet(s), shell[s].at = "over", "broken" \notin why[s]
               PROVE  handler[s] \in {"stopped", "over"}
    BY DEF EndIsSeen
  <2>1. Begins(s) /\ EndComes(s) /\ CallIsAnswered(s)
    BY DEF StreamIInv, Flows
  <2>2. Mail(s) = {} /\ queue[s] = <<>> /\ shell[s].owes = "nothing"
    BY DEF Quiet, Mail
  <2>3. ~Comes(s)
    <3>1. Len(queue[s]) = 0 /\ ~ \E i \in 1..0 : TRUE
      BY <2>2
    <3> QED
      BY <2>2, <3>1 DEF Comes
  <2>4. handler[s] # "open"
    BY <2>1, <2>3 DEF EndComes
  <2>5. handler[s] # "calling"
    BY <2>1, <2>2 DEF CallIsAnswered
  <2>6. handler[s] # "idle"
    BY <2>1 DEF Begins
  <2>7. handler[s] \in {"idle", "calling", "open", "stopped", "over"}
    BY DEF StreamIInv, ExecTypes
  <2> QED
    BY <2>4, <2>5, <2>6, <2>7
<1> QED
  BY <1>1, AlwaysFlows, PTL

\* When all is quiet, a terminal that is over has left no shell running, unless its
\* call was given up or its connection broke (agent.py 380, k8s/executor.py 907).
THEOREM ShellsAreClosed == Spec => []NoShellLeft
<1>1. StreamIInv => NoShellLeft
  <2> SUFFICES ASSUME StreamIInv, NEW s \in Sessions, Quiet(s), handler[s] = "over",
                      "gave-up" \notin why[s], "broken" \notin why[s]
               PROVE  shell[s].at # "running"
    BY DEF NoShellLeft
  <2>1. NothingLeft(s)
    BY DEF StreamIInv, Flows
  <2>2. Mail(s) = {}
    BY DEF Quiet, Mail
  <2> QED
    BY <2>1, <2>2 DEF NothingLeft
<1> QED
  BY <1>1, AlwaysFlows, PTL
==============================================================================
