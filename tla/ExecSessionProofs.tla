------------------------- MODULE ExecSessionProofs --------------------------
(***************************************************************************)
(* For every number of sessions, pieces of output, keys and connections: a *)
(* terminal is only ever stopped by the end of its own shell.               *)
(***************************************************************************)
EXTENDS ExecSession, TLAPS

Shells == [at : {"none", "running", "ended", "over"}, said : Nat,
           owes : {"nothing", "ok", "error"}, ch : 0..MaxConns]
Frames == [kind : {"open", "reply", "stdout", "stdin", "close"}, sess : Sessions, n : Nat, eof : BOOLEAN]

\* TypeOK without its bounds.
ExecTypes ==
  /\ handler \in [Sessions -> {"idle", "calling", "open", "stopped", "over"}]
  /\ queue \in [Sessions -> Seq(Nat)]
  /\ typed \in [Sessions -> Nat]
  /\ shell \in [Sessions -> Shells]
  /\ wire \subseteq Frames
  /\ conn \in 1..MaxConns

\* A session has no shell before it is opened.
NotOpenedYet == \A s \in Sessions : handler[s] = "idle" => shell[s].at = "none"

\* A request to open a shell on its way is the only one for its session.
OpenIsFirst ==
  \A m \in wire : m.kind = "open" =>
    m = Msg("open", m.sess, 0, FALSE) /\ shell[m.sess].at = "none" /\ handler[m.sess] # "idle"

\* What is pushed as the end of the output is, and nothing else is numbered 0.
EndIsReal ==
  \A m \in wire : m.kind = "stdout" => IF m.eof THEN shell[m.sess].at = "over" ELSE m.n # 0

\* So it is in the queue.
ZeroIsEnd == \A s \in Sessions : \A i \in 1..Len(queue[s]) : queue[s][i] = 0 => shell[s].at = "over"

IInv == ExecTypes /\ NotOpenedYet /\ OpenIsFirst /\ EndIsReal /\ ZeroIsEnd /\ OwnEnd

\* The initial states satisfy the invariant.
LEMMA InitIInv ==
  ASSUME Init
  PROVE  IInv
<1>1. <<>> \in Seq(Nat) /\ Len(<<>>) = 0
  OBVIOUS
<1>2. ExecTypes
  BY <1>1, ExecAssumption DEF Init, ExecTypes, Shells
<1> QED
  BY <1>1, <1>2 DEF Init, IInv, NotOpenedYet, OpenIsFirst, EndIsReal, ZeroIsEnd, OwnEnd

\* A frame has its type.
LEMMA MsgType ==
  ASSUME NEW kind \in {"open", "reply", "stdout", "stdin", "close"}, NEW s \in Sessions,
         NEW n \in Nat, NEW eof \in BOOLEAN
  PROVE  Msg(kind, s, n, eof) \in Frames
BY DEF Msg, Frames

\* Closing a session leaves shells.
LEMMA ClosedType ==
  ASSUME ExecTypes, NEW s \in Sessions, Closed(s)
  PROVE  shell' \in [Sessions -> Shells]
BY DEF ExecTypes, Closed, Shells

\* So does starting one.
LEMMA StartsType ==
  ASSUME ExecTypes, NEW s \in Sessions, NEW ok \in BOOLEAN, NEW owes \in {"nothing", "ok", "error"},
         Starts(s, ok, owes)
  PROVE  shell' \in [Sessions -> Shells]
<1> DEFINE started == [shell[s] EXCEPT !.at = IF ok THEN "running" ELSE "over", !.owes = owes, !.ch = conn]
<1>1. shell[s] \in Shells /\ conn \in 0..MaxConns
  BY ExecAssumption DEF ExecTypes
<1>2. started \in Shells
  BY <1>1 DEF Shells
<1>3. shell' = [shell EXCEPT ![s] = started]
  BY DEF Starts, ExecTypes
<1> HIDE DEF started
<1> QED
  BY <1>2, <1>3 DEF ExecTypes

\* The end of a handler: it is over, and at most its last frames are sent.
LEMMA FinishType ==
  ASSUME ExecTypes, NEW s \in Sessions, NEW frames \in SUBSET Frames, Finish(s, frames)
  PROVE  /\ shell' \in [Sessions -> Shells]
         /\ wire' \subseteq Frames
         /\ handler' = [handler EXCEPT ![s] = "over"]
<1>1. shell' \in [Sessions -> Shells]
  BY ClosedType DEF Finish, ExecTypes
<1>2. Msg("close", s, 0, FALSE) \in Frames
  BY MsgType
<1>3. wire' \subseteq Frames
  BY <1>2 DEF Finish, ExecTypes
<1> QED
  BY <1>1, <1>3 DEF Finish

\* What the shell says goes into the queue or on the wire.
LEMMA EmitsType ==
  ASSUME ExecTypes, NEW s \in Sessions, NEW n \in Nat, NEW eof \in BOOLEAN, Emits(s, n, eof)
  PROVE  queue' \in [Sessions -> Seq(Nat)] /\ wire' \subseteq Frames
<1>1. CASE s \in direct
  <2>1. Append(queue[s], IF eof THEN 0 ELSE n) \in Seq(Nat)
    BY DEF ExecTypes
  <2> QED
    BY <1>1, <2>1 DEF Emits, ExecTypes
<1>2. CASE s \notin direct
  <2>1. Msg("stdout", s, n, eof) \in Frames
    BY MsgType
  <2> QED
    BY <1>2, <2>1 DEF Emits, ExecTypes
<1> QED
  BY <1>1, <1>2

\* Every step keeps the types.
LEMMA ExecTypesStep ==
  ASSUME ExecTypes, [Next]_vars
  PROVE  ExecTypes'
<1> USE DEF ExecTypes
<1>1. ASSUME NEW s \in Sessions, Open(s)
      PROVE  ExecTypes'
  <2>1. Msg("open", s, 0, FALSE) \in Frames
    BY MsgType
  <2>2. wire' \subseteq Frames
    BY <1>1, <2>1 DEF Open, Sends
  <2>3. handler' \in [Sessions -> {"idle", "calling", "open", "stopped", "over"}]
    BY <1>1 DEF Open
  <2> QED
    BY <1>1, <2>2, <2>3 DEF Open, pod
<1>2. ASSUME NEW s \in Sessions, OpenDirect(s)
      PROVE  ExecTypes'
  <2>1. shell' \in [Sessions -> Shells]
    BY <1>2, StartsType DEF OpenDirect
  <2>2. handler' \in [Sessions -> {"idle", "calling", "open", "stopped", "over"}]
    BY <1>2 DEF OpenDirect
  <2> QED
    BY <1>2, <2>1, <2>2 DEF OpenDirect, channel
<1>3. ASSUME NEW s \in Sessions, GiveUp(s) \/ BrowserLeaves(s)
      PROVE  ExecTypes'
  BY <1>3 DEF GiveUp, BrowserLeaves, pod, channel
<1>4. ASSUME NEW s \in Sessions, Output(s)
      PROVE  ExecTypes'
  <2>0. shell[s].said + 1 \in Nat
    BY DEF Shells
  <2>1. shell' \in [Sessions -> Shells]
    <3>1. [shell[s] EXCEPT !.said = shell[s].said + 1] \in Shells
      BY <2>0 DEF Shells
    <3> QED
      BY <1>4, <3>1 DEF Output
  <2>2. Emits(s, shell[s].said + 1, FALSE)
    BY <1>4 DEF Output
  <2>3. queue' \in [Sessions -> Seq(Nat)] /\ wire' \subseteq Frames
    BY <2>0, <2>2, EmitsType
  <2> QED
    BY <1>4, <2>1, <2>3 DEF Output
<1>5. ASSUME NEW s \in Sessions, Exit(s)
      PROVE  ExecTypes'
  <2>1. shell' \in [Sessions -> Shells]
    BY <1>5 DEF Exit, Shells
  <2> QED
    BY <1>5, <2>1 DEF Exit, browser, channel
<1>6. ASSUME NEW s \in Sessions, Type(s)
      PROVE  ExecTypes'
  <2>1. typed' \in [Sessions -> Nat]
    BY <1>6 DEF Type
  <2>0. typed[s] + 1 \in Nat
    OBVIOUS
  <2>2. Msg("stdin", s, typed[s] + 1, FALSE) \in Frames
    BY <2>0, MsgType
  <2>3. CASE Finish(s, {Msg("stdin", s, typed[s] + 1, FALSE)})
    BY <1>6, <2>1, <2>2, <2>3, FinishType DEF Type
  <2>4. CASE UNCHANGED <<handler, shell>> /\ wire' \subseteq wire \union {Msg("stdin", s, typed[s] + 1, FALSE)}
    BY <1>6, <2>1, <2>2, <2>4 DEF Type
  <2> QED
    BY <1>6, <2>3, <2>4 DEF Type
<1>7. ASSUME NEW s \in Sessions, Reply(s)
      PROVE  ExecTypes'
  <2>1. shell' \in [Sessions -> Shells]
    BY <1>7 DEF Reply, Shells
  <2>2. Msg("reply", s, 1, FALSE) \in Frames /\ Msg("reply", s, 0, FALSE) \in Frames
    BY MsgType
  <2>3. wire' \subseteq Frames
    BY <1>7, <2>2 DEF Reply
  <2> QED
    BY <1>7, <2>1, <2>3 DEF Reply, browser
<1>8. ASSUME NEW s \in Sessions, ReadLoopEnds(s)
      PROVE  ExecTypes'
  <2>0. shell[s].said + 1 \in Nat
    BY DEF Shells
  <2>1. shell' \in [Sessions -> Shells]
    BY <1>8 DEF ReadLoopEnds, Shells
  <2>2. Emits(s, shell[s].said + 1, TRUE)
    BY <1>8 DEF ReadLoopEnds
  <2>3. queue' \in [Sessions -> Seq(Nat)] /\ wire' \subseteq Frames
    BY <2>0, <2>2, EmitsType
  <2> QED
    BY <1>8, <2>1, <2>3 DEF ReadLoopEnds
<1>9. ASSUME NEW s \in Sessions, Show(s)
      PROVE  ExecTypes'
  <2>1. queue' \in [Sessions -> Seq(Nat)]
    BY <1>9 DEF Show
  <2> QED
    BY <1>9, <2>1 DEF Show, pod, channel
<1>10. ASSUME NEW s \in Sessions, HangUp(s)
       PROVE  ExecTypes'
  BY <1>10, FinishType DEF HangUp
<1>11. ASSUME NEW m \in wire, HandleOpen(m)
       PROVE  ExecTypes'
  <2>1. m.sess \in Sessions
    BY DEF Frames
  <2>2. shell' \in [Sessions -> Shells]
    BY <1>11, <2>1, StartsType DEF HandleOpen
  <2> QED
    BY <1>11, <2>2 DEF HandleOpen, Handles, browser
<1>12. ASSUME NEW m \in wire, HandleReply(m)
       PROVE  ExecTypes'
  BY <1>12 DEF HandleReply, Handles, pod
<1>13. ASSUME NEW m \in wire, HandleStdout(m)
       PROVE  ExecTypes'
  <2>1. Item(m) \in Nat /\ m.sess \in Sessions
    BY DEF Item, Frames
  <2>2. Append(queue[m.sess], Item(m)) \in Seq(Nat)
    BY <2>1
  <2> QED
    BY <1>13, <2>2 DEF HandleStdout, Handles, pod
<1>14. ASSUME NEW m \in wire, HandleStdin(m)
       PROVE  ExecTypes'
  BY <1>14 DEF HandleStdin, Handles, browser
<1>15. ASSUME NEW m \in wire, HandleClose(m)
       PROVE  ExecTypes'
  <2>1. m.sess \in Sessions
    BY DEF Frames
  <2>2. shell' \in [Sessions -> Shells]
    BY <1>15, <2>1, ClosedType DEF HandleClose
  <2> QED
    BY <1>15, <2>2 DEF HandleClose, Handles, browser
<1>16. CASE Break \/ RestartHere
  BY <1>16 DEF Break, RestartHere, Down, browser, pod
<1>17. CASE Connect
  BY <1>17, ExecAssumption DEF Connect, browser, pod
<1>18. CASE RestartThere
  <2>1. shell' \in [Sessions -> Shells]
    BY <1>18 DEF RestartThere, Shells
  <2> QED
    BY <1>18, <2>1 DEF RestartThere, Down
<1>19. CASE UNCHANGED vars
  BY <1>19 DEF vars, browser, pod, channel
<1> QED
  BY <1>1, <1>2, <1>3, <1>4, <1>5, <1>6, <1>7, <1>8, <1>9, <1>10, <1>11, <1>12, <1>13, <1>14, <1>15,
     <1>16, <1>17, <1>18, <1>19 DEF Next
\* What a step may do to the shell of a session, which only ever moves on: it
\* starts with its opening, by the handler itself or by the request it sent.
ShellMoves(s) ==
  /\ shell[s].at = "over" => shell'[s].at = "over"
  /\ shell[s].at = "none" => \/ shell'[s].at = "none"
                             \/ handler[s] = "idle" /\ handler'[s] # "idle"
                             \/ Msg("open", s, 0, FALSE) \in wire \ wire'

LEMMA ShellsMoveOn ==
  ASSUME IInv, [Next]_vars
  PROVE  \A s \in Sessions : ShellMoves(s)
<1> USE DEF IInv, ExecTypes, ShellMoves
<1> SUFFICES ASSUME NEW s \in Sessions
             PROVE  ShellMoves(s)
  OBVIOUS
<1>1. CASE shell' = shell
  BY <1>1
<1>2. ASSUME NEW t \in Sessions, OpenDirect(t)
      PROVE  ShellMoves(s)
  <2>1. shell[t].at = "none"
    BY <1>2 DEF OpenDirect, NotOpenedYet
  <2>2. s # t => shell'[s] = shell[s]
    BY <1>2 DEF OpenDirect, Starts
  <2>3. handler[t] = "idle" /\ handler'[t] # "idle"
    BY <1>2 DEF OpenDirect
  <2> QED
    BY <2>1, <2>2, <2>3
<1>3. ASSUME NEW t \in Sessions, Reply(t) \/ Output(t)
      PROVE  ShellMoves(s)
  <2>1. CASE Reply(t)
    BY <2>1 DEF Reply, Shells
  <2>2. CASE Output(t)
    <3>1. shell'[s].at = shell[s].at
      BY <2>2 DEF Output, Shells
    <3> QED
      BY <3>1
  <2> QED
    BY <1>3, <2>1, <2>2
<1>4. ASSUME NEW t \in Sessions, Exit(t) \/ ReadLoopEnds(t)
      PROVE  ShellMoves(s)
  BY <1>4 DEF Exit, ReadLoopEnds, Shells
<1>5. ASSUME NEW t \in Sessions, Closed(t)
      PROVE  ShellMoves(s)
  BY <1>5 DEF Closed, Shells
<1>6. ASSUME NEW m \in wire, HandleOpen(m)
      PROVE  ShellMoves(s)
  <2>1. m = Msg("open", m.sess, 0, FALSE) /\ shell[m.sess].at = "none" /\ m.sess \in Sessions
    BY <1>6 DEF HandleOpen, Handles, OpenIsFirst, Frames
  <2>2. s # m.sess => shell'[s] = shell[s]
    BY <1>6 DEF HandleOpen, Starts
  <2>3. m \notin wire'
    BY <1>6 DEF HandleOpen, Handles
  <2> QED
    BY <2>1, <2>2, <2>3
<1>7. CASE RestartThere
  BY <1>7 DEF RestartThere, Shells
<1>8. ASSUME NEW t \in Sessions, Type(t) \/ HangUp(t)
      PROVE  shell' = shell \/ Closed(t)
  BY <1>8 DEF Type, HangUp, Finish
<1>9. ASSUME NEW m \in wire, HandleClose(m)
      PROVE  ShellMoves(s)
  <2>1. m.sess \in Sessions
    BY DEF Frames
  <2> QED
    BY <1>5, <1>9, <2>1 DEF HandleClose
<1>10. ASSUME NEW t \in Sessions, Open(t) \/ GiveUp(t) \/ BrowserLeaves(t) \/ Show(t)
       PROVE  shell' = shell
  BY <1>10 DEF Open, GiveUp, BrowserLeaves, Show, pod
<1>11. ASSUME NEW m \in wire, HandleReply(m) \/ HandleStdout(m) \/ HandleStdin(m)
       PROVE  shell' = shell
  BY <1>11 DEF HandleReply, HandleStdout, HandleStdin, pod
<1>12. ASSUME Break \/ Connect \/ RestartHere \/ UNCHANGED vars
       PROVE  shell' = shell
  BY <1>12 DEF Break, Connect, RestartHere, vars, pod
<1> QED
  BY <1>1, <1>2, <1>3, <1>4, <1>5, <1>6, <1>7, <1>8, <1>9, <1>10, <1>11, <1>12 DEF Next

\* A handler never goes back to the beginning, a browser that has left stays
\* away, and only the sender thread stops a handler: at the end of the output or
\* when the browser has left.
HandlerMoves(s) ==
  /\ handler[s] # "idle" => handler'[s] # "idle"
  /\ s \in gone => s \in gone'
  /\ handler'[s] = "stopped" => \/ handler[s] = "stopped"
                                \/ s \in gone
                                \/ queue[s] # <<>> /\ Head(queue[s]) = 0

LEMMA HandlersMoveOn ==
  ASSUME ExecTypes, [Next]_vars
  PROVE  \A s \in Sessions : HandlerMoves(s)
<1> USE DEF ExecTypes, HandlerMoves
<1> SUFFICES ASSUME NEW s \in Sessions
             PROVE  HandlerMoves(s)
  OBVIOUS
<1>1. CASE handler' = handler /\ (gone' = gone \/ \E t \in Sessions : gone' = gone \union {t})
  BY <1>1
<1>2. ASSUME NEW t \in Sessions, NEW v \in {"calling", "open", "over"},
             handler' = [handler EXCEPT ![t] = v], gone' = gone
      PROVE  HandlerMoves(s)
  BY <1>2
<1>3. ASSUME NEW t \in Sessions, Show(t)
      PROVE  HandlerMoves(s)
  BY <1>3 DEF Show
<1>4. ASSUME NEW t \in Sessions, Open(t)
      PROVE  \E v \in {"calling", "over"} : handler' = [handler EXCEPT ![t] = v] /\ gone' = gone
  BY <1>4 DEF Open
<1>5. ASSUME NEW t \in Sessions, OpenDirect(t)
      PROVE  \E v \in {"open", "over"} : handler' = [handler EXCEPT ![t] = v] /\ gone' = gone
  BY <1>5 DEF OpenDirect
<1>6. ASSUME NEW t \in Sessions, GiveUp(t) \/ HangUp(t)
      PROVE  handler' = [handler EXCEPT ![t] = "over"] /\ gone' = gone
  BY <1>6 DEF GiveUp, HangUp, Finish
<1>7. ASSUME NEW t \in Sessions, Type(t)
      PROVE  /\ gone' = gone
             /\ handler' = handler \/ handler' = [handler EXCEPT ![t] = "over"]
  BY <1>7 DEF Type, Finish
<1>8. ASSUME NEW m \in wire, HandleReply(m)
      PROVE  /\ gone' = gone
             /\ \/ handler' = handler
                \/ \E v \in {"open", "over"} : handler' = [handler EXCEPT ![m.sess] = v]
  BY <1>8 DEF HandleReply
<1>9. ASSUME NEW t \in Sessions, Output(t) \/ Exit(t) \/ Reply(t) \/ ReadLoopEnds(t)
      PROVE  handler' = handler /\ gone' = gone
  BY <1>9 DEF Output, Exit, Reply, ReadLoopEnds, browser
<1>10. ASSUME NEW t \in Sessions, BrowserLeaves(t)
       PROVE  handler' = handler /\ gone' = gone \union {t}
  BY <1>10 DEF BrowserLeaves
<1>11. ASSUME NEW m \in wire, HandleOpen(m) \/ HandleStdout(m) \/ HandleStdin(m) \/ HandleClose(m)
       PROVE  handler' = handler /\ gone' = gone
  BY <1>11 DEF HandleOpen, HandleStdout, HandleStdin, HandleClose, browser
<1>12. ASSUME Break \/ Connect \/ UNCHANGED vars
       PROVE  handler' = handler /\ gone' = gone
  BY <1>12 DEF Break, Connect, vars, browser
<1>13. CASE RestartHere \/ RestartThere
  BY <1>13 DEF RestartHere, RestartThere
<1>14. \A m \in wire : m.sess \in Sessions
  BY DEF Frames
<1> QED
  BY <1>1, <1>2, <1>3, <1>4, <1>5, <1>6, <1>7, <1>8, <1>9, <1>10, <1>11, <1>12, <1>13, <1>14 DEF Next

\* Where a frame of a step comes from: an opening, which is the first of its
\* session, the output of a shell, numbered from 1, or its end.
WireMoves ==
  \A m \in wire' \ wire :
    /\ m.kind = "open" => /\ m = Msg("open", m.sess, 0, FALSE)
                          /\ handler[m.sess] = "idle" /\ handler'[m.sess] # "idle"
                          /\ shell' = shell
    /\ m.kind = "stdout" => IF m.eof THEN shell'[m.sess].at = "over" ELSE m.n # 0

LEMMA FramesAreFresh ==
  ASSUME ExecTypes, [Next]_vars
  PROVE  WireMoves
<1> USE DEF ExecTypes, WireMoves
<1>1. ASSUME NEW s \in Sessions, Open(s)
      PROVE  WireMoves
  <2>1. wire' \subseteq wire \union {Msg("open", s, 0, FALSE)}
    BY <1>1 DEF Open, Sends
  <2>2. CASE up
    <3>1. handler[s] = "idle" /\ handler'[s] # "idle" /\ shell' = shell
      BY <1>1, <2>2 DEF Open, pod
    <3> QED
      BY <2>1, <3>1 DEF Msg
  <2>3. CASE ~up
    BY <1>1, <2>3 DEF Open, Sends
  <2> QED
    BY <2>2, <2>3
<1>2. ASSUME NEW s \in Sessions, Output(s)
      PROVE  WireMoves
  <2>1. wire' \subseteq wire \union {Msg("stdout", s, shell[s].said + 1, FALSE)}
    BY <1>2 DEF Output, Emits
  <2>2. shell[s].said + 1 # 0
    BY DEF Shells
  <2> QED
    BY <2>1, <2>2 DEF Msg
<1>3. ASSUME NEW s \in Sessions, ReadLoopEnds(s)
      PROVE  WireMoves
  <2>1. wire' \subseteq wire \union {Msg("stdout", s, shell[s].said + 1, TRUE)}
    BY <1>3 DEF ReadLoopEnds, Emits
  <2>2. shell'[s].at = "over"
    BY <1>3 DEF ReadLoopEnds, Shells
  <2> QED
    BY <2>1, <2>2 DEF Msg
<1>4. ASSUME NEW s \in Sessions, Type(s)
      PROVE  WireMoves
  <2>1. wire' \subseteq wire \union {Msg("stdin", s, typed[s] + 1, FALSE), Msg("close", s, 0, FALSE)}
    BY <1>4 DEF Type, Finish
  <2> QED
    BY <2>1 DEF Msg
<1>5. ASSUME NEW s \in Sessions, HangUp(s)
      PROVE  WireMoves
  <2>1. wire' \subseteq wire \union {Msg("close", s, 0, FALSE)}
    BY <1>5 DEF HangUp, Finish
  <2> QED
    BY <2>1 DEF Msg
<1>6. ASSUME NEW s \in Sessions, Reply(s)
      PROVE  WireMoves
  <2>1. wire' \subseteq wire \union {Msg("reply", s, 1, FALSE), Msg("reply", s, 0, FALSE)}
    BY <1>6 DEF Reply
  <2> QED
    BY <2>1 DEF Msg
<1>7. CASE wire' \subseteq wire
  BY <1>7
<1>8. ASSUME NEW s \in Sessions, OpenDirect(s) \/ GiveUp(s) \/ Exit(s) \/ BrowserLeaves(s) \/ Show(s)
      PROVE  wire' \subseteq wire
  BY <1>8 DEF OpenDirect, GiveUp, Exit, BrowserLeaves, Show, channel
<1>9. ASSUME NEW m \in wire, \/ HandleOpen(m) \/ HandleReply(m) \/ HandleStdout(m)
                             \/ HandleStdin(m) \/ HandleClose(m)
      PROVE  wire' \subseteq wire
  BY <1>9 DEF HandleOpen, HandleReply, HandleStdout, HandleStdin, HandleClose, Handles
<1>10. ASSUME Break \/ Connect \/ RestartHere \/ RestartThere \/ UNCHANGED vars
       PROVE  wire' \subseteq wire
  BY <1>10 DEF Break, Connect, RestartHere, RestartThere, Down, vars, channel
<1> QED
  BY <1>1, <1>2, <1>3, <1>4, <1>5, <1>6, <1>7, <1>8, <1>9, <1>10 DEF Next

\* What a step may do to the queue of a session: take its first item, or add one,
\* which is 0 only at the end of its output.
QueueMoves(s) ==
  \/ queue'[s] = queue[s]
  \/ queue[s] # <<>> /\ queue'[s] = Tail(queue[s])
  \/ \E item \in Nat : queue'[s] = Append(queue[s], item) /\ (item = 0 => shell'[s].at = "over")

LEMMA QueuesMoveOn ==
  ASSUME IInv, [Next]_vars
  PROVE  \A s \in Sessions : QueueMoves(s)
<1> USE DEF IInv, ExecTypes, QueueMoves
<1> SUFFICES ASSUME NEW s \in Sessions
             PROVE  QueueMoves(s)
  OBVIOUS
<1>1. CASE queue' = queue
  BY <1>1
<1>2. ASSUME NEW t \in Sessions, Output(t)
      PROVE  QueueMoves(s)
  <2>1. shell[t].said + 1 \in Nat /\ shell[t].said + 1 # 0
    BY DEF Shells
  <2>2. CASE queue' = [queue EXCEPT ![t] = Append(@, shell[t].said + 1)]
    BY <2>1, <2>2
  <2> QED
    BY <1>1, <1>2, <2>2 DEF Output, Emits
<1>3. ASSUME NEW t \in Sessions, ReadLoopEnds(t)
      PROVE  QueueMoves(s)
  <2>1. shell'[t].at = "over"
    BY <1>3 DEF ReadLoopEnds, Shells
  <2>2. CASE queue' = [queue EXCEPT ![t] = Append(@, 0)]
    BY <2>1, <2>2
  <2> QED
    BY <1>1, <1>3, <2>2 DEF ReadLoopEnds, Emits
<1>4. ASSUME NEW t \in Sessions, Show(t)
      PROVE  QueueMoves(s)
  BY <1>4 DEF Show
<1>5. ASSUME NEW m \in wire, HandleStdout(m)
      PROVE  QueueMoves(s)
  <2>1. m.sess \in Sessions /\ Item(m) \in Nat /\ m.kind = "stdout"
    BY <1>5 DEF Item, Frames, HandleStdout, Handles
  <2>2. Item(m) = 0 => shell[m.sess].at = "over"
    BY <2>1 DEF Item, EndIsReal
  <2>3. shell' = shell
    BY <1>5 DEF HandleStdout, pod
  <2>4. CASE queue' = [queue EXCEPT ![m.sess] = Append(@, Item(m))]
    BY <2>1, <2>2, <2>3, <2>4
  <2> QED
    BY <1>1, <1>5, <2>4 DEF HandleStdout
<1>6. ASSUME NEW t \in Sessions, \/ Open(t) \/ OpenDirect(t) \/ GiveUp(t) \/ Exit(t) \/ Type(t)
                                 \/ BrowserLeaves(t) \/ Reply(t) \/ HangUp(t)
      PROVE  queue' = queue
  BY <1>6 DEF Open, OpenDirect, GiveUp, Exit, Type, BrowserLeaves, Reply, HangUp, browser
<1>7. ASSUME NEW m \in wire, HandleOpen(m) \/ HandleReply(m) \/ HandleStdin(m) \/ HandleClose(m)
      PROVE  queue' = queue
  BY <1>7 DEF HandleOpen, HandleReply, HandleStdin, HandleClose, browser
<1>8. ASSUME Break \/ Connect \/ RestartHere \/ RestartThere \/ UNCHANGED vars
      PROVE  queue' = queue
  BY <1>8 DEF Break, Connect, RestartHere, RestartThere, vars, browser
<1> QED
  BY <1>1, <1>2, <1>3, <1>4, <1>5, <1>6, <1>7, <1>8 DEF Next

\* Every step keeps the invariant.
LEMMA StepIInv ==
  ASSUME IInv, [Next]_vars
  PROVE  IInv'
<1>1. ExecTypes /\ ExecTypes'
  BY ExecTypesStep DEF IInv
<1>2. \A s \in Sessions : ShellMoves(s) /\ HandlerMoves(s) /\ QueueMoves(s)
  BY ShellsMoveOn, HandlersMoveOn, QueuesMoveOn DEF IInv
<1>3. WireMoves
  BY FramesAreFresh DEF IInv
<1>4. \A m \in wire \union wire' : m.sess \in Sessions
  BY <1>1 DEF ExecTypes, Frames
<1>5. NotOpenedYet'
  <2> SUFFICES ASSUME NEW s \in Sessions, handler'[s] = "idle"
               PROVE  shell'[s].at = "none"
    BY DEF NotOpenedYet
  <2>1. handler[s] = "idle"
    BY <1>2 DEF HandlerMoves
  <2>2. shell[s].at = "none"
    BY <2>1 DEF IInv, NotOpenedYet
  <2>3. Msg("open", s, 0, FALSE) \notin wire
    BY <2>1 DEF IInv, OpenIsFirst, Msg
  <2> QED
    BY <1>2, <2>2, <2>3 DEF ShellMoves
<1>6. OpenIsFirst'
  <2> SUFFICES ASSUME NEW m \in wire', m.kind = "open"
               PROVE  m = Msg("open", m.sess, 0, FALSE) /\ shell'[m.sess].at = "none" /\ handler'[m.sess] # "idle"
    BY DEF OpenIsFirst, Msg
  <2>1. CASE m \in wire
    <3>1. m = Msg("open", m.sess, 0, FALSE) /\ shell[m.sess].at = "none" /\ handler[m.sess] # "idle"
      BY <2>1 DEF IInv, OpenIsFirst
    <3>2. Msg("open", m.sess, 0, FALSE) \in wire'
      BY <3>1
    <3> QED
      BY <1>2, <1>4, <3>1, <3>2 DEF ShellMoves, HandlerMoves
  <2>2. CASE m \notin wire
    <3>1. /\ m = Msg("open", m.sess, 0, FALSE)
          /\ handler[m.sess] = "idle" /\ handler'[m.sess] # "idle" /\ shell' = shell
      BY <1>3, <2>2 DEF WireMoves
    <3> QED
      BY <1>4, <3>1 DEF IInv, NotOpenedYet
  <2> QED
    BY <2>1, <2>2
<1>7. EndIsReal'
  <2> SUFFICES ASSUME NEW m \in wire', m.kind = "stdout"
               PROVE  IF m.eof THEN shell'[m.sess].at = "over" ELSE m.n # 0
    BY DEF EndIsReal
  <2>1. CASE m \in wire
    BY <1>2, <1>4, <2>1 DEF IInv, EndIsReal, ShellMoves
  <2>2. CASE m \notin wire
    BY <1>3, <2>2 DEF WireMoves
  <2> QED
    BY <2>1, <2>2
<1>8. ZeroIsEnd'
  <2> SUFFICES ASSUME NEW s \in Sessions, NEW i \in 1..Len(queue'[s]), queue'[s][i] = 0
               PROVE  shell'[s].at = "over"
    BY DEF ZeroIsEnd
  <2>1. queue[s] \in Seq(Nat)
    BY <1>1 DEF ExecTypes
  <2>2. \A j \in 1..Len(queue[s]) : queue[s][j] = 0 => shell'[s].at = "over"
    BY <1>2 DEF IInv, ZeroIsEnd, ShellMoves
  <2>3. CASE queue'[s] = queue[s]
    BY <2>2, <2>3
  <2>4. CASE queue[s] # <<>> /\ queue'[s] = Tail(queue[s])
    <3>1. i + 1 \in 1..Len(queue[s]) /\ queue[s][i + 1] = 0
      BY <2>1, <2>4
    <3> QED
      BY <2>2, <3>1
  <2>5. ASSUME NEW item \in Nat, queue'[s] = Append(queue[s], item), item = 0 => shell'[s].at = "over"
        PROVE  shell'[s].at = "over"
    <3>1. CASE i = Len(queue[s]) + 1
      BY <2>1, <2>5, <3>1
    <3>2. CASE i \in 1..Len(queue[s])
      BY <2>1, <2>2, <2>5, <3>2
    <3> QED
      BY <2>1, <2>5, <3>1, <3>2
  <2> QED
    BY <1>2, <2>3, <2>4, <2>5 DEF QueueMoves
<1>9. OwnEnd'
  <2> SUFFICES ASSUME NEW s \in Sessions, handler'[s] = "stopped", s \notin gone'
               PROVE  shell'[s].at = "over"
    BY DEF OwnEnd
  <2>1. HandlerMoves(s) /\ ShellMoves(s)
    BY <1>2
  <2>2. CASE handler[s] = "stopped"
    BY <2>1, <2>2 DEF HandlerMoves, ShellMoves, IInv, OwnEnd
  <2>3. CASE queue[s] # <<>> /\ Head(queue[s]) = 0
    <3>1. 1 \in 1..Len(queue[s]) /\ queue[s][1] = 0
      BY <1>1, <2>3 DEF ExecTypes
    <3> QED
      BY <2>1, <3>1 DEF IInv, ZeroIsEnd, ShellMoves
  <2> QED
    BY <2>1, <2>2, <2>3 DEF HandlerMoves
<1> QED
  BY <1>1, <1>5, <1>6, <1>7, <1>8, <1>9 DEF IInv

\* A terminal whose browser is there is stopped by the end of its own shell only,
\* never by that of an older session of the workload (channel_handlers.py 315).
THEOREM EndsAreOwn == Spec => []OwnEnd
<1>1. IInv => OwnEnd
  BY DEF IInv
<1>2. Init => IInv
  BY InitIInv
<1>3. IInv /\ [Next]_vars => IInv'
  BY StepIInv
<1> QED
  BY <1>1, <1>2, <1>3, PTL DEF Spec
=============================================================================
