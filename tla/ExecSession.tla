---------------------------- MODULE ExecSession -----------------------------
(***************************************************************************)
(* Interactive shells: the browser-facing WebSocket of agent.py            *)
(* (_exec_ws_handler), the remoteapp/exec-* handlers of channel_handlers.py *)
(* and the exec sessions of k8s/executor.py.                               *)
(*                                                                         *)
(* A session is opened at the cluster that runs the pod (direct), or at the *)
(* submitting cluster, which relays it over the peer channel.  Frames of   *)
(* one connection arrive or are lost with it; eight workers handle them in *)
(* any order.  Keys and output are numbered, 0 is the end of the output.   *)
(*                                                                         *)
(* `why` collects, for each session, the reasons the properties except.    *)
(* X_Slip is X with a slip a later edit could make; no behaviour has it.   *)
(***************************************************************************)
EXTENDS Naturals, Sequences, FiniteSets

CONSTANTS
  Sessions,    (* the session ids, each used once (uuid4)              *)
  MaxItems,    (* bound on the pieces of output and the keys, together *)
  MaxConns     (* bound on the connections                             *)

ASSUME ExecAssumption ==
  IsFiniteSet(Sessions) /\ MaxItems \in Nat /\ MaxConns \in Nat \ {0}

VARIABLES
  handler,     (* where the WebSocket's handler is; "stopped" is its event *)
  direct,      (* the sessions opened at the cluster of the pod            *)
  gone,        (* the sessions whose browser has left                      *)
  registered,  (* _exec_stdout_queues                                      *)
  queue,       (* out_q                                                    *)
  shown,       (* what the browser has been sent                           *)
  typed,       (* the keys typed so far                                    *)
  shell,       (* the shell and its read loop                              *)
  listed,      (* _exec_sessions                                           *)
  got,         (* the keys the shell has read                              *)
  wire,        (* frames on the connection                                 *)
  conn, up,    (* the connection, and whether it is up                     *)
  why          (* history: what has gone wrong for each session            *)

browser == <<handler, direct, gone, registered, queue, shown, typed>>
pod     == <<shell, listed, got>>
channel == <<wire, conn, up>>
vars == <<browser, pod, channel, why>>

\* The pieces and keys so far, as many for each session as it has said and typed.
Items == Cardinality({x \in Sessions \X (1..MaxItems) : x[2] <= shell[x[1]].said + typed[x[1]]})
Frame == [kind : {"open", "reply", "stdout", "stdin", "close"}, sess : Sessions, n : 0..MaxItems + 1,
          eof : BOOLEAN]

TypeOK ==
  /\ handler \in [Sessions -> {"idle", "calling", "open", "stopped", "over"}]
  /\ gone \subseteq Sessions /\ registered \subseteq Sessions \ direct /\ direct \subseteq Sessions /\ listed \subseteq Sessions
  /\ queue \in [Sessions -> Seq(0..MaxItems)] /\ shown \in [Sessions -> Seq(1..MaxItems)]
  /\ typed \in [Sessions -> 0..MaxItems] /\ got \in [Sessions -> Seq(1..MaxItems)]
  /\ shell \in [Sessions -> [at : {"none", "running", "ended", "over"}, said : 0..MaxItems,
                             owes : {"nothing", "ok", "error"}, ch : 0..MaxConns]]
  /\ wire \subseteq Frame /\ conn \in 1..MaxConns /\ up \in BOOLEAN
  /\ why \in [Sessions -> SUBSET {"gave-up", "broken", "reordered"}]

Init ==
  /\ handler = [s \in Sessions |-> "idle"] /\ direct = {} /\ gone = {} /\ registered = {}
  /\ queue = [s \in Sessions |-> <<>>] /\ shown = [s \in Sessions |-> <<>>]
  /\ typed = [s \in Sessions |-> 0] /\ got = [s \in Sessions |-> <<>>]
  /\ shell = [s \in Sessions |-> [at |-> "none", said |-> 0, owes |-> "nothing", ch |-> 0]]
  /\ listed = {} /\ wire = {} /\ conn = 1 /\ up = TRUE
  /\ why = [s \in Sessions |-> {}]

Msg(kind, s, n, eof) == [kind |-> kind, sess |-> s, n |-> n, eof |-> eof]

\* get_channel(peer).push(...), or nothing where it raises.
Sends(m) == wire' = IF up THEN wire \union {m} ELSE wire

\* A frame of the same session and kind was sent before m and is still there.
Overtakes(m) == \E e \in wire : e.sess = m.sess /\ e.kind = m.kind /\ e.n < m.n

Handles(m, kind) ==
  /\ m.kind = kind
  /\ wire' = wire \ {m}
  /\ why' = IF Overtakes(m) THEN [why EXCEPT ![m.sess] = @ \union {"reordered"}] ELSE why
  /\ UNCHANGED <<conn, up>>

-----------------------------------------------------------------------------
(* Opening.                                                                *)

\* The queue is not registered before the call, nor after it.
Open_Slip(s) ==
  /\ handler[s] = "idle" /\ up
  /\ handler' = [handler EXCEPT ![s] = "calling"]
  /\ Sends(Msg("open", s, 0, FALSE))
  /\ UNCHANGED <<direct, gone, registered, queue, shown, typed, pod, conn, up, why>>

\* The queue is registered before the call, so that no early output is dropped.
Open(s) ==
  /\ handler[s] = "idle"
  /\ IF up THEN /\ handler' = [handler EXCEPT ![s] = "calling"]
                /\ registered' = registered \union {s}
           ELSE /\ handler' = [handler EXCEPT ![s] = "over"]
                /\ UNCHANGED registered
  /\ Sends(Msg("open", s, 0, FALSE))
  /\ UNCHANGED <<direct, gone, queue, shown, typed, pod, conn, up, why>>

\* exec_open_session: no such pod, no stream, or a session and its read loop.
Starts(s, ok, owes) ==
  /\ shell' = [shell EXCEPT ![s].at = IF ok THEN "running" ELSE "over", ![s].owes = owes, ![s].ch = conn]
  /\ listed' = IF ok THEN listed \union {s} ELSE listed

OpenDirect_Slip(s) ==
  /\ handler[s] = "idle"
  /\ direct' = direct \union {s}
  /\ registered' = registered \union {s}   \* whose pushes never come
  /\ Starts(s, TRUE, "nothing") /\ handler' = [handler EXCEPT ![s] = "open"]
  /\ UNCHANGED <<gone, queue, shown, typed, got, channel, why>>

OpenDirect(s) ==
  /\ handler[s] = "idle"
  /\ direct' = direct \union {s}
  /\ \E ok \in BOOLEAN :
       Starts(s, ok, "nothing") /\ handler' = [handler EXCEPT ![s] = IF ok THEN "open" ELSE "over"]
  /\ UNCHANGED <<gone, registered, queue, shown, typed, got, channel, why>>

\* handle_remoteapp_exec_open keeps the channel the request came on.
HandleOpen(m) ==
  /\ Handles(m, "open")
  /\ Starts(m.sess, TRUE, "ok") \/ Starts(m.sess, FALSE, "error")
  /\ UNCHANGED <<browser, got>>

Live(s) == up /\ shell[s].ch = conn

\* The answer goes out on the connection of the request; 1 is success.
Reply(s) ==
  /\ shell[s].owes # "nothing"
  /\ shell' = [shell EXCEPT ![s].owes = "nothing"]
  /\ wire' = IF ~Live(s) THEN wire
             ELSE wire \union {Msg("reply", s, IF shell[s].owes = "ok" THEN 1 ELSE 0, FALSE)}
  /\ UNCHANGED <<browser, listed, got, conn, up, why>>

\* An answer to a call that was given up finds nobody.
HandleReply(m) ==
  /\ Handles(m, "reply")
  /\ IF handler[m.sess] # "calling" THEN UNCHANGED <<handler, registered>>
     ELSE /\ handler' = [handler EXCEPT ![m.sess] = IF m.n = 1 THEN "open" ELSE "over"]
          /\ registered' = IF m.n = 1 THEN registered ELSE registered \ {m.sess}
  /\ UNCHANGED <<direct, gone, queue, shown, typed, pod>>

\* call() raises, after 15 s or with the connection; no exec-close is sent.
GiveUp(s) ==
  /\ handler[s] = "calling"
  /\ handler' = [handler EXCEPT ![s] = "over"]
  /\ registered' = registered \ {s}
  /\ why' = [why EXCEPT ![s] = @ \union {"gave-up"}]
  /\ UNCHANGED <<direct, gone, queue, shown, typed, pod, channel>>

-----------------------------------------------------------------------------
(* Output: the read loop, the handler of its pushes, the sender thread.    *)

\* on_stdout: the queue itself, or a push on the channel kept, whose failure is
\* swallowed.
Emits(s, n, eof) ==
  IF s \in direct
  THEN /\ queue' = [queue EXCEPT ![s] = Append(@, IF eof THEN 0 ELSE n)]
       /\ UNCHANGED wire
  ELSE /\ wire' = IF Live(s) THEN wire \union {Msg("stdout", s, n, eof)} ELSE wire
       /\ UNCHANGED queue

Output(s) ==
  /\ shell[s].at = "running" /\ Items < MaxItems
  /\ shell' = [shell EXCEPT ![s].said = @ + 1]
  /\ Emits(s, shell[s].said + 1, FALSE)
  /\ UNCHANGED <<handler, direct, gone, registered, shown, typed, listed, got, conn, up, why>>

\* The shell ends by itself, or its stream breaks.
Exit(s) ==
  /\ shell[s].at = "running"
  /\ shell' = [shell EXCEPT ![s].at = "ended"]
  /\ UNCHANGED <<browser, listed, got, channel, why>>

\* The finally clause of _read_loop.
ReadLoopEnds(s) ==
  /\ shell[s].at = "ended"
  /\ shell' = [shell EXCEPT ![s].at = "over"]
  /\ Emits(s, shell[s].said + 1, TRUE)
  /\ listed' = listed \ {s}
  /\ UNCHANGED <<handler, direct, gone, registered, shown, typed, got, conn, up, why>>

Item(m) == IF m.eof THEN 0 ELSE m.n

\* Keyed by the workload alone: every session of it gets the piece.
HandleStdout_Slip(m) ==
  /\ Handles(m, "stdout")
  /\ queue' = [s \in Sessions |-> IF s \in registered THEN Append(queue[s], Item(m)) ELSE queue[s]]
  /\ UNCHANGED <<handler, direct, gone, registered, shown, typed, pod>>

HandleStdout(m) ==
  /\ Handles(m, "stdout")
  /\ queue' = IF m.sess \in registered THEN [queue EXCEPT ![m.sess] = Append(@, Item(m))] ELSE queue
  /\ UNCHANGED <<handler, direct, gone, registered, shown, typed, pod>>

\* _send_output; a failed send ends it like the end of the output.
Show(s) ==
  /\ handler[s] = "open" /\ queue[s] # <<>>
  /\ queue' = [queue EXCEPT ![s] = Tail(@)]
  /\ IF Head(queue[s]) = 0 \/ s \in gone
     THEN handler' = [handler EXCEPT ![s] = "stopped"] /\ UNCHANGED shown
     ELSE shown' = [shown EXCEPT ![s] = Append(@, Head(queue[s]))] /\ UNCHANGED handler
  /\ UNCHANGED <<direct, gone, registered, typed, pod, channel, why>>

-----------------------------------------------------------------------------
(* Input and closing.                                                      *)

\* exec_close_session takes the session out and sets its stop event.
Closed(s) ==
  /\ listed' = listed \ {s}
  /\ shell' = [shell EXCEPT ![s].at = IF s \in listed /\ @ = "running" THEN "ended" ELSE @]

\* The handler's finally clause, after the frames of this step.
Finish(s, frames) ==
  /\ handler' = [handler EXCEPT ![s] = "over"]
  /\ registered' = registered \ {s}
  /\ IF s \in direct THEN Closed(s) /\ UNCHANGED wire
     ELSE wire' = (IF up THEN wire \union frames \union {Msg("close", s, 0, FALSE)} ELSE wire)
          /\ UNCHANGED <<shell, listed>>

\* A key reaches the handler, which passes it on and goes round its loop, or is
\* over when it was stopped meanwhile or cannot pass the key on.
Type(s) ==
  LET key == Msg("stdin", s, typed[s] + 1, FALSE) IN
  /\ handler[s] \in {"open", "stopped"} /\ s \notin gone
  /\ Items < MaxItems
  /\ typed' = [typed EXCEPT ![s] = @ + 1]
  /\ got' = IF s \in direct /\ s \in listed THEN [got EXCEPT ![s] = Append(@, typed[s] + 1)] ELSE got
  /\ IF handler[s] = "open" /\ (IF s \in direct THEN s \in listed ELSE up)
     THEN /\ wire' = IF s \notin direct THEN wire \union {key} ELSE wire
          /\ UNCHANGED <<handler, registered, shell, listed>>
     ELSE Finish(s, {key})
  /\ UNCHANGED <<direct, gone, queue, shown, conn, up, why>>

\* Tried again after an error although the key had reached the shell.
HandleStdin_Slip(m) ==
  /\ m.kind = "stdin" /\ Len(got[m.sess]) < MaxItems
  /\ got' = IF m.sess \in listed THEN [got EXCEPT ![m.sess] = Append(@, m.n)] ELSE got
  /\ UNCHANGED <<browser, shell, listed, channel, why>>

\* exec_send_stdin raises where the session is over, which is logged.
HandleStdin(m) ==
  /\ Handles(m, "stdin")
  /\ got' = IF m.sess \in listed THEN [got EXCEPT ![m.sess] = Append(@, m.n)] ELSE got
  /\ UNCHANGED <<browser, shell, listed>>

BrowserLeaves(s) ==
  /\ handler[s] # "idle" /\ s \notin gone
  /\ gone' = gone \union {s}
  /\ UNCHANGED <<handler, direct, registered, queue, shown, typed, pod, channel, why>>

HangUp_Slip(s) ==
  /\ handler[s] \in {"open", "stopped"} /\ s \in gone
  /\ handler' = [handler EXCEPT ![s] = "over"]
  /\ registered' = registered \ {s}
  /\ UNCHANGED <<direct, gone, queue, shown, typed, pod, channel, why>>

\* ws.receive() returns None or raises.
HangUp(s) ==
  /\ handler[s] \in {"open", "stopped"} /\ s \in gone
  /\ Finish(s, {})
  /\ UNCHANGED <<direct, gone, queue, shown, typed, got, conn, up, why>>

HandleClose(m) ==
  /\ Handles(m, "close")
  /\ Closed(m.sess)
  /\ UNCHANGED <<browser, got>>

-----------------------------------------------------------------------------
(* Failures.                                                               *)

\* The relayed sessions that have begun have lost their connection.
Down ==
  /\ up' = FALSE /\ wire' = {}
  /\ why' = [s \in Sessions |-> IF s \notin direct /\ handler[s] # "idle" THEN why[s] \union {"broken"} ELSE why[s]]
  /\ UNCHANGED conn

Break == up /\ Down /\ UNCHANGED <<browser, pod>>

\* A new Channel, under the peer's name.
Connect ==
  /\ ~up /\ conn < MaxConns
  /\ conn' = conn + 1 /\ up' = TRUE
  /\ UNCHANGED <<browser, pod, wire, why>>

\* The submitting agent restarts: its WebSockets are gone.
RestartHere ==
  /\ up /\ Down
  /\ handler' = [s \in Sessions |-> IF s \notin direct /\ handler[s] # "idle" THEN "over" ELSE handler[s]]
  /\ registered' = {}
  /\ UNCHANGED <<direct, gone, queue, shown, typed, pod>>

\* The agent that runs the shells does; its streams end with it.
RestartThere ==
  /\ up /\ Down
  /\ shell' = [s \in Sessions |-> IF shell[s].at = "none" THEN shell[s]
                                  ELSE [shell[s] EXCEPT !.at = "over", !.owes = "nothing"]]
  /\ listed' = {}
  /\ handler' = [s \in Sessions |-> IF s \in direct /\ handler[s] # "idle" THEN "over" ELSE handler[s]]
  /\ UNCHANGED <<direct, gone, registered, queue, shown, typed, got>>

Next ==
  \/ \E s \in Sessions : \/ Open(s) \/ OpenDirect(s) \/ GiveUp(s) \/ Output(s)
                         \/ Exit(s) \/ Type(s) \/ BrowserLeaves(s)
                         \/ Reply(s) \/ ReadLoopEnds(s) \/ Show(s) \/ HangUp(s)
  \/ \E m \in wire : \/ HandleOpen(m) \/ HandleReply(m) \/ HandleStdout(m)
                     \/ HandleStdin(m) \/ HandleClose(m)
  \/ Break \/ Connect \/ RestartHere \/ RestartThere

Spec == Init /\ [][Next]_vars

-----------------------------------------------------------------------------
(* Properties.                                                             *)

Numbered(seq) == \A i \in 1..Len(seq) : seq[i] = i

\* The browser sees the shell's output from its first piece on, none skipped,
\* repeated or of another shell, unless its connection broke or the workers
\* handled two pieces in the wrong order.
NothingSkipped ==
  \A s \in Sessions : why[s] \cap {"broken", "reordered"} = {} => Numbered(shown[s])

\* The shell reads the keys in the order they were typed, likewise.
KeysInOrder ==
  \A s \in Sessions : why[s] \cap {"broken", "reordered"} = {} => Numbered(got[s])

\* A terminal is stopped by the end of its own shell, never by that of an older
\* session of the workload.
OwnEnd ==
  \A s \in Sessions : handler[s] = "stopped" /\ s \notin gone => shell[s].at = "over"

\* Nothing on its way for s, and no thread with something to do for it.
Quiet(s) ==
  /\ \A m \in wire : m.sess # s
  /\ queue[s] = <<>> /\ shell[s].owes = "nothing" /\ shell[s].at # "ended"

\* The end of a shell stops its terminal in the end, unless its connection broke.
EndIsSeen ==
  \A s \in Sessions :
    Quiet(s) /\ shell[s].at = "over" /\ "broken" \notin why[s] => handler[s] \in {"stopped", "over"}

\* A terminal that is over leaves no shell behind, unless the call that opened it
\* had been given up or its connection broke: nothing else ever closes it.
NoShellLeft ==
  \A s \in Sessions :
    Quiet(s) /\ handler[s] = "over" /\ why[s] \cap {"gave-up", "broken"} = {} => shell[s].at # "running"
=============================================================================
