---------------------------- MODULE McpTransport ----------------------------
(***************************************************************************)
(* Tool calls on one stdio MCP server: a call inserts its id into the      *)
(* pending map, writes its line and waits with a time limit; one reader    *)
(* task routes every answer by its id and empties the map when the server  *)
(* closes its output. The tool's own time limit lies around all of it and  *)
(* may drop the waiting call where it stands.                              *)
(***************************************************************************)
EXTENDS Naturals, Sequences, FiniteSets

CONSTANTS Calls,  \* calls of tools, each with an id of its own
          None

VARIABLES
  rpc,      \* where each call is
  pending,  \* ids with a waiter
  got,      \* the answer each waiter was sent: an id, None, or "closed"
  written,  \* request lines the server has not answered
  answers,  \* response lines the reader has not read
  output,   \* "up", "closed" (stdout closed) or "gone" (reader saw the end)
  killed,   \* the transport was killed
  dropped,  \* calls whose outer limit ended first
  late      \* history: calls written once the reader had seen the end

transportVars == <<rpc, pending, got, written, answers, output, killed, dropped, late>>

Init ==
  /\ rpc = [c \in Calls |-> "new"]
  /\ pending = {}
  /\ got = [c \in Calls |-> None]
  /\ written = {} /\ answers = <<>>
  /\ output = "up" /\ killed = FALSE /\ dropped = {} /\ late = {}

Waiting == {c \in Calls : rpc[c] = "waits"}

TypeOK ==
  /\ rpc \in [Calls -> {"new", "writes", "waits", "ok", "failed", "closed", "timeout", "notconnected"}]
  /\ pending \subseteq Calls /\ written \subseteq Calls /\ dropped \cup late \subseteq Calls
  /\ got \in [Calls -> Calls \cup {None, "closed"}]
  /\ answers \in Seq(Calls)
  /\ output \in {"up", "closed", "gone"} /\ killed \in BOOLEAN

Ends(c, how) == rpc' = [rpc EXCEPT ![c] = how]

\* call_tool_async takes the client while the server is connected; request
\* inserts its id before anything is written.
Request(c) ==
  /\ rpc[c] = "new"
  /\ IF killed THEN Ends(c, "notconnected") /\ UNCHANGED pending
     ELSE Ends(c, "writes") /\ pending' = pending \cup {c}
  /\ UNCHANGED <<got, written, answers, output, killed, dropped, late>>

\* write_line: the line reaches the server, is lost in the pipe of one that has
\* closed, or fails.
Write(c) ==
  /\ rpc[c] = "writes"
  /\ \/ Ends(c, "waits") /\ UNCHANGED pending
        /\ written' = IF output = "up" THEN written \cup {c} ELSE written
     \/ output # "up" /\ Ends(c, "failed") /\ pending' = pending \ {c} /\ UNCHANGED written
  /\ late' = IF output = "gone" THEN late \cup {c} ELSE late
  /\ UNCHANGED <<got, answers, output, killed, dropped>>

\* Servers answer in any order, notify, and write lines that are no answer (which
\* the reader skips).
ServerAnswers(c) ==
  /\ output = "up" /\ c \in written
  /\ written' = written \ {c}
  /\ answers' = Append(answers, c)
  /\ UNCHANGED <<rpc, pending, got, output, killed, dropped, late>>

ReadAnswerVariant ==
  /\ answers # <<>>
  /\ LET c == CHOOSE d \in pending \cup {Head(answers)} : TRUE
     IN /\ pending' = pending \ {c}
        /\ got' = IF c \in pending THEN [got EXCEPT ![c] = Head(answers)] ELSE got
  /\ answers' = Tail(answers)
  /\ UNCHANGED <<rpc, written, output, killed, dropped, late>>

\* The reader routes an answer to its waiter; without one it is dropped.
ReadAnswer ==
  /\ answers # <<>>
  /\ LET c == Head(answers)
     IN /\ pending' = pending \ {c}
        /\ got' = IF c \in pending THEN [got EXCEPT ![c] = c] ELSE got
  /\ answers' = Tail(answers)
  /\ UNCHANGED <<rpc, written, output, killed, dropped, late>>

\* The process ends, by itself or killed: by disconnect, or by a connect that
\* takes its place while calls are in flight.
ServerCloses ==
  /\ output = "up"
  /\ output' = "closed"
  /\ written' = {}
  /\ UNCHANGED <<rpc, pending, got, answers, killed, dropped, late>>

KillServer ==
  /\ ~killed
  /\ killed' = TRUE
  /\ output' = IF output = "up" THEN "closed" ELSE output
  /\ written' = {}
  /\ UNCHANGED <<rpc, pending, got, answers, dropped, late>>

ReadEndVariant ==
  /\ output = "closed" /\ answers = <<>>
  /\ output' = "gone"
  /\ UNCHANGED <<rpc, pending, got, written, answers, killed, dropped, late>>

\* End of the output: the waiters' senders are dropped.
ReadEnd ==
  /\ output = "closed" /\ answers = <<>>
  /\ output' = "gone"
  /\ got' = [c \in Calls |-> IF c \in pending THEN "closed" ELSE got[c]]
  /\ pending' = {}
  /\ UNCHANGED <<rpc, written, answers, killed, dropped, late>>

Receive(c) ==
  /\ rpc[c] = "waits" /\ got[c] # None
  /\ Ends(c, IF got[c] = "closed" THEN "closed" ELSE "ok")
  /\ UNCHANGED <<pending, got, written, answers, output, killed, dropped, late>>

TimeOutVariant(c) ==
  /\ rpc[c] = "waits" /\ got[c] = None
  /\ Ends(c, "timeout")
  /\ UNCHANGED <<pending, got, written, answers, output, killed, dropped, late>>

TimeOut(c) ==
  /\ rpc[c] = "waits" /\ got[c] = None
  /\ Ends(c, "timeout")
  /\ pending' = pending \ {c}
  /\ UNCHANGED <<got, written, answers, output, killed, dropped, late>>

\* McpTool::execute gives up first: the call is dropped with its id in the map.
OuterTimeOut(c) ==
  /\ rpc[c] \in {"writes", "waits"}
  /\ Ends(c, "timeout")
  /\ dropped' = dropped \cup {c}
  /\ UNCHANGED <<pending, got, written, answers, output, killed, late>>

Next ==
  \/ \E c \in Calls : \/ Request(c) \/ Write(c) \/ ServerAnswers(c) \/ Receive(c)
                      \/ TimeOut(c) \/ OuterTimeOut(c)
  \/ ReadAnswer \/ ServerCloses \/ KillServer \/ ReadEnd

Spec == Init /\ [][Next]_transportVars

-----------------------------------------------------------------------------
\* A call succeeds only with the answer to its own request, whatever answers come
\* late, out of order, or to calls that gave up (StdioTransport::spawn's reader).
OwnAnswer == \A c \in Calls : rpc[c] = "ok" => got[c] = c

\* Nobody waits on a map entry that no longer exists, and no entry outlives its
\* call, except that of a call the tool's own limit dropped (request).
PendingMeansWaiting ==
  /\ \A c \in Waiting : c \in pending \/ got[c] # None
  /\ \A c \in pending : rpc[c] \in {"writes", "waits"} \/ c \in dropped

\* Once the reader saw the end of the output, nobody who wrote before is still
\* waiting for an answer: only what is written later sits out its time limit.
EndToldWaiters == output = "gone" => \A c \in Waiting : got[c] # None \/ c \in late

=============================================================================
