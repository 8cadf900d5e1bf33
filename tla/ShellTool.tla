------------------------------ MODULE ShellTool ------------------------------
(***************************************************************************)
(* One execution of the shell tool: the checks before it, the child        *)
(* process with two reader threads that push its output over a channel,    *)
(* and the loop that accumulates it until the child exits, the time limit  *)
(* passes or the Stop button of its card fires. A process the command left *)
(* behind may hold the pipes open after the child is gone.                 *)
(***************************************************************************)
EXTENDS Naturals, Sequences, FiniteSets

CONSTANTS MAX_OUTPUT_SIZE, \* chunks of one stream that are kept
          MaxChunks        \* bound: chunks the command writes to a stream

Streams == {"stdout", "stderr"}

VARIABLES
  policy,    \* the agent's shell configuration against this command
  child,     \* "none", "runs", "exited" or "killed"
  heir,      \* a process of the command that outlives it and holds its pipes
  wrote,     \* chunks written, by stream
  inPipe,    \* of these, chunks no reader has read
  reader,    \* "reads" or "ended"
  channel,   \* chunks under way to the loop
  kept,      \* PipeState: chunks accumulated
  step,      \* the loop: "check", "loop", "drain", "done"
  elapsed,   \* the time limit has passed
  stop,      \* the call's token has fired
  outcome    \* what the call returned

shellVars == <<policy, child, heir, wrote, inPipe, reader, channel, kept, step, elapsed, stop, outcome>>

Policy == [enabled : BOOLEAN, dangerous : BOOLEAN, listed : {"empty", "match", "nomatch"}]

Init ==
  /\ policy \in Policy
  /\ child = "none" /\ heir = FALSE
  /\ wrote = [s \in Streams |-> 0] /\ inPipe = [s \in Streams |-> 0]
  /\ reader = [s \in Streams |-> "ended"]
  /\ channel = <<>> /\ kept = [s \in Streams |-> 0]
  /\ step = "check" /\ elapsed = FALSE /\ stop = FALSE /\ outcome = "none"

TypeOK ==
  /\ policy \in Policy
  /\ child \in {"none", "runs", "exited", "killed"} /\ {heir, elapsed, stop} \subseteq BOOLEAN
  /\ \A s \in Streams :
       /\ wrote[s] \in 0..MaxChunks /\ inPipe[s] \in 0..wrote[s]
       /\ kept[s] \in 0..MAX_OUTPUT_SIZE /\ reader[s] \in {"reads", "ended"}
  /\ channel \in Seq(Streams)
  /\ step \in {"check", "loop", "drain", "done"}
  /\ outcome \in {"none", "refused", "ok", "timeout", "cancelled", "failed"}

Return(what) == step' = "done" /\ outcome' = what

\* is_command_allowed: the switch, the dangerous patterns, then the allowlist, of
\* which an empty one allows the rest.
Allowed(p) == p.enabled /\ ~p.dangerous /\ p.listed # "nomatch"

\* execute_with_cancel up to the spawn, which may fail.
Start(spawned) ==
  /\ step = "check"
  /\ IF ~Allowed(policy) THEN Return("refused") /\ UNCHANGED <<child, reader>>
     ELSE IF ~spawned THEN Return("failed") /\ UNCHANGED <<child, reader>>
     ELSE /\ child' = "runs" /\ step' = "loop"
          /\ reader' = [s \in Streams |-> "reads"]
          /\ UNCHANGED outcome
  /\ UNCHANGED <<policy, heir, wrote, inPipe, channel, kept, elapsed, stop>>

-----------------------------------------------------------------------------
\* The command.

Writes(s) ==
  /\ child = "runs" \/ heir
  /\ wrote[s] < MaxChunks
  /\ wrote' = [wrote EXCEPT ![s] = @ + 1]
  /\ inPipe' = [inPipe EXCEPT ![s] = @ + 1]
  /\ UNCHANGED <<policy, child, heir, reader, channel, kept, step, elapsed, stop, outcome>>

Forks ==
  /\ child = "runs" /\ ~heir
  /\ heir' = TRUE
  /\ UNCHANGED <<policy, child, wrote, inPipe, reader, channel, kept, step, elapsed, stop, outcome>>

Exits ==
  /\ child = "runs"
  /\ child' = "exited"
  /\ UNCHANGED <<policy, heir, wrote, inPipe, reader, channel, kept, step, elapsed, stop, outcome>>

HeirExits ==
  /\ heir
  /\ heir' = FALSE
  /\ UNCHANGED <<policy, child, wrote, inPipe, reader, channel, kept, step, elapsed, stop, outcome>>

-----------------------------------------------------------------------------
\* spawn_reader: read and send; at the end of the pipe, or once the loop has gone,
\* the thread ends and drops its sender.

Reads(s) ==
  /\ reader[s] = "reads" /\ inPipe[s] > 0
  /\ inPipe' = [inPipe EXCEPT ![s] = @ - 1]
  /\ IF step = "done" THEN reader' = [reader EXCEPT ![s] = "ended"] /\ UNCHANGED channel
     ELSE channel' = Append(channel, s) /\ UNCHANGED reader
  /\ UNCHANGED <<policy, child, heir, wrote, kept, step, elapsed, stop, outcome>>

ReaderEnds(s) ==
  /\ reader[s] = "reads" /\ inPipe[s] = 0 /\ child # "runs" /\ ~heir
  /\ reader' = [reader EXCEPT ![s] = "ended"]
  /\ UNCHANGED <<policy, child, heir, wrote, inPipe, channel, kept, step, elapsed, stop, outcome>>

-----------------------------------------------------------------------------
\* The loop.

\* PipeState::append: what is past the cap is read and dropped.
Fed(chunks) ==
  [s \in Streams |->
     LET all == kept[s] + Cardinality({i \in DOMAIN chunks : chunks[i] = s})
     IN IF all > MAX_OUTPUT_SIZE THEN MAX_OUTPUT_SIZE ELSE all]

EndsEarlyVariant ==
  /\ step = "loop" /\ (elapsed \/ stop)
  /\ Return(IF elapsed THEN "timeout" ELSE "cancelled")
  /\ UNCHANGED <<policy, child, heir, wrote, inPipe, reader, channel, kept, elapsed, stop>>

DeafVariant ==
  /\ step = "loop" /\ elapsed
  /\ child' = IF child = "runs" THEN "killed" ELSE child
  /\ Return("timeout")
  /\ UNCHANGED <<policy, heir, wrote, inPipe, reader, channel, kept, elapsed, stop>>

\* The top of the loop: the child is killed and reaped.
EndsEarly ==
  /\ step = "loop" /\ (elapsed \/ stop)
  /\ child' = IF child = "runs" THEN "killed" ELSE child
  /\ Return(IF elapsed THEN "timeout" ELSE "cancelled")
  /\ UNCHANGED <<policy, heir, wrote, inPipe, reader, channel, kept, elapsed, stop>>

\* The rest of a pass: what the channel holds, then try_wait.
Pass ==
  /\ step = "loop"
  /\ channel # <<>> \/ child # "runs"
  /\ kept' = Fed(channel) /\ channel' = <<>>
  /\ step' = IF child = "runs" THEN "loop" ELSE "drain"
  /\ UNCHANGED <<policy, child, heir, wrote, inPipe, reader, elapsed, stop, outcome>>

\* try_wait fails: the child is killed, and not waited for.
WaitFails ==
  /\ step = "loop" /\ child = "runs"
  /\ child' = "killed"
  /\ kept' = Fed(channel) /\ channel' = <<>>
  /\ Return("failed")
  /\ UNCHANGED <<policy, heir, wrote, inPipe, reader, elapsed, stop>>

DrainedVariant ==
  /\ step = "drain"
  /\ kept' = Fed(channel) /\ channel' = <<>>
  /\ Return("ok")
  /\ UNCHANGED <<policy, child, heir, wrote, inPipe, reader, elapsed, stop>>

\* The child has exited: the rest of the channel, until both readers have ended.
\* Neither the time limit nor the token is looked at any more.
Drained ==
  /\ step = "drain"
  /\ \A s \in Streams : reader[s] = "ended"
  /\ kept' = Fed(channel) /\ channel' = <<>>
  /\ Return("ok")
  /\ UNCHANGED <<policy, child, heir, wrote, inPipe, reader, elapsed, stop>>

TimePasses ==
  /\ step \in {"loop", "drain"} /\ ~elapsed
  /\ elapsed' = TRUE
  /\ UNCHANGED <<policy, child, heir, wrote, inPipe, reader, channel, kept, step, stop, outcome>>

StopPressed ==
  /\ step \in {"loop", "drain"} /\ ~stop
  /\ stop' = TRUE
  /\ UNCHANGED <<policy, child, heir, wrote, inPipe, reader, channel, kept, step, elapsed, outcome>>

Next ==
  \/ \E spawned \in BOOLEAN : Start(spawned)
  \/ \E s \in Streams : Writes(s) \/ Reads(s) \/ ReaderEnds(s)
  \/ Forks \/ Exits \/ HeirExits
  \/ EndsEarly \/ Pass \/ WaitFails \/ Drained \/ TimePasses \/ StopPressed

Spec == Init /\ [][Next]_shellVars

-----------------------------------------------------------------------------
\* A command that ended by itself is reported with all it wrote, up to the cap, of
\* what it left behind as well.
OutputWhole ==
  outcome = "ok" =>
    \A s \in Streams : kept[s] = IF wrote[s] < MAX_OUTPUT_SIZE THEN wrote[s] ELSE MAX_OUTPUT_SIZE

\* A call that has returned leaves no child of its own running.
NoChildLeft == step = "done" => child # "runs"

ShellSound == TypeOK /\ OutputWhole /\ NoChildLeft

\* A call whose time is up, or that was stopped, returns: unless something the
\* command left behind holds its pipes.
LimitEnds == elapsed \/ stop ~> step = "done" \/ heir

=============================================================================
