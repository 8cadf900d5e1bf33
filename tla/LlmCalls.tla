------------------------------ MODULE LlmCalls ------------------------------
(***************************************************************************)
(* Calls that share one ChatClient: the retries of a request, the second   *)
(* request after an overflow, the characters noted for it, the calibrated  *)
(* ratio of characters to tokens, the usage log, and the feature test of   *)
(* the token-count endpoint. A request is named by its call and by whether *)
(* it is the call's first or, trimmed, its second; the ratio is the pair   *)
(* of the requests its two numbers came from.                              *)
(***************************************************************************)
EXTENDS Naturals

CONSTANTS Callers,  \* concurrent calls: an agent's stream, the judge, memory, evaluations
          None

MAX_TRANSIENT_RETRIES == 3

VARIABLES
  streaming, \* the calls that stream, with a cancel token; the others have neither
  state,     \* where each call is
  request,   \* 1, or 2 once trimmed
  attempt,   \* of the request under way
  cancelled, \* cancel tokens that fired
  lateTries, \* history: attempts begun after that
  noted,     \* last_prompt_chars: the request they were counted of
  ratio,     \* chars_per_token_x100
  tokenizer, \* input_tokens_supported: "yes" of a server that has it, else "unknown" and then "no"
  usage,     \* entries of the usage log, by call
  shared     \* history: a request was noted while another call had one under way

llmVars == <<streaming, state, request, attempt, cancelled, lateTries, noted, ratio,
             tokenizer, usage, shared>>

Requests == Callers \X (1..2)
Live == {"sent", "answered", "backoff", "reading"}

Init ==
  /\ streaming \in SUBSET Callers
  /\ state = [c \in Callers |-> "idle"]
  /\ request = [c \in Callers |-> 1]
  /\ attempt = [c \in Callers |-> 0]
  /\ cancelled = {} /\ lateTries = [c \in Callers |-> 0]
  /\ noted = None /\ ratio = None
  /\ tokenizer \in {"yes", "unknown"}
  /\ usage = [c \in Callers |-> 0]
  /\ shared = FALSE

TypeOK ==
  /\ streaming \subseteq Callers /\ cancelled \subseteq streaming
  /\ state \in [Callers -> Live \cup {"idle", "counting", "ok", "failed", "cancelled"}]
  /\ request \in [Callers -> 1..2]
  /\ attempt \in [Callers -> 0..(MAX_TRANSIENT_RETRIES + 1)]
  /\ noted \in Requests \cup {None}
  /\ ratio = None \/ ratio \in [chars : Requests, tokens : Requests]
  /\ tokenizer \in {"yes", "unknown", "no"} /\ shared \in BOOLEAN

Moves(c, to) == state' = [state EXCEPT ![c] = to]

\* exact_prompt_tokens: an agent that is about to stream may ask for the exact
\* count, as long as the endpoint is not known to be missing.
CountTokens(c) ==
  /\ c \in streaming /\ state[c] = "idle" /\ tokenizer # "no"
  /\ Moves(c, "counting")
  /\ UNCHANGED <<streaming, request, attempt, cancelled, lateTries, noted, ratio, tokenizer,
                 usage, shared>>

\* 404 or 501 switches the endpoint off for the life of the client; any other
\* failure does not. The count changes nothing else.
Counted(c) ==
  /\ state[c] = "counting"
  /\ Moves(c, "idle")
  /\ \/ tokenizer # "yes" /\ tokenizer' = "no"
     \/ UNCHANGED tokenizer
  /\ UNCHANGED <<streaming, request, attempt, cancelled, lateTries, noted, ratio, usage, shared>>

\* note_prompt_chars, then the first attempt is on its way.
Notes(c, r) ==
  /\ noted' = <<c, r>>
  /\ shared' = (shared \/ \E d \in Callers \ {c} : state[d] \in Live)

Tries(c) == lateTries' = IF c \in cancelled THEN [lateTries EXCEPT ![c] = @ + 1] ELSE lateTries

Begin(c) ==
  /\ state[c] = "idle"
  /\ Moves(c, "sent")
  /\ attempt' = [attempt EXCEPT ![c] = 1]
  /\ Notes(c, 1) /\ Tries(c)
  /\ UNCHANGED <<streaming, request, cancelled, ratio, tokenizer, usage>>

Cancel(c) ==
  /\ c \in streaming \ cancelled
  /\ cancelled' = cancelled \cup {c}
  /\ UNCHANGED <<streaming, state, request, attempt, lateTries, noted, ratio, tokenizer,
                 usage, shared>>

TransientVariant(c) ==
  /\ state[c] = "sent"
  /\ Moves(c, "backoff")
  /\ UNCHANGED <<streaming, request, attempt, cancelled, lateTries, noted, ratio, tokenizer,
                 usage, shared>>

\* 502, 503, 504 or no connection: a pause, until the attempts are used up. A token
\* that has fired before ends the pause at once.
Transient(c) ==
  /\ state[c] = "sent"
  /\ Moves(c, CASE attempt[c] = MAX_TRANSIENT_RETRIES + 1 -> "failed"
                [] attempt[c] <= MAX_TRANSIENT_RETRIES /\ c \in cancelled -> "cancelled"
                [] OTHER -> "backoff")
  /\ UNCHANGED <<streaming, request, attempt, cancelled, lateTries, noted, ratio, tokenizer,
                 usage, shared>>

\* The pause ends. When the token fires at its very end the select takes either
\* branch.
Retry(c) ==
  /\ state[c] = "backoff"
  /\ Moves(c, "sent")
  /\ attempt' = [attempt EXCEPT ![c] = @ + 1]
  /\ Tries(c)
  /\ UNCHANGED <<streaming, request, cancelled, noted, ratio, tokenizer, usage, shared>>

\* The token is looked at in the pauses and while the stream is read, not while an
\* answer is awaited.
Cancelled(c) ==
  /\ state[c] \in {"backoff", "reading"} /\ c \in cancelled
  /\ Moves(c, "cancelled")
  /\ UNCHANGED <<streaming, request, attempt, cancelled, lateTries, noted, ratio, tokenizer,
                 usage, shared>>

Refused(c) ==
  /\ state[c] = "sent"
  /\ Moves(c, "failed")
  /\ UNCHANGED <<streaming, request, attempt, cancelled, lateTries, noted, ratio, tokenizer,
                 usage, shared>>

OverflowVariant(c) ==
  /\ state[c] = "sent" /\ request[c] = 1
  /\ ratio' = [chars |-> noted, tokens |-> <<c, 1>>]
  /\ request' = [request EXCEPT ![c] = 2]
  /\ attempt' = [attempt EXCEPT ![c] = 1]
  /\ Tries(c)
  /\ UNCHANGED <<streaming, state, cancelled, noted, shared, tokenizer, usage>>

\* overflow_retry_char_budget: the characters noted last over the tokens of the
\* request the server refused.
MeasureRefused(c) == ratio' = [chars |-> noted, tokens |-> <<c, 1>>]

\* The prompt is over the context: the ratio is measured on the request that failed,
\* and the trimmed request gets one go. For a stream the agent loop does it.
Overflow(c) ==
  /\ state[c] = "sent" /\ request[c] = 1
  /\ MeasureRefused(c)
  /\ request' = [request EXCEPT ![c] = 2]
  /\ attempt' = [attempt EXCEPT ![c] = 1]
  /\ Notes(c, 2) /\ Tries(c)
  /\ UNCHANGED <<streaming, state, cancelled, tokenizer, usage>>

\* The answer: a stream is read on, any other call has it whole.
Headers(c) ==
  /\ state[c] = "sent"
  /\ Moves(c, IF c \in streaming THEN "reading" ELSE "answered")
  /\ UNCHANGED <<streaming, request, attempt, cancelled, lateTries, noted, ratio, tokenizer,
                 usage, shared>>

StreamBreaks(c) ==
  /\ state[c] = "reading"
  /\ Moves(c, "failed")
  /\ UNCHANGED <<streaming, request, attempt, cancelled, lateTries, noted, ratio, tokenizer,
                 usage, shared>>

\* record_usage and calibrate_from_usage.
RecordUsage(c) == usage' = [usage EXCEPT ![c] = @ + 1]
Calibrate(c) == ratio' = [chars |-> noted, tokens |-> <<c, request[c]>>]

\* With what the server reported, if anything. A retry that succeeded calibrates twice, to the same result. A stream's usage is
\* calibrated by the agent loop.
Done(c) ==
  /\ state[c] \in {"reading", "answered"}
  /\ Moves(c, "ok")
  /\ \/ RecordUsage(c) /\ Calibrate(c)
     \/ UNCHANGED <<usage, ratio>>
  /\ UNCHANGED <<streaming, request, attempt, cancelled, lateTries, noted, tokenizer, shared>>

Next ==
  \E c \in Callers :
    \/ CountTokens(c) \/ Counted(c) \/ Begin(c) \/ Cancel(c) \/ Transient(c) \/ Retry(c)
    \/ Cancelled(c) \/ Refused(c) \/ Overflow(c) \/ Headers(c) \/ StreamBreaks(c) \/ Done(c)

Spec == Init /\ [][Next]_llmVars

-----------------------------------------------------------------------------
\* The ratio relates the characters and the tokens of one request, unless calls of
\* one client overlap: then the answer to one is measured against the other.
RatioOfOneRequest == ~shared /\ ratio # None => ratio.chars = ratio.tokens

\* A request is tried at most four times, and at most once after its cancel; the
\* second request of a call is its trimmed one.
TriesBounded ==
  \A c \in Callers :
    /\ attempt[c] <= MAX_TRANSIENT_RETRIES + 1
    /\ lateTries[c] <= request[c]

\* The log has a call once, and only when it succeeded.
UsageOnce == \A c \in Callers : usage[c] <= (IF state[c] = "ok" THEN 1 ELSE 0)

CallsAccounted == TypeOK /\ RatioOfOneRequest /\ TriesBounded /\ UsageOnce

=============================================================================
