------------------------------- MODULE MC_Tools -------------------------------
(***************************************************************************)
(* The LLM client, the restart and the tools that work on text, side by    *)
(* side: each behaviour is one of one part, the variable part says which.  *)
(* The parts share no state in these modules.                              *)
(***************************************************************************)
EXTENDS Naturals, Sequences, FiniteSets

CONSTANTS
  NoOne, Ids, MaxFrames, Callers, Words, MaxLines, MAX_LINES, Calls,
  Alphabets, MaxText, Backends, Queries, Limits, Ttl, MaxTime, MaxAsked,
  ItemKinds, MaxItems, Parts, MaxParts, Sessions, MaxProcesses, MaxAsks,
  Dirs, Default, Scanners, Turns, MaxBuilds

VARIABLES part,
  dialect, asked, frames, unread, half, broken, text, made, tracked, sse,
  streaming, state, request, attempt, cancelled, lateTries, noted, ratio,
  tokenizer, usage, shared,
  proc, spawns, ask, asks, marker, stored, markers, resumed, ungated,
  file, edit, result,
  files, torn, temps, fcall, owed, mixed,
  alphabet, written,
  backend, cache, call, clock, searched,
  response, parts,
  contents, paths, entry, boot, scan, exec, builds

Stream == INSTANCE SseStream WITH
  outcome <- sse, None <- NoOne
Llm == INSTANCE LlmCalls WITH
  None <- NoOne
Reboot == INSTANCE Restart WITH
  None <- NoOne
Files == INSTANCE FileTools WITH
  None <- NoOne
Sum == INSTANCE Calculation
Web == INSTANCE WebTools WITH
  asked <- searched
Tools == INSTANCE Registry

sseVars ==
  <<dialect, asked, frames, unread, half, broken, text, made, tracked, sse>>
llmVars ==
  <<streaming, state, request, attempt, cancelled, lateTries, noted, ratio,
    tokenizer, usage, shared>>
restartVars ==
  <<proc, spawns, ask, asks, marker, stored, markers, resumed, ungated>>
textVars == <<file, edit, result>>
filesVars == <<files, torn, temps, fcall, owed, mixed>>
sumsVars == <<alphabet, written>>
searchVars == <<backend, cache, call, clock, searched>>
pageVars == <<response, parts>>
toolsVars == <<contents, paths, entry, boot, scan, exec, builds>>
vars ==
  <<part, sseVars, llmVars, restartVars, textVars, filesVars, sumsVars,
    searchVars, pageVars, toolsVars>>

\* A part that stands still: its variables are of no interest.
Init ==
  /\ part \in {"sse", "llm", "restart", "text", "files", "sums", "search", "page", "tools"}
  /\ IF part = "sse" THEN Stream!Init
     ELSE dialect = 0 /\ asked = 0 /\ frames = 0 /\ unread = 0 /\
          half = 0 /\ broken = 0 /\ text = 0 /\ made = 0 /\ tracked = 0 /\
          sse = 0
  /\ IF part = "llm" THEN Llm!Init
     ELSE streaming = 0 /\ state = 0 /\ request = 0 /\ attempt = 0 /\
          cancelled = 0 /\ lateTries = 0 /\ noted = 0 /\ ratio = 0 /\
          tokenizer = 0 /\ usage = 0 /\ shared = 0
  /\ IF part = "restart" THEN Reboot!Init
     ELSE proc = 0 /\ spawns = 0 /\ ask = 0 /\ asks = 0 /\ marker = 0 /\
          stored = 0 /\ markers = 0 /\ resumed = 0 /\ ungated = 0
  /\ IF part = "text" THEN Files!EditInit
     ELSE file = 0 /\ edit = 0 /\ result = 0
  /\ IF part = "files" THEN Files!Init
     ELSE files = 0 /\ torn = 0 /\ temps = 0 /\ fcall = 0 /\ owed = 0 /\
          mixed = 0
  /\ IF part = "sums" THEN Sum!Init
     ELSE alphabet = 0 /\ written = 0
  /\ IF part = "search" THEN Web!Init
     ELSE backend = 0 /\ cache = 0 /\ call = 0 /\ clock = 0 /\ searched = 0
  /\ IF part = "page" THEN Web!FetchInit
     ELSE response = 0 /\ parts = 0
  /\ IF part = "tools" THEN Tools!Init
     ELSE contents = 0 /\ paths = 0 /\ entry = 0 /\ boot = 0 /\ scan = 0 /\
          exec = 0 /\ builds = 0

Next ==
  \/ /\ part = "sse" /\ Stream!Next
     /\ UNCHANGED <<part, llmVars, restartVars, textVars, filesVars, sumsVars,
                  searchVars, pageVars, toolsVars>>
  \/ /\ part = "llm" /\ Llm!Next
     /\ UNCHANGED <<part, sseVars, restartVars, textVars, filesVars, sumsVars,
                  searchVars, pageVars, toolsVars>>
  \/ /\ part = "restart" /\ Reboot!Next
     /\ UNCHANGED <<part, sseVars, llmVars, textVars, filesVars, sumsVars,
                  searchVars, pageVars, toolsVars>>
  \/ /\ part = "text" /\ Files!EditNext
     /\ UNCHANGED <<part, sseVars, llmVars, restartVars, filesVars, sumsVars,
                  searchVars, pageVars, toolsVars>>
  \/ /\ part = "files" /\ Files!Next
     /\ UNCHANGED <<part, sseVars, llmVars, restartVars, textVars, sumsVars,
                  searchVars, pageVars, toolsVars>>
  \/ /\ part = "sums" /\ Sum!Next
     /\ UNCHANGED <<part, sseVars, llmVars, restartVars, textVars, filesVars,
                  searchVars, pageVars, toolsVars>>
  \/ /\ part = "search" /\ Web!Next
     /\ UNCHANGED <<part, sseVars, llmVars, restartVars, textVars, filesVars,
                  sumsVars, pageVars, toolsVars>>
  \/ /\ part = "page" /\ Web!FetchNext
     /\ UNCHANGED <<part, sseVars, llmVars, restartVars, textVars, filesVars,
                  sumsVars, searchVars, toolsVars>>
  \/ /\ part = "tools" /\ Tools!Next
     /\ UNCHANGED <<part, sseVars, llmVars, restartVars, textVars, filesVars,
                  sumsVars, searchVars, pageVars>>

-----------------------------------------------------------------------------

\* A streamed answer becomes the message the server sent, its calls are reported
\* whole and once, and a call to the server is tried, logged and measured as it
\* should be, whatever fails (stream_message, send_with_transient_retries).
LlmFaithful ==
  /\ part = "sse" => Stream!StreamFaithful
  /\ part = "llm" => Llm!CallsAccounted

\* An edit changes the place it names and nothing else, and what parallel file calls
\* report is there (the file tool's operations). An expression has the value its
\* grammar gives (calculation), a search is answered for its own query and fails only
\* where every backend failed (web_search), a page is read as it is meant (fetch_url). A
\* restart resumes once, launches only what was built and tested, and leaves no one
\* without a successor (the restart tool, perform_restart, consume_restart_marker). A
\* call reaches the tool it names, of a registry that plugin files and servers change
\* meanwhile (ToolRegistry, ToolManager, PluginLoader).
ToolsRight ==
  /\ part = "restart" => Reboot!RestartSound
  /\ part = "text" => Files!EditsExact
  /\ part = "files" => Files!FilesHold
  /\ part = "sums" => Sum!ValueIsMeant
  /\ part = "search" => Web!SearchSound
  /\ part = "page" => Web!PagesRead
  /\ part = "tools" => Tools!ToolsOffered

=============================================================================
