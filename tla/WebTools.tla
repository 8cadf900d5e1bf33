-------------------------------- MODULE WebTools --------------------------------
(***************************************************************************)
(* The tools that read the web.  web_search: a chain of backends tried in  *)
(* order, one cache of their results shared by all calls, which tool       *)
(* threads read and write side by side; its lock is held for one look or   *)
(* one insertion, never during a request.  A page of results is the        *)
(* sequence of its items; an item is "good", or lacks what its parser      *)
(* needs, and a result keeps which page it is from.                        *)
(*                                                                         *)
(* fetch_url: a page is fetched whole, cut at max_bytes and read as text   *)
(* (html_to_text): blocks that are not for reading are removed, tags       *)
(* dropped, entities decoded, blank lines run together.  Such a page is    *)
(* made of parts, spelled in characters, where w and v are words, n ends a *)
(* line, & and the name with ; stand for an entity, and script, header, b  *)
(* are tag names.                                                          *)
(***************************************************************************)
EXTENDS Naturals, Sequences, FiniteSets

CONSTANTS
  Backends,  \* the configured backends: "Auto", or one of its own
  Queries, Callers,
  Limits,    \* values of max_results
  Ttl,       \* search.cache_duration_secs
  MaxTime,   \* bound of the clock
  MaxAsked,  \* bound on calls
  ItemKinds, \* of "good", "nolink", "untitled": the items the pages have
  MaxItems,  \* bound on items of a page of results
  Parts,     \* the parts pages to read are made of
  MaxParts   \* bound on parts of a page

VARIABLES
  backend,   \* SearchConfig.backend, resolved when the tool was built
  cache,     \* RESULT_CACHE: a set of entries, one for each key;
             \* of is the page an entry's results are from
  call,      \* per caller: its call, or its last outcome
  clock,
  asked,
  response,  \* what the server of a page answers
  parts      \* the parts of its body so far

searchVars == <<backend, cache, call, clock, asked>>
pageVars == <<response, parts>>

Chain(b) == IF b = "Auto" THEN <<"bing", "yahoo", "duckduckgo">> ELSE <<b>>

\* What a parser needs of an item; the APIs' items are taken as they come.
BingNeeds       == {"good"}
YahooNeeds      == {"good"}
DuckDuckGoNeeds == {"good", "nolink"}
ApiNeeds        == {"good", "nolink", "untitled"}
Needs(b) == CASE b = "bing" -> BingNeeds [] b = "yahoo" -> YahooNeeds
              [] b = "duckduckgo" -> DuckDuckGoNeeds [] OTHER -> ApiNeeds

Least(x, y) == IF x < y THEN x ELSE y

\* The first items up to the limit, then those of them that can be used.
Parsed(b, page, limit) ==
  LET usable == SelectSeq(SubSeq(page, 1, Least(limit, Len(page))), LAMBDA i : i \in Needs(b))
  IN [k \in 1..Len(usable) |-> usable[k]]

Pages == UNION {[1..n -> ItemKinds] : n \in 0..MaxItems}

-----------------------------------------------------------------------------
(* The cache.                                                              *)

LabelVariant(b, q) == <<b>>
Key(b, q) == <<b, q>>

Entry(b, q) == {e \in cache : e.key = Key(b, q)}

AgelessVariant(e) == TRUE
Fresh(e) == clock - e.at < Ttl

cache_get(b, q) == {e \in Entry(b, q) : Fresh(e)}

cache_put(b, q, results, page) ==
  cache' = (cache \ Entry(b, q))
           \cup {[key |-> Key(b, q), at |-> clock, results |-> results, of |-> page]}

-----------------------------------------------------------------------------

Idle == [phase |-> "idle"]
Done(ok, b, q, results, page, limit, failures) ==
  [phase |-> "done", ok |-> ok, b |-> b, q |-> q, results |-> results, of |-> page,
   limit |-> limit, failures |-> failures, at |-> clock]
NoPage == [b |-> "none", q |-> "none", at |-> 0, items |-> <<>>]

Init ==
  /\ backend \in Backends
  /\ cache = {} /\ call = [c \in Callers |-> Idle]
  /\ clock = 0 /\ asked = 0

Ask(c, q, limit) ==
  /\ call[c].phase \in {"idle", "done"} /\ asked < MaxAsked
  /\ call' = [call EXCEPT ![c] = [phase |-> "look", k |-> 1, q |-> q, limit |-> limit,
                                  failures |-> <<>>]]
  /\ asked' = asked + 1
  /\ UNCHANGED <<backend, cache, clock>>

\* The next backend of the chain; after the last one, the failures.
Failed(c, reason) ==
  LET r == call[c]
      all == Append(r.failures, reason)
  IN call' = [call EXCEPT ![c] =
       IF r.k < Len(Chain(backend))
       THEN [r EXCEPT !.phase = "look", !.k = @ + 1, !.failures = all]
       ELSE Done(FALSE, "none", r.q, <<>>, NoPage, r.limit, all)]

Succeeded(c, b, results, page) ==
  call' = [call EXCEPT ![c] = Done(TRUE, b, call[c].q, results, page, call[c].limit, <<>>)]

Reason(b, kind) == [b |-> b, kind |-> kind, of |-> NoPage, at |-> 0]
Cached(b, page) == [b |-> b, kind |-> "cached", of |-> page, at |-> clock]

\* A remembered empty page fails the backend again.
EmptyServedVariant(results) == FALSE
Blocked(results) == results = <<>>

\* A fresh entry is used without a request.
Look(c) ==
  LET r == call[c]
      b == Chain(backend)[r.k]
      known == cache_get(b, r.q)
  IN /\ r.phase = "look"
     /\ IF known = {} THEN call' = [call EXCEPT ![c].phase = "fetch"]
        ELSE LET e == CHOOSE x \in known : TRUE IN
             IF Blocked(e.results) THEN Failed(c, Cached(b, e.of))
             ELSE Succeeded(c, b, e.results, e.of)
     /\ UNCHANGED <<backend, cache, clock, asked>>

\* The backend serves a page.
Served(c, items) ==
  LET r == call[c]
      b == Chain(backend)[r.k]
      results == Parsed(b, items, r.limit)
      page == [b |-> b, q |-> r.q, at |-> clock, items |-> items]
  IN /\ r.phase = "fetch"
     /\ cache_put(b, r.q, results, page)
     /\ IF results # <<>> THEN Succeeded(c, b, results, page)
        ELSE Failed(c, Reason(b, "empty"))
     /\ UNCHANGED <<backend, clock, asked>>

\* A backend that breaks is not remembered.
RememberedVariant(c) ==
  LET b == Chain(backend)[call[c].k] IN cache_put(b, call[c].q, <<>>, NoPage)
Forgotten(c) == UNCHANGED cache

Breaks(c, why) ==
  /\ call[c].phase = "fetch"
  /\ Forgotten(c)
  /\ Failed(c, Reason(Chain(backend)[call[c].k], why))
  /\ UNCHANGED <<backend, clock, asked>>

\* No connection, no answer in time, a body that ends early. A page's status is not looked at.
Broke(c) == Breaks(c, "error")

\* DuckDuckGo asks for a proof that a person searches.
Challenged(c) == Chain(backend)[call[c].k] = "duckduckgo" /\ Breaks(c, "challenge")

\* An API's answer is no JSON, or SearXNG's status an error. One without results is a page without items.
NotJson(c) == Chain(backend)[call[c].k] \in {"searxng", "brave"} /\ Breaks(c, "not JSON")

Tick == /\ clock < MaxTime
        /\ clock' = clock + 1
        /\ UNCHANGED <<backend, cache, call, asked>>

Next ==
  \/ \E c \in Callers :
       \/ \E q \in Queries, limit \in Limits : Ask(c, q, limit)
       \/ Look(c)
       \/ \E items \in Pages : Served(c, items)
       \/ call[c].phase = "fetch" /\ (Broke(c) \/ Challenged(c) \/ NotJson(c))
  \/ Tick

-----------------------------------------------------------------------------

TypeOK ==
  /\ backend \in Backends /\ clock \in 0..MaxTime /\ asked \in 0..MaxAsked
  /\ \A c \in Callers : call[c].phase \in {"idle", "look", "fetch", "done"}
  /\ \A e, f \in cache : e.key = f.key => e = f

Ended == {call[c] : c \in {d \in Callers : call[d].phase = "done"}}

\* What a call returns was served to this very query by the backend it names, less than
\* the cache's time to live before, and it is something (run_chain, cache_get).
AnswersTheQuery ==
  \A r \in Ended : r.ok =>
    /\ r.results # <<>>
    /\ r.of.q = r.q /\ r.of.b = r.b
    /\ r.at - r.of.at < Ttl

\* A call that fails has asked every backend, each has failed it, and one that was not
\* asked again had served an empty page for this query a short while before: an error
\* of the network is not remembered (run_chain).
FailsOnEvidence ==
  \A r \in Ended : ~r.ok =>
    /\ {r.failures[k].b : k \in 1..Len(r.failures)}
         = {Chain(backend)[k] : k \in 1..Len(Chain(backend))}
    /\ \A k \in 1..Len(r.failures) :
         r.failures[k].kind = "cached" =>
           /\ r.failures[k].of.q = r.q
           /\ r.failures[k].at - r.failures[k].of.at < Ttl

SearchSound == TypeOK /\ AnswersTheQuery /\ FailsOnEvidence

\* No call returns more results than it asked for. The code does not keep this: the
\* cache's key has no limit, so a call may be given the results of a larger one.
AtMostMax == \A r \in Ended : r.ok => Len(r.results) <= r.limit

\* A backend is passed over only when its page had nothing to use. The code does not
\* keep this: the limit is applied before the items are judged, and the empty result
\* of a small limit is remembered for the larger ones.
PassedOverWhenEmpty ==
  \A r \in Ended : \A k \in 1..Len(r.failures) :
    r.failures[k].kind = "cached" =>
      \A i \in 1..Len(r.failures[k].of.items) :
        r.failures[k].of.items[i] \notin Needs(r.failures[k].b)

-----------------------------------------------------------------------------
(* A page to read.                                                         *)

Fold == INSTANCE SequencesExt

Spelling == [p \in {"word", "line", "less", "amp", "bold", "script", "header", "head"} |->
  CASE p = "word" -> <<"w">>
    [] p = "line" -> <<"n">>
    [] p = "less" -> <<"&", "lt;", "v">>                 \* &lt; before a word
    [] p = "amp" -> <<"&", "amp;", "lt;">>               \* an escaped entity
    [] p = "bold" -> <<"<", "b", ">">>
    [] p = "script" -> <<"<", "script", ">", "v", "<", "/script", ">">>
    [] p = "header" -> <<"<", "header", ">">>            \* no block of its own
    [] OTHER -> <<"<", "head", ">", "v", "<", "script", ">", "v", "<", "/script", ">",
                  "<", "/head", ">">>]

Body(list) == Fold!FlattenSeq([k \in 1..Len(list) |-> Spelling[list[k]]])

(* html.rs.                                                                *)

At(s, i) == IF i \in 1..Len(s) THEN s[i] ELSE "end"
From(s, i) == SubSeq(s, i, Len(s))

\* The first closing tag after the first opening one ends a block.
Blocks(s, tag) ==
  {b \in (1..Len(s)) \X (1..Len(s)) :
     /\ At(s, b[1]) = "<" /\ At(s, b[1] + 1) = tag /\ At(s, b[1] + 2) = ">"
     /\ b[1] < b[2] /\ At(s, b[2] - 1) = "/" \o tag /\ At(s, b[2]) = ">"}

RECURSIVE Without(_, _)
Without(s, tag) ==
  IF Blocks(s, tag) = {} THEN s
  ELSE LET b == CHOOSE x \in Blocks(s, tag) :
                  \A y \in Blocks(s, tag) : x[1] < y[1] \/ (x[1] = y[1] /\ x[2] <= y[2])
       IN Without(SubSeq(s, 1, b[1] - 1) \o From(s, b[2] + 1), tag)

KeepingVariant(s) == Without(s, "head")
Stripped(s) == Without(Without(s, "script"), "head")

\* Outside of < and >.
RECURSIVE Untagged(_, _)
Untagged(s, inside) ==
  IF s = <<>> THEN <<>>
  ELSE CASE Head(s) = "<" -> Untagged(Tail(s), TRUE)
         [] Head(s) = ">" -> Untagged(Tail(s), FALSE)
         [] OTHER -> (IF inside THEN <<>> ELSE <<Head(s)>>) \o Untagged(Tail(s), inside)
strip_tags(s) == Untagged(s, FALSE)

\* One pass from the left: what an entity becomes is not looked at again.
RECURSIVE html_unescape(_)
html_unescape(s) ==
  IF s = <<>> THEN <<>>
  ELSE CASE Head(s) = "&" /\ At(s, 2) = "lt;" -> <<"<">> \o html_unescape(From(s, 3))
         [] Head(s) = "&" /\ At(s, 2) = "amp;" -> <<"&">> \o html_unescape(From(s, 3))
         [] OTHER -> <<Head(s)>> \o html_unescape(Tail(s))

UnescapeFirstVariant(s) == strip_tags(html_unescape(s))
Unwrapped(s) == html_unescape(strip_tags(s))

\* The lines of a text.
Lines(s) ==
  Fold!FoldLeft(LAMBDA out, c : IF c = "n" THEN Append(out, <<>>)
                                ELSE [out EXCEPT ![Len(out)] = Append(@, c)],
                <<<<>>>>, s)

\* A run of empty lines becomes one, and none at the ends.
EveryBlankVariant(lines) == lines
Collapsed(lines) ==
  LET keep == {k \in 1..Len(lines) :
                 \/ lines[k] # <<>>
                 \/ /\ k > 1 /\ lines[k - 1] # <<>>
                    /\ \E m \in (k + 1)..Len(lines) : lines[m] # <<>>}
  IN Fold!FoldLeft(LAMBDA out, k : IF k \in keep THEN Append(out, lines[k]) ELSE out,
                   <<>>, [k \in 1..Len(lines) |-> k])

html_to_text(s) == Collapsed(Lines(Unwrapped(Stripped(s))))

(* fetch_url.                                                              *)

Responses == [status : {200, 404}, kind : {"html", "plain", "image"}, most : {4, 99}]

\* str::trim of a text that is not HTML.
Trimmed(s) ==
  LET solid == {k \in 1..Len(s) : s[k] # "n"}
  IN IF solid = {} THEN <<>>
     ELSE SubSeq(s, CHOOSE k \in solid : \A m \in solid : k <= m,
                    CHOOSE k \in solid : \A m \in solid : k >= m)

Outcome(r, body) ==
  LET read == SubSeq(body, 1, Least(r.most, Len(body)))
  IN IF r.status # 200 \/ r.kind = "image" THEN [ok |-> FALSE]
     ELSE [ok |-> TRUE, truncated |-> Len(body) > r.most,
           text |-> IF r.kind = "html" THEN html_to_text(read) ELSE <<Trimmed(read)>>]

FetchInit == response \in Responses /\ parts = <<>>

Grow(p) == /\ Len(parts) < MaxParts
           /\ parts' = Append(parts, p)
           /\ UNCHANGED response

FetchNext == \E p \in Parts : Grow(p)

-----------------------------------------------------------------------------

FetchTypeOK == response \in Responses /\ parts \in Seq(Parts)

\* What a part has for a reader.
Meant(p) == CASE p \in {"word", "line"} -> Spelling[p]
              [] p = "less" -> <<"<", "v">>
              [] p = "amp" -> <<"&", "lt;">>
              [] OTHER -> <<>>

\* A page that was not cut is read as its parts are meant: an escaped tag is text and no
\* tag, a header is no head, scripts are not read, and empty lines neither begin nor end
\* the text nor follow each other (html_to_text and its tests).
ReadAsMeant ==
  LET o == Outcome(response, Body(parts))
      meant == Lines(Fold!FlattenSeq([k \in 1..Len(parts) |-> Meant(parts[k])]))
      solid == SelectSeq(meant, LAMBDA l : l # <<>>)
  IN o.ok /\ response.kind = "html" /\ ~o.truncated =>
       /\ SelectSeq(o.text, LAMBDA l : l # <<>>) = solid
       /\ o.text # <<>> => o.text[1] # <<>> /\ o.text[Len(o.text)] # <<>>
       /\ \A k \in 2..Len(o.text) : o.text[k] = <<>> => o.text[k - 1] # <<>>

PagesRead == FetchTypeOK /\ ReadAsMeant

\* A script is never read as text. The code does not keep this: a cut page may end
\* inside one, and the block without its end is not removed.
ScriptUnread ==
  LET o == Outcome(response, Body(parts))
  IN o.ok /\ response.kind = "html" /\ "less" \notin {parts[k] : k \in 1..Len(parts)} =>
       \A k \in 1..Len(o.text) : \A m \in 1..Len(o.text[k]) : o.text[k][m] # "v"
=============================================================================
