------------------------------- MODULE Approval -------------------------------
(***************************************************************************)
(* What the buttons of one item of the review panel write                  *)
(* (ui/improvements): the fields of a profile where the profile is, the    *)
(* prompt of the chat into the configuration, a new agent, a skill, and    *)
(* the entry in the memory that tells the next check what was decided.     *)
(* "tools" stands for the five fields beside the prompt that have no text  *)
(* box, the description among them.  Files named otherwise than their      *)
(* profile are in Profiles, the queue of items in ReviewQueue.             *)
(***************************************************************************)
EXTENDS Naturals, Sequences, FiniteSets

CONSTANTS
  MaxOffers,  \* bound: suggestions
  MaxPicks,   \* bound: clicks and texts typed before a decision, all together
  MaxTrouble  \* bound: writes that fail, and profiles changed by others

Dirs == 1..2                     \* the agents directory, and a search directory
Fields == {"prompt", "tools"}
Targets == {"coder", "chat"}     \* "chat" has no file
Nothing == 0                     \* a field that is not proposed, a text that is not there
NoProfile == [f \in Fields |-> Nothing]
Typed == 90

VARIABLES
  profile,   \* per directory: the values in the file of "coder"
  chat,      \* the chat prompt: in the configuration the app holds, and in its file
  fresh,     \* the prompt in the file of the new agent
  skill,     \* the body of the skill
  past,      \* the bodies the skill history holds, newest first
  item,      \* the suggestion in the panel, or NoItem
  facts,     \* the prompts the memory says were applied: <<agent, text>>
  lessons,   \* the suggestions it says were rejected
  unticked,  \* what the user does not want of the suggestion
  typed,     \* the prompt the user typed, until it is proposed anew
  did,       \* the last decision, and what there was before it
  offers, picks, trouble

approvalVars == <<profile, chat, fresh, skill, past, item, facts, lessons, unticked, typed, did,
                  offers, picks, trouble>>
files == <<profile, chat, fresh, skill, past>>

NoItem == [agent |-> "nobody"]
Undecided == [by |-> "nobody"]
Has(n) == trouble + n <= MaxTrouble /\ trouble' = trouble + n
Picks == item # NoItem /\ picks < MaxPicks /\ picks' = picks + 1

(* ---- a suggestion and its refresh ---- *)

\* Values are numbered by their suggestion: no two suggestions propose the same.  A few
\* mixtures stand for all.
Number == 10 * (offers + 1)
Offers ==
  {[agent |-> a, value |-> [f \in Fields |-> IF f \in fs THEN Number ELSE Nothing], fresh |-> Nothing,
    skill |-> "none", body |-> Nothing] : a \in Targets, fs \in SUBSET Fields \ {{}}}
  \cup {[agent |-> "coder", value |-> NoProfile, fresh |-> n, skill |-> s, body |-> b] :
           n \in {Nothing, Number}, s \in {"save", "delete"}, b \in {Nothing, Number}}
  \cup {[agent |-> "coder", value |-> NoProfile, fresh |-> Number, skill |-> "none", body |-> Nothing],
        [agent |-> "coder", value |-> [f \in Fields |-> Number], fresh |-> Number, skill |-> "save",
         body |-> Number]}

Offered(s, edited, ticked) ==
  [agent |-> s.agent, value |-> s.value, fresh |-> s.fresh, skill |-> s.skill, body |-> s.body,
   edited |-> edited, ticked |-> ticked, armed |-> FALSE]
Pending(s) == Offered(s, s.value["prompt"], Fields \cup {"skills"})
\* Wrong: what the user typed outlives the proposal it was typed into.
KeepsTextVariant(s) == Offered(s, item.edited, item.ticked)
\* The same rationale again: new proposals, the ticks as the user left them.
Refreshed(s) == Offered(s, s.value["prompt"], item.ticked)

Suggested(s) ==
  /\ offers < MaxOffers /\ (item = NoItem \/ item.agent = s.agent)
  /\ offers' = offers + 1
  /\ item' = IF item = NoItem THEN Pending(s) ELSE Refreshed(s)
  /\ unticked' = IF item = NoItem THEN {} ELSE unticked
  /\ typed' = Nothing
  /\ did' = Undecided /\ picks' = 0
  /\ UNCHANGED <<files, facts, lessons, trouble>>

(* ---- the item in the panel ---- *)

\* draw_pending_item has a box for what is proposed only.
Shown == {f \in Fields : item.value[f] # Nothing} \cup (IF item.skill = "none" THEN {} ELSE {"skills"})
Ticks(f) ==
  /\ Picks /\ f \in Shown
  /\ item' = [item EXCEPT !.ticked = (@ \ {f}) \cup ({f} \ @)]
  /\ unticked' = (unticked \ {f}) \cup ({f} \ unticked)
  /\ UNCHANGED <<files, facts, lessons, typed, did, offers, trouble>>
TypesPrompt ==
  /\ Picks /\ item.value["prompt"] # Nothing /\ item.edited # Typed
  /\ item' = [item EXCEPT !.edited = Typed]
  /\ typed' = Typed
  /\ UNCHANGED <<files, facts, lessons, unticked, did, offers, trouble>>

\* Another hand, or a tool, removes or makes a profile.
OthersChange(d) ==
  /\ Has(1) /\ did = Undecided
  /\ profile' = [profile EXCEPT ![d] = IF @ = NoProfile THEN [f \in Fields |-> d] ELSE NoProfile]
  /\ UNCHANGED <<chat, fresh, skill, past, item, facts, lessons, unticked, typed, did, offers, picks>>

\* The Revert of a skill, at its second click: the newest copy, and what was there becomes
\* a copy.  One that was retired comes back.
SkillPast == IF skill = Nothing THEN past ELSE <<skill>> \o past
ArmsSkill ==
  /\ Picks /\ item.skill # "none" /\ past # <<>> /\ ~item.armed
  /\ item' = [item EXCEPT !.armed = TRUE]
  /\ UNCHANGED <<files, facts, lessons, unticked, typed, did, offers, trouble>>
RevertsSkill ==
  /\ Picks /\ item.armed /\ past # <<>>
  /\ skill' = Head(past) /\ past' = SkillPast
  /\ item' = [item EXCEPT !.armed = FALSE]
  /\ UNCHANGED <<profile, chat, fresh, facts, lessons, unticked, typed, did, offers, trouble>>

(* ---- approving ---- *)

\* Wrong: what is proposed is applied, ticked or not.
AllVariant == {f \in Fields : item.value[f] # Nothing}
Chosen == {f \in Fields : item.value[f] # Nothing /\ f \in item.ticked}
\* Wrong: the text of the model is applied, not the text the user left.
ProposedVariant(f) == item.value[f]
Value(f) == IF f = "prompt" THEN item.edited ELSE item.value[f]

\* Wrong: always the agents directory, where a profile of a search directory would get a
\* copy that hides it.
PrimaryVariant == {1}
\* resolve_agent_dir: the first directory that has the profile, enabled or not.
Resolved == {d \in Dirs : profile[d] # NoProfile /\ \A e \in Dirs : e < d => profile[e] = NoProfile}

\* apply_improvement_detailed, the profile.  A write that fails leaves the file, or the
\* half that no longer reads as a profile.
AppliesProfile(fails) ==
  /\ chat' = chat
  /\ IF Chosen = {} \/ Resolved = {} THEN profile' = profile
     ELSE LET d == CHOOSE e \in Resolved : TRUE
              After == [f \in Fields |-> IF f \in Chosen THEN Value(f) ELSE profile[d][f]] IN
          IF "profile" \in fails
          THEN profile' = profile \/ profile' = [profile EXCEPT ![d] = NoProfile]
          ELSE profile' = [profile EXCEPT ![d] = After]

\* Wrong: a prompt the file could not take counts as applied.
AnywayVariant(fails) == "prompt" \in Chosen
\* prompt_applied: an existing profile was written and the prompt was part of it.
PromptApplied(fails) == "prompt" \in Chosen /\ Resolved # {} /\ "profile" \notin fails

\* apply_chat_improvement: the prompt alone; the configuration in memory keeps it though
\* the file does not take it.
AppliesChat(fails) ==
  /\ profile' = profile
  /\ chat' = IF "prompt" \notin Chosen \/ chat.held = Value("prompt") THEN chat
             ELSE [held |-> Value("prompt"), file |-> IF "config" \in fails THEN chat.file ELSE Value("prompt")]
\* A prompt the configuration holds already counts as applied.
ChatApplied(fails) == "prompt" \in Chosen /\ (chat.held = Value("prompt") \/ "config" \notin fails)

\* New agents are written into the agents directory, over what is there, ticked or not.
AddsAgent(fails) ==
  fresh' = IF item.fresh = Nothing \/ "agent" \in fails THEN fresh ELSE item.fresh
\* A retired skill leaves a copy, like one that is replaced; an empty body is refused.
AppliesSkill(fails) ==
  LET retire == item.skill = "delete"
      idle == \/ item.skill = "none" \/ "skills" \notin item.ticked \/ "skill" \in fails
              \/ (retire /\ skill = Nothing) \/ (~retire /\ item.body = Nothing) IN
  IF idle THEN UNCHANGED <<skill, past>>
  ELSE skill' = (IF retire THEN Nothing ELSE item.body) /\ past' = SkillPast

\* remember_applied_prompt: a fact, not a lesson.
Remembers(fails, applied) ==
  facts' = IF applied /\ "memory" \notin fails THEN facts \cup {<<item.agent, item.edited>>} ELSE facts

\* Only an item that proposes a change has the button; one with new agents alone has
\* Dismiss.
Approvable == Shown # {}
Decision(who) == [by |-> who, offer |-> item, had |-> profile, config |-> chat, facts |-> facts,
                  skill |-> skill, trouble |-> trouble]

\* execute_actions, for an approval: whatever failed, the item leaves the queue.
Approves(fails) ==
  /\ item # NoItem /\ Approvable
  /\ Has(Cardinality(fails))
  /\ IF item.agent = "chat" THEN AppliesChat(fails) ELSE AppliesProfile(fails)
  /\ AddsAgent(fails)
  /\ AppliesSkill(fails)
  /\ Remembers(fails, IF item.agent = "chat" THEN ChatApplied(fails) ELSE PromptApplied(fails))
  /\ did' = Decision("approve")
  /\ item' = NoItem
  /\ UNCHANGED <<lessons, unticked, typed, offers, picks>>

\* Dismissing writes the lesson, or fails to, and nothing else.
Dismisses(fails) ==
  /\ item # NoItem
  /\ Has(Cardinality(fails))
  /\ lessons' = IF "memory" \in fails THEN lessons ELSE lessons \cup {item.agent}
  /\ did' = Decision("dismiss")
  /\ item' = NoItem
  /\ UNCHANGED <<files, facts, unticked, typed, offers, picks>>

Breakable == {"profile", "config", "agent", "skill", "memory"}

Init ==
  /\ profile \in {[d \in Dirs |-> IF d \in ds THEN [f \in Fields |-> d] ELSE NoProfile] : ds \in SUBSET Dirs}
  /\ chat = [held |-> 1, file |-> 1]
  /\ fresh = Nothing /\ skill = 1 /\ past = <<>>
  /\ item = NoItem /\ facts = {} /\ lessons = {}
  /\ unticked = {} /\ typed = Nothing /\ did = Undecided
  /\ offers = 0 /\ picks = 0 /\ trouble = 0

Next ==
  \/ \E s \in Offers : Suggested(s)
  \/ \E f \in Fields \cup {"skills"} : Ticks(f)
  \/ TypesPrompt \/ ArmsSkill \/ RevertsSkill
  \/ \E d \in Dirs : OthersChange(d)
  \/ \E fails \in SUBSET Breakable : Approves(fails)
  \/ \E fails \in SUBSET {"memory"} : Dismisses(fails)

Spec == Init /\ [][Next]_approvalVars

-----------------------------------------------------------------------------
Approved == did.by = "approve"
Smooth == did.trouble = trouble
\* What the user saw and wanted of a field when it was decided.
Meant(f) == did.offer.value[f] # Nothing /\ f \notin unticked
MeantValue(f) == IF f = "prompt" /\ typed # Nothing THEN typed ELSE did.offer.value[f]
RunsFrom(p) == {d \in Dirs : p[d] # NoProfile /\ \A e \in Dirs : e < d => p[e] = NoProfile}

\* An approval changes the profile in the directory the agent is loaded from, and there
\* the fields that were proposed and left ticked, to the text the user last saw; it makes
\* no second file; a dismissal changes none.
OnlyWhatWasMeant ==
  /\ Approved => \A d \in Dirs : profile[d] \notin {did.had[d], NoProfile} =>
       /\ did.offer.agent = "coder" /\ d \in RunsFrom(did.had)
       /\ \A f \in Fields : profile[d][f] = IF Meant(f) THEN MeantValue(f) ELSE did.had[d][f]
  /\ did.by = "dismiss" => profile = did.had /\ skill = did.skill

\* When nothing failed, all of it is there.
AllWasDone ==
  (Approved /\ Smooth) =>
    /\ did.offer.agent = "coder" =>
         \A d \in RunsFrom(did.had), f \in Fields : Meant(f) => profile[d][f] = MeantValue(f)
    /\ (did.offer.agent = "chat" /\ Meant("prompt")) => chat.held = MeantValue("prompt")

\* The memory says that a prompt was applied when the place the agent takes its prompt
\* from has it (for the chat: the configuration the app holds), and only for a prompt the
\* user meant: the next check weighs runs by that entry.
MarkedWhenApplied ==
  Approved =>
    LET there == CASE did.offer.agent = "chat" -> chat.held = MeantValue("prompt")
                   [] OTHER -> \E d \in RunsFrom(did.had) : profile[d]["prompt"] = MeantValue("prompt") IN
    /\ facts # did.facts => Meant("prompt") /\ there /\ <<did.offer.agent, MeantValue("prompt")>> \in facts
    /\ (Smooth /\ Meant("prompt") /\ there) => <<did.offer.agent, MeantValue("prompt")>> \in facts

\* A body the skill store held is one click away, or further down in its history.
SkillsComeBack == did.by # "nobody" /\ did.skill \notin {Nothing, skill} => past # <<>> /\ Head(past) = did.skill

ApprovalSound == OnlyWhatWasMeant /\ AllWasDone /\ MarkedWhenApplied /\ SkillsComeBack

\* Stated, and not so: "prompt_applied reports whether a prompt change [...] was
\* successfully written" (improvements/memory.rs:53): a chat prompt whose save failed is
\* in memory, and proposed again it counts as applied while config.json has the old one.
ChatMarkWritten == (Approved /\ did.offer.agent = "chat" /\ facts # did.facts) => chat.file = chat.held

=============================================================================
