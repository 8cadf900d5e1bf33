---------------------------- MODULE MessageDelivery ----------------------------
(***************************************************************************)
(* What a chat session promises about user messages, with no UI frame, no  *)
(* run and no channel: a message enters once; it is appended to the        *)
(* conversation at most once and the conversation is never rewritten; or   *)
(* it is dropped (its run was aborted before it began), and then it never  *)
(* appears. Several messages may be appended in one step: a round records  *)
(* everything injected since the last one.                                 *)
(***************************************************************************)
EXTENDS Sequences, SequencesExt

CONSTANT Messages

VARIABLES accepted, log, dropped

vars == <<accepted, log, dropped>>

Pending == accepted \ (Range(log) \cup dropped)

Init == accepted = {} /\ log = <<>> /\ dropped = {}

Accept(m) ==
  /\ m \notin accepted
  /\ accepted' = accepted \cup {m}
  /\ UNCHANGED <<log, dropped>>

\* Append some pending messages, each once.
Deliver ==
  /\ IsStrictPrefix(log, log')
  /\ IsInjective(log')
  /\ Range(log') \ Range(log) \subseteq Pending
  /\ UNCHANGED <<accepted, dropped>>

Drop(m) ==
  /\ m \in Pending
  /\ dropped' = dropped \cup {m}
  /\ UNCHANGED <<accepted, log>>

Next == Deliver \/ \E m \in Messages : Accept(m) \/ Drop(m)

Spec == Init /\ [][Next]_vars
===============================================================================
