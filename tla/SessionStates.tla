--------------------------- MODULE SessionStates ---------------------------
(***************************************************************************)
(* The pure part of the clarification workflow (verification_core.rs): the *)
(* states of a session file, the transition table, what a well-formed      *)
(* transcript is and what a verification receipt records about it.         *)
(*                                                                         *)
(* A turn keeps its seq, its kind and its content; the content stands for  *)
(* the text, the timestamp and the meta object together.  The SHA-256      *)
(* digest of the serialised transcript is represented by the transcript    *)
(* itself: two digests are equal exactly when the transcripts are.         *)
(***************************************************************************)
EXTENDS Naturals, Sequences

CONSTANTS
  Contents   \* what a turn can say

States == {"open", "waiting_for_user", "waiting_for_agent", "finalized", "aborted"}
TurnKinds == {"agent_question", "user_answer"}

Turn == [seq : Nat, kind : TurnKinds, content : Contents]

SessionFile == [state : States, turns : Seq(Turn), turn_count : Nat, schema_ok : BOOLEAN]

Receipt == [verified : BOOLEAN, completeness_ok : BOOLEAN,
            digest : Seq(Turn), turn_count : Nat]

-----------------------------------------------------------------------------
(* The transition table.  CanTransition(from, event, to) holds when the    *)
(* event is accepted in state from and leads to state to.                  *)

TransitionStart(from, to) == from = "aborted" /\ to = "open"

\* A plausible bug: a second question may follow an unanswered one.
TransitionAppendTwice(from, kind, to) ==
  \/ from = "open" /\ kind = "agent_question" /\ to = "waiting_for_user"
  \/ from = "waiting_for_user" /\ kind = "user_answer" /\ to = "waiting_for_agent"
  \/ from \in {"waiting_for_agent", "waiting_for_user"}
       /\ kind = "agent_question" /\ to = "waiting_for_user"

TransitionAppend(from, kind, to) ==
  \/ from = "open" /\ kind = "agent_question" /\ to = "waiting_for_user"
  \/ from = "waiting_for_user" /\ kind = "user_answer" /\ to = "waiting_for_agent"
  \/ from = "waiting_for_agent" /\ kind = "agent_question" /\ to = "waiting_for_user"

\* A plausible bug: finalize is accepted before the user has answered.
TransitionFinalizeEarly(from, to) ==
  from \in {"open", "waiting_for_user", "waiting_for_agent"} /\ to = "finalized"

TransitionFinalize(from, to) == from = "waiting_for_agent" /\ to = "finalized"

TransitionAbort(from, to) == to = "aborted"

CanTransition(from, event, to) ==
  /\ from # "finalized"
  /\ from = "aborted" => event = "start"
  /\ \/ event = "start" /\ TransitionStart(from, to)
     \/ event \in TurnKinds /\ TransitionAppend(from, event, to)
     \/ event = "finalize" /\ TransitionFinalize(from, to)
     \/ event = "abort" /\ TransitionAbort(from, to)

-----------------------------------------------------------------------------
(* The session files the four tools build; none changes its argument.      *)

NewSession == [state |-> "open", turns |-> <<>>, turn_count |-> 0, schema_ok |-> TRUE]

AppendedSession(prev, kind, content, to) ==
  [prev EXCEPT !.state = to,
               !.turns = Append(prev.turns,
                                [seq |-> Len(prev.turns), kind |-> kind, content |-> content]),
               !.turn_count = Len(prev.turns) + 1]

\* A plausible bug: abort drops the transcript.
AbortedSessionTruncates(prev) == [prev EXCEPT !.state = "aborted", !.turns = <<>>, !.turn_count = 0]

AbortedSession(prev) == [prev EXCEPT !.state = "aborted"]

FinalizedSession(prev) == [prev EXCEPT !.state = "finalized"]

-----------------------------------------------------------------------------
(* The receipt.                                                            *)

HasKind(turns, kind) == \E i \in 1..Len(turns) : turns[i].kind = kind

Completeness(turns) == HasKind(turns, "agent_question") /\ HasKind(turns, "user_answer")

ReceiptFor(s) ==
  [verified |-> s.schema_ok /\ Completeness(s.turns),
   completeness_ok |-> Completeness(s.turns),
   digest |-> s.turns,
   turn_count |-> s.turn_count]

-----------------------------------------------------------------------------
(* What a session file on disk must look like.                             *)

Numbered(turns) == \A i \in 1..Len(turns) : turns[i].seq = i - 1

Alternates(turns) ==
  /\ Len(turns) > 0 => turns[1].kind = "agent_question"
  /\ \A i \in 1..(Len(turns) - 1) : turns[i].kind # turns[i + 1].kind

EndsWith(turns, kind) == Len(turns) > 0 /\ turns[Len(turns)].kind = kind

StateAgrees(s) ==
  /\ s.state = "open" => s.turns = <<>>
  /\ s.state = "waiting_for_user" => EndsWith(s.turns, "agent_question")
  /\ s.state \in {"waiting_for_agent", "finalized"} => EndsWith(s.turns, "user_answer")

WellFormed(s) ==
  /\ s.turn_count = Len(s.turns)
  /\ s.schema_ok
  /\ Numbered(s.turns)
  /\ Alternates(s.turns)
  /\ StateAgrees(s)
=============================================================================
