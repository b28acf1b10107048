------------------------ MODULE ClarificationSession ------------------------
(***************************************************************************)
(* What the stage-2 tools promise about one finding's clarification, with  *)
(* every call taking effect in one step: a session alternates questions    *)
(* and answers, can be aborted and restarted, and becomes finalized only   *)
(* on the strength of a receipt for exactly the transcript it then holds.  *)
(* FindingRecords, where every call is a read followed by separate writes  *)
(* and can stop between them, implements this specification as long as a   *)
(* run has a single writer.                                                *)
(***************************************************************************)
EXTENDS SessionStates

CONSTANTS
  Findings,  \* finding ids of the run
  NoFile     \* stands for a file that does not exist

VARIABLES
  session,   \* stage-2.session.json of each finding
  verified   \* stage-2.verified.json of each finding

vars == <<session, verified>>

Init ==
  /\ session = [f \in Findings |-> NoFile]
  /\ verified = [f \in Findings |-> NoFile]

Start(f) ==
  /\ session[f] # NoFile => session[f].state = "aborted"
  /\ session' = [session EXCEPT ![f] = NewSession]
  /\ UNCHANGED verified

AppendTurn(f, kind, content) ==
  /\ session[f] # NoFile
  /\ \E to \in States :
       /\ CanTransition(session[f].state, kind, to)
       /\ session' = [session EXCEPT ![f] = AppendedSession(session[f], kind, content, to)]
  /\ UNCHANGED verified

WriteReceipt(f) ==
  /\ session[f] # NoFile
  /\ session[f].state = "waiting_for_agent"
  /\ verified' = [verified EXCEPT ![f] = ReceiptFor(session[f])]
  /\ UNCHANGED session

Finalize(f) ==
  /\ session[f] # NoFile
  /\ session[f].state = "waiting_for_agent"
  /\ verified[f] = ReceiptFor(session[f])
  /\ session' = [session EXCEPT ![f] = FinalizedSession(session[f])]
  /\ UNCHANGED verified

Abort(f) ==
  /\ session[f] # NoFile
  /\ session[f].state \notin {"finalized", "aborted"}
  /\ session' = [session EXCEPT ![f] = AbortedSession(session[f])]
  /\ UNCHANGED verified

Next ==
  \E f \in Findings :
    \/ Start(f) \/ WriteReceipt(f) \/ Finalize(f) \/ Abort(f)
    \/ \E kind \in TurnKinds, content \in Contents : AppendTurn(f, kind, content)

Spec == Init /\ [][Next]_vars
=============================================================================
