------------------------- MODULE SingleWriterProofs -------------------------
(***************************************************************************)
(* With a single server in a run directory, the stage-2 tools implement    *)
(* ClarificationSession, however often the server stops inside a call.     *)
(*                                                                         *)
(* The argument: nothing but the pending call changes the session file, so *)
(* what that call read is still on disk when it writes (CallIsFresh), and  *)
(* each write is then one step of the abstract session.                    *)
(***************************************************************************)
EXTENDS FindingRecordsProofs

\* The run has at most one writer.
SingleWriter == \A p, q \in Servers : p = q

-----------------------------------------------------------------------------
(* What a pending stage-2 call carries, in terms of the files now on disk. *)

CallIsFresh(p) ==
  LET f == call[p].f  s == session[call[p].f] IN
  /\ At(p, "verified") => /\ s # NoFile /\ s.state = "waiting_for_agent"
                          /\ call[p].sess = s
  /\ At(p, "session") =>
       \/ /\ call[p].op = "start"
          /\ s # NoFile => s.state = "aborted"
          /\ call[p].sess = NewSession
       \/ /\ call[p].op = "append" /\ s # NoFile
          /\ \E kind \in TurnKinds, content \in Contents, to \in States :
               /\ CanTransition(s.state, kind, to)
               /\ call[p].sess = AppendedSession(s, kind, content, to)
       \/ /\ call[p].op = "finalize" /\ s # NoFile /\ s.state = "waiting_for_agent"
          /\ verified[f] = ReceiptFor(s)
          /\ call[p].sess = FinalizedSession(s)
       \/ /\ call[p].op = "abort" /\ s # NoFile /\ s.state \notin {"finalized", "aborted"}
          /\ call[p].sess = AbortedSession(s)

SInv == IInv /\ FinalizedIsReceipted /\ \A p \in Servers : CallIsFresh(p)

-----------------------------------------------------------------------------
\* The abstract step that a step of the server maps to, or a stutter.
AbstractStep == [Clarification!Next]_(Clarification!vars)

\* A step that writes neither stage-2 file of any finding is a stutter, and a
\* call that is not about to write one has nothing to be fresh about.
LEMMA Stage2Untouched ==
  ASSUME SInv, UNCHANGED <<session, verified>>
  PROVE  FinalizedIsReceipted' /\ AbstractStep
BY DEF SInv, FinalizedIsReceipted, AbstractStep, Clarification!vars

LEMMA RequestFresh ==
  ASSUME SInv, NEW p \in Servers, Request(p)
  PROVE  CallIsFresh(p)' /\ UNCHANGED <<session, verified>>
<1> USE DEF SInv, IInv, TypeOK
<1> PICK f \in Findings :
      \/ \E payload \in Payloads : ExtractFinding(p, f, payload)
      \/ RefineFinding(p, f)
      \/ StartVerification(p, f)
      \/ \E kind \in TurnKinds, content \in Contents : AppendClarification(p, f, kind, content)
      \/ FinalizeVerification(p, f)
      \/ AbortVerification(p, f)
  BY DEF Request
<1>1. ASSUME NEW payload \in Payloads, ExtractFinding(p, f, payload)
      PROVE  CallIsFresh(p)' /\ UNCHANGED <<session, verified>>
  BY <1>1 DEF ExtractFinding, Begin, CallIsFresh, At
<1>2. CASE RefineFinding(p, f)
  BY <1>2 DEF RefineFinding, Begin, CallIsFresh, At
<1>3. CASE StartVerification(p, f)
  BY <1>3 DEF StartVerification, Begin, CallIsFresh, At, CanTransition, TransitionStart, TurnKinds
<1>4. ASSUME NEW kind \in TurnKinds, NEW content \in Contents,
             AppendClarification(p, f, kind, content)
      PROVE  CallIsFresh(p)' /\ UNCHANGED <<session, verified>>
  BY <1>4 DEF AppendClarification, Begin, CallIsFresh, At
<1>5. CASE FinalizeVerification(p, f)
  BY <1>5 DEF FinalizeVerification, Begin, CallIsFresh, At, CanTransition, TransitionFinalize, TurnKinds
<1>6. CASE AbortVerification(p, f)
  BY <1>6 DEF AbortVerification, Begin, CallIsFresh, At, CanTransition, TransitionAbort, TurnKinds
<1> QED BY <1>1, <1>2, <1>3, <1>4, <1>5, <1>6

\* Writing the receipt is the abstract WriteReceipt.
LEMMA WriteVerifiedRefines ==
  ASSUME SInv, NEW p \in Servers, WriteVerified(p)
  PROVE  CallIsFresh(p)' /\ FinalizedIsReceipted' /\ AbstractStep
<1> DEFINE f == call[p].f
<1>1. /\ f \in Findings /\ session[f] # NoFile /\ session[f].state = "waiting_for_agent"
      /\ call[p].sess = session[f] /\ call[p].op = "finalize"
  BY DEF SInv, IInv, CallOK, CallIsFresh, WriteVerified, Carries
<1>2. /\ call'[p].pc = "session" /\ call'[p].op = "finalize" /\ call'[p].f = f
      /\ call'[p].sess = FinalizedSession(session[f])
  BY <1>1 DEF WriteVerified, SInv, IInv, TypeOK, Call
<1>3. session' = session /\ verified' = [verified EXCEPT ![f] = ReceiptFor(session[f])]
  BY <1>1 DEF WriteVerified
<1>4. CallIsFresh(p)'
  BY <1>1, <1>2, <1>3 DEF CallIsFresh, At, SInv, IInv, TypeOK
<1>5. FinalizedIsReceipted'
  BY <1>1, <1>3 DEF FinalizedIsReceipted, SInv, IInv, TypeOK
<1>6. Clarification!WriteReceipt(f)
  BY <1>1, <1>3 DEF Clarification!WriteReceipt, Clarification!ReceiptFor, ReceiptFor,
     Clarification!Completeness, Completeness, Clarification!HasKind, HasKind
<1> QED
  BY <1>1, <1>4, <1>5, <1>6 DEF AbstractStep, Clarification!Next

\* Writing the session file is the abstract step of the tool that writes it.
LEMMA WriteSessionRefines ==
  ASSUME SInv, NEW p \in Servers, WriteSession(p)
  PROVE  CallIsFresh(p)' /\ FinalizedIsReceipted' /\ AbstractStep
<1> DEFINE f == call[p].f
           s == session[f]
<1>1. f \in Findings /\ CallIsFresh(p) /\ At(p, "session")
  BY DEF SInv, IInv, CallOK, WriteSession
<1>2. session' = [session EXCEPT ![f] = call[p].sess] /\ verified' = verified
  BY DEF WriteSession
<1>3. CallIsFresh(p)'
  <2>1. call'[p].pc \in {"read_index", "idle"}
    BY IdleOK DEF WriteSession, GoTo, ReturnOk, SInv, IInv, TypeOK, Call
  <2> QED BY <2>1 DEF CallIsFresh, At
<1>4. ASSUME call[p].sess.state = "finalized" => verified[f] = ReceiptFor(call[p].sess)
      PROVE  FinalizedIsReceipted'
  BY <1>1, <1>2, <1>4 DEF FinalizedIsReceipted, SInv, IInv, TypeOK
<1>5. CASE call[p].op = "start"
  <2>1. (s # NoFile => s.state = "aborted") /\ call[p].sess = NewSession
    BY <1>1, <1>5 DEF CallIsFresh
  <2>2. Clarification!Start(f)
    BY <1>2, <2>1 DEF Clarification!Start, Clarification!NewSession, NewSession
  <2>3. FinalizedIsReceipted'
    BY <1>4, <2>1 DEF NewSession
  <2> QED BY <1>1, <1>3, <2>2, <2>3 DEF AbstractStep, Clarification!Next
<1>6. CASE call[p].op = "append"
  <2>1. s # NoFile /\ s \in SessionFile
    BY <1>1, <1>6 DEF CallIsFresh, SInv, IInv, TypeOK
  <2> PICK kind \in TurnKinds, content \in Contents, to \in States :
        CanTransition(s.state, kind, to) /\ call[p].sess = AppendedSession(s, kind, content, to)
    BY <1>1, <1>6 DEF CallIsFresh
  <2>2. Clarification!AppendTurn(f, kind, content)
    <3>1. Clarification!CanTransition(s.state, kind, to)
      BY DEF Clarification!CanTransition, CanTransition, Clarification!TransitionStart,
         TransitionStart, Clarification!TransitionAppend, TransitionAppend,
         Clarification!TransitionFinalize, TransitionFinalize, Clarification!TransitionAbort,
         TransitionAbort, Clarification!TurnKinds, TurnKinds
    <3>2. session' = [session EXCEPT ![f] = Clarification!AppendedSession(s, kind, content, to)]
      BY <1>2 DEF Clarification!AppendedSession, AppendedSession
    <3>3. to \in Clarification!States
      BY DEF Clarification!States, States
    <3> QED BY <1>2, <2>1, <3>1, <3>2, <3>3 DEF Clarification!AppendTurn
  <2>3. call[p].sess.state # "finalized"
    BY <2>1 DEF AppendedSession, SessionFile, CanTransition, TransitionAppend, TurnKinds
  <2>4. FinalizedIsReceipted'
    BY <1>4, <2>3
  <2>5. kind \in Clarification!TurnKinds
    BY DEF Clarification!TurnKinds, TurnKinds
  <2> QED BY <1>1, <1>3, <2>2, <2>4, <2>5 DEF AbstractStep, Clarification!Next
<1>7. CASE call[p].op = "finalize"
  <2>1. /\ s # NoFile /\ s \in SessionFile /\ s.state = "waiting_for_agent"
        /\ verified[f] = ReceiptFor(s) /\ call[p].sess = FinalizedSession(s)
        /\ WellFormed(s)
    BY <1>1, <1>7 DEF CallIsFresh, SInv, IInv, TypeOK, SessionWellFormed
  <2>2. Clarification!Finalize(f)
    BY <1>2, <2>1 DEF Clarification!Finalize, Clarification!FinalizedSession, FinalizedSession,
       Clarification!ReceiptFor, ReceiptFor, Clarification!Completeness, Completeness,
       Clarification!HasKind, HasKind
  <2>3. FinalizedIsReceipted'
    BY <1>4, <2>1, ClosedSessionOK
  <2> QED BY <1>1, <1>3, <2>2, <2>3 DEF AbstractStep, Clarification!Next
<1>8. CASE call[p].op = "abort"
  <2>1. /\ s # NoFile /\ s \in SessionFile /\ s.state \notin {"finalized", "aborted"}
        /\ call[p].sess = AbortedSession(s)
    BY <1>1, <1>8 DEF CallIsFresh, SInv, IInv, TypeOK
  <2>2. Clarification!Abort(f)
    BY <1>2, <2>1 DEF Clarification!Abort, Clarification!AbortedSession, AbortedSession
  <2>3. FinalizedIsReceipted'
    BY <1>4, <2>1 DEF AbortedSession, SessionFile
  <2> QED BY <1>1, <1>3, <2>2, <2>3 DEF AbstractStep, Clarification!Next
<1> QED
  BY <1>1, <1>5, <1>6, <1>7, <1>8 DEF CallIsFresh

LEMMA SInvInductive ==
  ASSUME SingleWriter
  PROVE  /\ Init => SInv
         /\ SInv /\ [Next]_vars => SInv' /\ AbstractStep
<1>1. ASSUME Init PROVE SInv
  BY <1>1, IInvInductive, IdleOK DEF Init, SInv, FinalizedIsReceipted, CallIsFresh, At
<1>2. ASSUME SInv, Next PROVE SInv' /\ AbstractStep
  <2> PICK p \in Servers : Request(p) \/ Step(p) \/ Stop(p)
    BY <1>2 DEF Next
  <2>1. IInv'
    BY <1>2, IInvInductive DEF SInv
  <2> SUFFICES CallIsFresh(p)' /\ FinalizedIsReceipted' /\ AbstractStep
    BY <2>1 DEF SInv, SingleWriter
  <2>2. CASE Request(p)
    BY <1>2, <2>2, RequestFresh, Stage2Untouched
  <2>3. ASSUME call'[p].pc \notin {"verified", "session"}, UNCHANGED <<session, verified>>
        PROVE  CallIsFresh(p)' /\ FinalizedIsReceipted' /\ AbstractStep
    BY <1>2, <2>3, Stage2Untouched DEF CallIsFresh, At
  <2>4. CASE Stop(p) \/ WriteSource(p) \/ WriteExtracted(p) \/ WriteRefined(p)
             \/ ReadIndex(p) \/ WriteIndex(p)
    BY <1>2, <2>3, <2>4, IdleOK DEF Stop, WriteSource, WriteExtracted, WriteRefined, ReadIndex,
       WriteIndex, GoTo, ReturnOk, SInv, IInv, TypeOK, Call
  <2> QED
    BY <1>2, <2>2, <2>4, WriteVerifiedRefines, WriteSessionRefines DEF Step
<1>3. ASSUME SInv, UNCHANGED vars PROVE SInv' /\ AbstractStep
  <2>1. IInv'
    BY <1>3, IInvInductive DEF SInv
  <2> QED
    BY <1>3, <2>1, Stage2Untouched DEF vars, SInv, CallIsFresh, At
<1> QED BY <1>1, <1>2, <1>3

-----------------------------------------------------------------------------
(* With one writer, a finalized session always has the receipt of exactly  *)
(* its own transcript on disk, wherever the server stopped before.         *)
THEOREM FinalizedStaysReceipted ==
  ASSUME SingleWriter
  PROVE  Spec => []FinalizedIsReceipted
<1>1. SInv => FinalizedIsReceipted
  BY DEF SInv
<1> QED BY <1>1, SInvInductive, PTL DEF Spec

(* With one writer, the six tools implement the one-step clarification     *)
(* session: no interleaving of reads, writes and stops of a call is        *)
(* visible in the session files and receipts.                              *)
THEOREM SingleWriterImplements ==
  ASSUME SingleWriter
  PROVE  Spec => ImplementsClarification
<1>1. Init => Clarification!Init
  BY DEF Init, Clarification!Init
<1> QED
  BY <1>1, SInvInductive, PTL DEF Spec, ImplementsClarification, Clarification!Spec, AbstractStep

-----------------------------------------------------------------------------
(* What the abstract session does to a transcript: it extends it, or       *)
(* restarts an aborted one.                                                *)

Keeps(f) ==
  session[f] # NoFile =>
    \/ ExtendsTranscript(session[f].turns, session'[f].turns)
    \/ session[f].state = "aborted" /\ session'[f] = NewSession

LEMMA AbstractStepKeeps ==
  ASSUME TypeOK, AbstractStep, NEW f \in Findings
  PROVE  Keeps(f)
<1>1. CASE session'[f] = session[f]
  BY <1>1 DEF Keeps, ExtendsTranscript, TypeOK, SessionFile
<1>2. CASE session'[f] # session[f] /\ session[f] # NoFile
  <2>1. session[f] \in SessionFile
    BY <1>2 DEF TypeOK
  <2>2. PICK g \in Findings :
          \/ Clarification!Start(g) \/ Clarification!Finalize(g) \/ Clarification!Abort(g)
          \/ \E kind \in Clarification!TurnKinds, content \in Contents :
               Clarification!AppendTurn(g, kind, content)
    BY <1>2 DEF AbstractStep, Clarification!Next, Clarification!vars, Clarification!WriteReceipt
  <2>3. g = f
    BY <1>2, <2>2 DEF TypeOK, Clarification!Start, Clarification!Finalize, Clarification!Abort,
       Clarification!AppendTurn
  <2>4. CASE Clarification!Start(f)
    BY <1>2, <2>4 DEF TypeOK, Keeps, Clarification!Start, Clarification!NewSession, NewSession
  <2>5. CASE Clarification!Finalize(f) \/ Clarification!Abort(f)
    <3>1. session'[f].turns = session[f].turns
      BY <2>1, <2>5 DEF TypeOK, SessionFile, Clarification!Finalize, Clarification!Abort,
         Clarification!FinalizedSession, Clarification!AbortedSession
    <3> QED BY <2>1, <3>1 DEF Keeps, ExtendsTranscript, SessionFile
  <2>6. ASSUME NEW kind, NEW content, Clarification!AppendTurn(f, kind, content)
        PROVE  Keeps(f)
    <3> DEFINE t == [seq |-> Len(session[f].turns), kind |-> kind, content |-> content]
    <3>1. session'[f].turns = Append(session[f].turns, t)
      <4> PICK to \in Clarification!States :
            session' = [session EXCEPT ![f] =
                          Clarification!AppendedSession(session[f], kind, content, to)]
        BY <2>6 DEF Clarification!AppendTurn
      <4>1. session'[f] = Clarification!AppendedSession(session[f], kind, content, to)
        BY DEF TypeOK
      <4> QED BY <2>1, <4>1 DEF SessionFile, Clarification!AppendedSession
    <3>2. session[f].turns \in Seq(Turn)
      BY <2>1 DEF SessionFile
    <3> QED BY <3>1, <3>2 DEF Keeps, ExtendsTranscript
  <2> QED BY <2>2, <2>3, <2>4, <2>5, <2>6
<1> QED BY <1>1, <1>2 DEF Keeps

(* With one writer no committed turn is removed or altered: every rewrite  *)
(* of the session file extends the transcript, unless it restarts an       *)
(* aborted session, wherever the server stopped before.                    *)
THEOREM TranscriptsGrow ==
  ASSUME SingleWriter
  PROVE  Spec => TranscriptGrows
<1>1. SInv /\ [Next]_vars => \A f \in Findings : Keeps(f)
  BY SInvInductive, AbstractStepKeeps DEF SInv, IInv
<1> QED
  BY <1>1, SInvInductive, PTL DEF Spec, TranscriptGrows, Keeps

-----------------------------------------------------------------------------
(* The index.  With one writer the index a call merges into is the one on  *)
(* disk, and the merge of each tool keeps what the other two own.          *)

\* What an entry holds once op has been acknowledged for its finding.
Holds(e, op) ==
  /\ e # NoFile
  /\ op = "extract" => e.artifact_path # ""
  /\ op = "refine" => e.artifact_path = "refined" /\ e.refined
  /\ op = "finalize" => e.stage2 = "verified"

Owners == {"extract", "refine", "finalize"}

\* A refined entry names the refined artifact.
EntryOK(e) == e # NoFile => e \in IndexEntry /\ (e.refined => e.artifact_path = "refined")

AInv ==
  /\ SInv /\ AckedIsIndexed
  /\ \A f \in Findings : EntryOK(index[f])
  /\ \A p \in Servers : At(p, "index") => call[p].idx = index

\* The merge of one tool writes its own fields and keeps the others'.
LEMMA MergePreserves ==
  ASSUME NEW op \in Owners, NEW e, EntryOK(e), NEW s,
         op = "finalize" => ReceiptFor(s).verified
  PROVE  \A m : m = MergeIndexEntry(op, e, s) =>
           /\ EntryOK(m) /\ Holds(m, op)
           /\ \A other \in Owners : Holds(e, other) => Holds(m, other)
<1>0. SUFFICES ASSUME NEW m, m = MergeIndexEntry(op, e, s)
               PROVE  /\ EntryOK(m) /\ Holds(m, op)
                      /\ \A other \in Owners : Holds(e, other) => Holds(m, other)
  OBVIOUS
<1>1. \A x \in IndexEntry : x # NoFile
  BY EntryAssumption
<1>2. CASE e = NoFile
  <2>1. CASE op = "extract"
    <3>1. m = ExtractEntry
      BY <1>2, <2>1, <1>0 DEF MergeIndexEntry
    <3>2. m \in IndexEntry
      BY <3>1 DEF ExtractEntry, IndexEntry
    <3>3. m.artifact_path = "extracted" /\ m.refined = FALSE
      BY <3>1 DEF ExtractEntry
    <3> QED BY <1>1, <1>2, <2>1, <3>2, <3>3 DEF EntryOK, Holds, Owners
  <2>2. CASE op = "refine"
    <3>1. m = RefineEntry
      BY <1>2, <2>2, <1>0 DEF MergeIndexEntry
    <3>2. m \in IndexEntry
      BY <3>1 DEF RefineEntry, IndexEntry
    <3>3. m.artifact_path = "refined" /\ m.refined = TRUE
      BY <3>1 DEF RefineEntry
    <3> QED BY <1>1, <1>2, <2>2, <3>2, <3>3 DEF EntryOK, Holds, Owners
  <2>3. CASE op = "finalize"
    <3>1. m = VerifiedEntry(ReceiptFor(s))
      BY <1>2, <2>3, <1>0 DEF MergeIndexEntry
    <3>2. m = [artifact_path |-> "", refined |-> FALSE, stage2 |-> "verified"]
      BY <2>3, <3>1 DEF VerifiedEntry
    <3>3. m \in IndexEntry
      BY <3>2 DEF IndexEntry
    <3>4. m.refined = FALSE /\ m.stage2 = "verified"
      BY <3>2
    <3> QED BY <1>1, <1>2, <2>3, <3>3, <3>4 DEF EntryOK, Holds, Owners
  <2> QED BY <2>1, <2>2, <2>3 DEF Owners
<1>3. CASE e # NoFile
  <2>1. e \in IndexEntry /\ (e.refined => e.artifact_path = "refined")
    BY <1>3 DEF EntryOK
  <2>2. CASE op = "extract"
    <3>1. m = PreserveDownstream(e, ExtractEntry)
      BY <1>3, <2>2, <1>0 DEF MergeIndexEntry
    <3>2. m \in IndexEntry
      <4>1. /\ e.artifact_path \in {"", "extracted", "refined"} /\ e.refined \in BOOLEAN
            /\ e.stage2 \in {"absent", "verified", "not_verified"}
        BY <2>1 DEF IndexEntry
      <4>2. m = [artifact_path |-> IF e.refined THEN e.artifact_path ELSE ExtractEntry.artifact_path,
                 refined |-> e.refined, stage2 |-> e.stage2]
        BY <3>1 DEF PreserveDownstream
      <4>3. CASE e.refined = TRUE
        <5>1. m = [artifact_path |-> e.artifact_path, refined |-> TRUE, stage2 |-> e.stage2]
          BY <4>2, <4>3
        <5> QED BY <4>1, <5>1 DEF IndexEntry
      <4>4. CASE e.refined = FALSE
        <5>1. m = [artifact_path |-> "extracted", refined |-> FALSE, stage2 |-> e.stage2]
          BY <4>2, <4>4 DEF ExtractEntry
        <5> QED BY <4>1, <5>1 DEF IndexEntry
      <4> QED BY <4>1, <4>3, <4>4
    <3>3. /\ m.artifact_path = IF e.refined THEN e.artifact_path ELSE "extracted"
          /\ m.refined = e.refined /\ m.stage2 = e.stage2
      BY <3>1 DEF PreserveDownstream, ExtractEntry
    <3> QED BY <1>1, <2>1, <2>2, <3>2, <3>3 DEF EntryOK, Holds, Owners
  <2>3. CASE op = "refine"
    <3>1. m = [RefineEntry EXCEPT !.stage2 = e.stage2]
      BY <1>3, <2>3, <1>0 DEF MergeIndexEntry, PreserveStage2
    <3>2. m \in IndexEntry
      BY <2>1, <3>1 DEF IndexEntry, RefineEntry
    <3>3. m.artifact_path = "refined" /\ m.refined /\ m.stage2 = e.stage2
      BY <3>1 DEF RefineEntry
    <3> QED BY <1>1, <2>1, <2>3, <3>2, <3>3 DEF EntryOK, Holds, Owners
  <2>4. CASE op = "finalize"
    <3>1. m = [e EXCEPT !.stage2 = VerifiedEntry(ReceiptFor(s)).stage2]
      BY <1>3, <2>4, <1>0 DEF MergeIndexEntry, PreserveRefinedOnly
    <3>2. VerifiedEntry(ReceiptFor(s)).stage2 = "verified"
      BY <2>4 DEF VerifiedEntry
    <3>3. m \in IndexEntry /\ m.stage2 = "verified"
      BY <2>1, <3>1, <3>2 DEF IndexEntry
    <3>4. m.artifact_path = e.artifact_path /\ m.refined = e.refined
      BY <2>1, <3>1 DEF IndexEntry
    <3> QED BY <1>1, <2>1, <2>4, <3>3, <3>4 DEF EntryOK, Holds, Owners
  <2> QED BY <2>2, <2>3, <2>4 DEF Owners
<1> QED BY <1>2, <1>3

\* AckedIsIndexed, entry by entry.
LEMMA AckedHolds ==
  AckedIsIndexed <=>
    \A f \in Findings, op \in Owners : <<op, f>> \in acked => Holds(index[f], op)
BY DEF AckedIsIndexed, Holds, Owners

LEMMA WriteIndexKeepsAcked ==
  ASSUME AInv, NEW p \in Servers, WriteIndex(p)
  PROVE  AckedIsIndexed' /\ \A f \in Findings : EntryOK(index'[f])
<1> DEFINE f == call[p].f
           op == call[p].op
           m == MergeIndexEntry(op, index[f], call[p].sess)
<1>1. At(p, "index") /\ f \in Findings /\ op \in Owners /\ call[p].idx = index
  BY DEF WriteIndex, AInv, SInv, IInv, CallOK, Owners
<1>2. op = "finalize" => ReceiptFor(call[p].sess).verified
  BY <1>1, ReceiptOK DEF AInv, SInv, IInv, CallOK, CarriesSession
<1>3. index' = [index EXCEPT ![f] = m] /\ acked' = acked \cup {<<op, f>>}
  BY <1>1 DEF WriteIndex, ReturnOk
<1>4. EntryOK(index[f])
  BY <1>1 DEF AInv
<1>5. /\ EntryOK(m) /\ Holds(m, op)
      /\ \A other \in Owners : Holds(index[f], other) => Holds(m, other)
  BY <1>1, <1>2, <1>4, MergePreserves
<1> HIDE DEF m
<1>6. index'[f] = m /\ \A g \in Findings : g # f => index'[g] = index[g]
  BY <1>1, <1>3 DEF AInv, SInv, IInv, TypeOK
<1>7. ASSUME NEW g \in Findings, NEW o \in Owners, <<o, g>> \in acked'
      PROVE  Holds(index'[g], o)
  <2>1. <<o, g>> \in acked => Holds(index[g], o)
    BY AckedHolds DEF AInv
  <2>2. <<o, g>> \notin acked => o = op /\ g = f
    BY <1>3, <1>7
  <2> HIDE DEF op, f
  <2> QED BY <1>5, <1>6, <2>1, <2>2
<1>8. AckedIsIndexed'
  BY <1>7 DEF AckedIsIndexed, Holds, Owners
<1> QED BY <1>5, <1>6, <1>8 DEF AInv

\* A request touches neither the index nor what was acknowledged.
LEMMA RequestKeepsIndex ==
  ASSUME TypeOK, NEW p \in Servers, Request(p)
  PROVE  UNCHANGED <<index, acked>> /\ call'[p].pc # "index"
<1>1. ASSUME NEW op, NEW f, NEW step \in {"source", "refined", "session", "verified"},
             NEW payload, NEW sess, Begin(p, op, f, step, payload, sess)
      PROVE  UNCHANGED <<index, acked>> /\ call'[p].pc # "index"
  BY <1>1 DEF Begin, TypeOK
<1> QED
  BY <1>1 DEF Request, ExtractFinding, RefineFinding, StartVerification, AppendClarification,
     FinalizeVerification, AbortVerification

LEMMA AInvInductive ==
  ASSUME SingleWriter
  PROVE  /\ Init => AInv
         /\ AInv /\ [Next]_vars => AInv'
<1>1. ASSUME Init PROVE AInv
  BY <1>1, SInvInductive, IdleOK DEF Init, AInv, AckedIsIndexed, EntryOK, At
<1>2. ASSUME AInv, Next PROVE AInv'
  <2> PICK p \in Servers : Request(p) \/ Step(p) \/ Stop(p)
    BY <1>2 DEF Next
  <2>1. SInv'
    BY <1>2, SInvInductive DEF AInv
  <2>2. \A q \in Servers : q = p
    BY DEF SingleWriter
  <2>3. CASE WriteIndex(p)
    <3>1. call'[p] = Idle
      BY <1>2, <2>3 DEF WriteIndex, ReturnOk, AInv, SInv, IInv, TypeOK
    <3> QED BY <1>2, <2>1, <2>2, <2>3, <3>1, WriteIndexKeepsAcked, IdleOK DEF AInv, At
  <2>4. CASE ReadIndex(p)
    <3>1. index' = index /\ acked' = acked /\ call'[p].idx = index
      BY <1>2, <2>4 DEF ReadIndex, AInv, SInv, IInv, TypeOK, Call
    <3> QED BY <1>2, <2>1, <2>2, <3>1 DEF AInv, AckedIsIndexed
  <2>5. ASSUME UNCHANGED index, call'[p].pc # "index",
               acked' = acked \/ (call[p].op \notin Owners /\ acked' = acked \cup {<<call[p].op, call[p].f>>})
        PROVE  AInv'
    <3>1. \A g \in Findings, o \in Owners : <<o, g>> \in acked' => <<o, g>> \in acked
      BY <2>5
    <3>2. AckedIsIndexed'
      BY <1>2, <2>5, <3>1 DEF AInv, AckedIsIndexed, Owners
    <3> QED BY <1>2, <2>1, <2>2, <2>5, <3>2 DEF AInv, At
  <2>6. CASE Request(p)
    BY <1>2, <2>5, <2>6, RequestKeepsIndex DEF AInv, SInv, IInv
  <2>7. CASE Stop(p) \/ WriteSource(p) \/ WriteExtracted(p) \/ WriteRefined(p) \/ WriteVerified(p)
    BY <1>2, <2>5, <2>7, IdleOK DEF Stop, WriteSource, WriteExtracted, WriteRefined, WriteVerified,
       GoTo, AInv, SInv, IInv, TypeOK, Call
  <2>8. CASE WriteSession(p)
    <3>1. call[p].op = "finalize" \/ call[p].op \in {"start", "append", "abort"}
      BY <1>2, <2>8 DEF WriteSession, AInv, SInv, CallIsFresh
    <3> QED BY <1>2, <2>5, <2>8, <3>1, IdleOK DEF WriteSession, GoTo, ReturnOk, AInv, SInv, IInv, TypeOK,
               Call, Owners
  <2> QED BY <2>3, <2>4, <2>6, <2>7, <2>8 DEF Step
<1>3. ASSUME AInv, UNCHANGED vars PROVE AInv'
  <2>1. SInv'
    BY <1>3, SInvInductive DEF AInv
  <2> QED BY <1>3, <2>1 DEF vars, AInv, AckedIsIndexed, At
<1> QED BY <1>1, <1>2, <1>3

(* With one writer, what a call has reported "ok" stays in the index: the  *)
(* merge of each of the three tools keeps the fields of the other two,     *)
(* wherever the server stopped before (MergeMode in finding_index.rs).     *)
THEOREM AckedStaysIndexed ==
  ASSUME SingleWriter
  PROVE  Spec => []AckedIsIndexed
<1>1. AInv => AckedIsIndexed
  BY DEF AInv
<1> QED BY <1>1, AInvInductive, PTL DEF Spec
=============================================================================
