------------------------ MODULE FindingRecordsProofs ------------------------
(***************************************************************************)
(* Proofs about FindingRecords, for every set of servers, findings,        *)
(* payloads and contents and every bound on the transcript.                *)
(*                                                                         *)
(* The safety invariants of the files are not inductive: a file is written *)
(* from what a call read earlier, so the invariant must also say what the  *)
(* pending calls carry (CallOK) and, because stage-2 tools trust the       *)
(* artifacts of the earlier steps, which files a pending call already has  *)
(* behind it.                                                              *)
(***************************************************************************)
EXTENDS FindingRecords, TLAPS

-----------------------------------------------------------------------------
(* Facts about session files.                                              *)

\* A new session file is well formed.
LEMMA NewSessionOK == NewSession \in SessionFile /\ WellFormed(NewSession)
BY DEF NewSession, SessionFile, States, Turn, WellFormed, Numbered, Alternates, StateAgrees

\* Appending an accepted turn to a well-formed session gives a well-formed one.
LEMMA AppendedSessionOK ==
  ASSUME NEW s \in SessionFile, WellFormed(s),
         NEW kind \in TurnKinds, NEW content \in Contents,
         NEW to \in States, CanTransition(s.state, kind, to)
  PROVE  AppendedSession(s, kind, content, to) \in SessionFile
         /\ WellFormed(AppendedSession(s, kind, content, to))
<1> DEFINE t == [seq |-> Len(s.turns), kind |-> kind, content |-> content]
           n == AppendedSession(s, kind, content, to)
<1>1. s.turns \in Seq(Turn) /\ Len(s.turns) \in Nat /\ s.state \in States /\ s.schema_ok \in BOOLEAN
  BY DEF SessionFile
<1>2. t \in Turn
  BY <1>1 DEF Turn
<1>3. /\ n.state = to /\ n.turns = Append(s.turns, t)
      /\ n.turn_count = Len(s.turns) + 1 /\ n.schema_ok = s.schema_ok
  BY DEF AppendedSession, SessionFile
<1>4. Append(s.turns, t) \in Seq(Turn) /\ Len(Append(s.turns, t)) = Len(s.turns) + 1
      /\ Append(s.turns, t)[Len(s.turns) + 1] = t
      /\ \A i \in 1..Len(s.turns) : Append(s.turns, t)[i] = s.turns[i]
  BY <1>1, <1>2
<1>5. n \in SessionFile
  <2>1. ASSUME NEW r \in Seq(Turn), NEW k \in Nat
        PROVE  [s EXCEPT !.state = to, !.turns = r, !.turn_count = k] \in SessionFile
    BY DEF SessionFile
  <2>2. Len(s.turns) + 1 \in Nat
    BY <1>1
  <2> QED BY <1>4, <2>1, <2>2 DEF AppendedSession
<1>6. /\ kind = "agent_question" => s.state \in {"open", "waiting_for_agent"} /\ to = "waiting_for_user"
      /\ kind = "user_answer" => s.state = "waiting_for_user" /\ to = "waiting_for_agent"
  BY DEF CanTransition, TransitionAppend, TurnKinds
<1>7. Numbered(n.turns)
  <2> SUFFICES ASSUME NEW i \in 1..(Len(s.turns) + 1)
               PROVE  Append(s.turns, t)[i].seq = i - 1
    BY <1>3, <1>4 DEF Numbered
  <2>1. CASE i = Len(s.turns) + 1
    BY <1>1, <1>4, <2>1
  <2>2. CASE i # Len(s.turns) + 1
    <3>1. i \in 1..Len(s.turns)
      BY <1>1, <2>2
    <3> QED BY <1>4, <3>1 DEF WellFormed, Numbered
  <2> QED BY <2>1, <2>2
<1>8. Alternates(n.turns)
  <2>1. Len(s.turns) = 0 => kind = "agent_question"
    BY <1>1, <1>6 DEF WellFormed, StateAgrees, EndsWith, TurnKinds
  <2>2. Len(s.turns) > 0 => s.turns[Len(s.turns)].kind # kind
    BY <1>1, <1>6 DEF WellFormed, StateAgrees, EndsWith, TurnKinds
  <2>3. Len(n.turns) > 0 => n.turns[1].kind = "agent_question"
    BY <1>1, <1>3, <1>4, <2>1 DEF WellFormed, Alternates
  <2>4. ASSUME NEW i \in 1..(Len(n.turns) - 1)
        PROVE  n.turns[i].kind # n.turns[i + 1].kind
    <3>1. CASE i = Len(s.turns)
      BY <1>1, <1>3, <1>4, <2>2, <3>1
    <3>2. CASE i # Len(s.turns)
      <4>1. i \in 1..(Len(s.turns) - 1) /\ i \in 1..Len(s.turns) /\ i + 1 \in 1..Len(s.turns)
        BY <1>1, <1>3, <1>4, <3>2
      <4> QED BY <1>3, <1>4, <4>1 DEF WellFormed, Alternates
    <3> QED BY <3>1, <3>2
  <2> QED BY <2>3, <2>4 DEF Alternates
<1>9. StateAgrees(n)
  BY <1>1, <1>3, <1>4, <1>6 DEF StateAgrees, EndsWith, TurnKinds
<1> QED
  BY <1>1, <1>3, <1>4, <1>5, <1>7, <1>8, <1>9 DEF WellFormed

\* Aborting or finalizing changes the state of a session file and nothing else.
LEMMA ClosedSessionOK ==
  ASSUME NEW s \in SessionFile, WellFormed(s)
  PROVE  /\ AbortedSession(s) \in SessionFile /\ WellFormed(AbortedSession(s))
         /\ FinalizedSession(s) \in SessionFile
         /\ ReceiptFor(FinalizedSession(s)) = ReceiptFor(s)
         /\ EndsWith(s.turns, "user_answer") => WellFormed(FinalizedSession(s))
BY DEF AbortedSession, FinalizedSession, SessionFile, WellFormed, StateAgrees, States, ReceiptFor

\* The receipt of a session that ends with an answer is a verified one.
LEMMA ReceiptOK ==
  ASSUME NEW s \in SessionFile, WellFormed(s), EndsWith(s.turns, "user_answer")
  PROVE  /\ ReceiptFor(s) \in Receipt
         /\ ReceiptFor(s).verified
         /\ ReceiptFor(s).turn_count = Len(ReceiptFor(s).digest)
         /\ Alternates(ReceiptFor(s).digest)
         /\ EndsWith(ReceiptFor(s).digest, "user_answer")
<1>1. s.turns \in Seq(Turn) /\ Len(s.turns) \in Nat /\ s.turn_count \in Nat /\ s.schema_ok \in BOOLEAN
  BY DEF SessionFile
<1>2. Completeness(s.turns)
  <2>1. 1 \in 1..Len(s.turns) /\ s.turns[1].kind = "agent_question"
    BY <1>1 DEF WellFormed, Alternates, EndsWith
  <2>2. Len(s.turns) \in 1..Len(s.turns) /\ s.turns[Len(s.turns)].kind = "user_answer"
    BY <1>1 DEF EndsWith
  <2> QED BY <2>1, <2>2 DEF Completeness, HasKind
<1> QED
  BY <1>1, <1>2 DEF ReceiptFor, Receipt, WellFormed

-----------------------------------------------------------------------------
(* The inductive invariant.                                                *)

Carries(p, op) == call[p].op = op /\ call[p].f \in Findings

CarriesSession(p) == call[p].sess \in SessionFile /\ WellFormed(call[p].sess)

\* What the call that server p is executing carries, and which files it or an
\* earlier call has already written, by the file it is about to write.
CallOK(p) ==
  /\ At(p, "source") => Carries(p, "extract") /\ call[p].payload \in Payloads
  /\ At(p, "extracted") => Carries(p, "extract") /\ call[p].payload \in Payloads
  /\ At(p, "refined") => Carries(p, "refine") /\ call[p].payload \in Payloads
  /\ At(p, "verified") => /\ Carries(p, "finalize")
                          /\ CarriesSession(p)
                          /\ EndsWith(call[p].sess.turns, "user_answer")
  /\ At(p, "session") => /\ call[p].f \in Findings
                         /\ call[p].op \in Ops
                         /\ CarriesSession(p)
                         /\ call[p].op = "finalize" =>
                              /\ EndsWith(call[p].sess.turns, "user_answer")
                              /\ verified[call[p].f] # NoFile
  /\ At(p, "read_index") \/ At(p, "index") =>
       /\ call[p].f \in Findings
       /\ \/ call[p].op = "extract" /\ extracted[call[p].f] # NoFile
          \/ call[p].op = "refine" /\ refined[call[p].f] # NoFile
          \/ /\ call[p].op = "finalize" /\ verified[call[p].f] # NoFile
             /\ CarriesSession(p) /\ EndsWith(call[p].sess.turns, "user_answer")
  /\ At(p, "index") => /\ call[p].idx \in [Findings -> IndexEntry \cup {NoFile}]
                       /\ Backed(call[p].idx)

IInv ==
  /\ TypeOK
  /\ SessionWellFormed
  /\ ReceiptIsComplete
  /\ IndexIsBacked
  /\ \A p \in Servers : CallOK(p)

-----------------------------------------------------------------------------
(* Steps never remove a file, so what a pending call relies on stays true  *)
(* while other servers move.                                               *)

Grows ==
  /\ \A f \in Findings : extracted[f] # NoFile => extracted'[f] # NoFile
  /\ \A f \in Findings : refined[f] # NoFile => refined'[f] # NoFile
  /\ \A f \in Findings : verified[f] # NoFile => verified'[f] # NoFile

OnlyCallOf(p) == \A q \in Servers \ {p} : call'[q] = call[q]

\* An index backed by the files stays backed when files are added and every
\* receipt on disk says verified.
LEMMA BackedGrows ==
  ASSUME NEW idx, Backed(idx), Grows, ReceiptIsComplete'
  PROVE  Backed(idx)'
BY DEF Backed, Grows, ReceiptIsComplete

\* The calls of the other servers stay consistent through a step of server p.
LEMMA OthersKeepCallOK ==
  ASSUME TypeOK, \A q \in Servers : CallOK(q), Grows, ReceiptIsComplete',
         NEW p \in Servers, OnlyCallOf(p), CallOK(p)'
  PROVE  \A q \in Servers : CallOK(q)'
<1> SUFFICES ASSUME NEW q \in Servers \ {p} PROVE CallOK(q)'
  OBVIOUS
<1>1. call'[q] = call[q] /\ CallOK(q)
  BY DEF OnlyCallOf
<1>2. At(q, "index") => Backed(call[q].idx) /\ Backed(call[q].idx)'
  BY <1>1, BackedGrows DEF CallOK
<1> QED
  BY <1>1, <1>2 DEF CallOK, Grows, At, Carries, CarriesSession

\* A step that writes no file preserves the invariant if the call it leaves
\* server p with is consistent.
LEMMA NoFileWritten ==
  ASSUME IInv, NEW p \in Servers, OnlyCallOf(p),
         call' \in [Servers -> Call], acked' = acked, CallOK(p)',
         UNCHANGED <<source, extracted, refined, session, verified, index>>
  PROVE  IInv'
<1>1. Grows
  BY DEF Grows
<1>2. TypeOK' /\ SessionWellFormed' /\ ReceiptIsComplete' /\ IndexIsBacked'
  BY DEF IInv, TypeOK, SessionWellFormed, ReceiptIsComplete, IndexIsBacked, Backed
<1>3. \A q \in Servers : CallOK(q)'
  BY <1>1, <1>2, OthersKeepCallOK DEF IInv
<1> QED
  BY <1>2, <1>3 DEF IInv

\* Accepting a request.
LEMMA BeginInv ==
  ASSUME IInv, NEW p \in Servers, NEW op \in Ops, NEW f \in Findings,
         NEW step \in Steps \ {"idle", "read_index", "index"},
         NEW payload \in Payloads \cup {NoFile}, NEW sess \in SessionFile \cup {NoFile},
         Begin(p, op, f, step, payload, sess), CallOK(p)'
  PROVE  IInv'
<1>1. [pc |-> step, op |-> op, f |-> f, payload |-> payload, sess |-> sess, idx |-> NoFile] \in Call
  BY DEF Call
<1>2. call' \in [Servers -> Call] /\ OnlyCallOf(p)
  BY <1>1 DEF IInv, TypeOK, Begin, OnlyCallOf
<1> QED
  BY <1>2, NoFileWritten DEF Begin

LEMMA RequestInv ==
  ASSUME IInv, NEW p \in Servers, Request(p)
  PROVE  IInv'
<1> USE ConstantsAssumption
<1> PICK f \in Findings :
      \/ \E payload \in Payloads : ExtractFinding(p, f, payload)
      \/ RefineFinding(p, f)
      \/ StartVerification(p, f)
      \/ \E kind \in TurnKinds, content \in Contents : AppendClarification(p, f, kind, content)
      \/ FinalizeVerification(p, f)
      \/ AbortVerification(p, f)
  BY DEF Request
<1>t. TypeOK /\ (session[f] # NoFile => session[f] \in SessionFile /\ WellFormed(session[f]))
  BY DEF IInv, TypeOK, SessionWellFormed
<1>1. ASSUME NEW payload \in Payloads, ExtractFinding(p, f, payload)
      PROVE  IInv'
  <2>1. CallOK(p)'
    BY <1>1, <1>t DEF ExtractFinding, Begin, CallOK, At, Carries, TypeOK
  <2> QED BY <1>1, <2>1, BeginInv DEF ExtractFinding, Ops, Steps
<1>2. CASE RefineFinding(p, f)
  <2>1. CallOK(p)'
    BY <1>2, <1>t DEF RefineFinding, Begin, CallOK, At, Carries, TypeOK
  <2> QED BY <1>2, <1>t, <2>1, BeginInv DEF RefineFinding, Ops, Steps, TypeOK
<1>3. CASE StartVerification(p, f)
  <2>1. CallOK(p)'
    BY <1>3, <1>t, NewSessionOK DEF StartVerification, Begin, CallOK, At, CarriesSession, TypeOK, Ops
  <2> QED BY <1>3, <2>1, BeginInv, NewSessionOK DEF StartVerification, Ops, Steps
<1>4. ASSUME NEW kind \in TurnKinds, NEW content \in Contents,
             AppendClarification(p, f, kind, content)
      PROVE  IInv'
  <2> PICK to \in States :
        /\ CanTransition(session[f].state, kind, to)
        /\ Begin(p, "append", f, "session", NoFile, AppendedSession(session[f], kind, content, to))
    BY <1>4 DEF AppendClarification
  <2> DEFINE n == AppendedSession(session[f], kind, content, to)
  <2>1. n \in SessionFile /\ WellFormed(n)
    BY <1>4, <1>t, AppendedSessionOK DEF AppendClarification
  <2> HIDE DEF n
  <2>2. CallOK(p)'
    BY <1>t, <2>1 DEF Begin, CallOK, At, CarriesSession, TypeOK, Ops, n
  <2> QED BY <2>1, <2>2, BeginInv DEF Ops, Steps, n
<1>5. CASE FinalizeVerification(p, f)
  <2>1. session[f] \in SessionFile /\ WellFormed(session[f])
        /\ EndsWith(session[f].turns, "user_answer")
    BY <1>5, <1>t DEF FinalizeVerification, CanTransition, TransitionFinalize, TransitionStart,
       TransitionAbort, TurnKinds, WellFormed, StateAgrees
  <2>2. CallOK(p)'
    BY <1>5, <1>t, <2>1 DEF FinalizeVerification, Begin, CallOK, At, Carries, CarriesSession, TypeOK
  <2> QED BY <1>5, <2>1, <2>2, BeginInv DEF FinalizeVerification, Ops, Steps
<1>6. CASE AbortVerification(p, f)
  <2>1. AbortedSession(session[f]) \in SessionFile /\ WellFormed(AbortedSession(session[f]))
    BY <1>6, <1>t, ClosedSessionOK DEF AbortVerification
  <2>2. CallOK(p)'
    BY <1>6, <1>t, <2>1 DEF AbortVerification, Begin, CallOK, At, CarriesSession, TypeOK, Ops
  <2> QED BY <1>6, <2>1, <2>2, BeginInv DEF AbortVerification, Ops, Steps
<1> QED
  BY <1>1, <1>2, <1>3, <1>4, <1>5, <1>6

\* A call that has ended is consistent.
LEMMA IdleOK == Idle \in Call /\ Idle.pc = "idle"
BY DEF Idle, Call, Steps

LEMMA StopInv ==
  ASSUME IInv, NEW p \in Servers, Stop(p)
  PROVE  IInv'
<1>1. call' \in [Servers -> Call] /\ OnlyCallOf(p) /\ call'[p].pc = "idle"
  BY IdleOK DEF IInv, TypeOK, Stop, OnlyCallOf
<1>2. CallOK(p)'
  BY <1>1 DEF CallOK, At
<1> QED
  BY <1>1, <1>2, NoFileWritten DEF Stop

\* What GoTo and ReturnOk do to the pending calls.
LEMMA MoveOK ==
  ASSUME TypeOK, NEW p \in Servers, call[p].op \in Ops, call[p].f \in Findings,
         \/ ReturnOk(p)
         \/ \E step \in Steps : GoTo(p, step)
  PROVE  call' \in [Servers -> Call] /\ OnlyCallOf(p) /\ acked' \in SUBSET (Ops \X Findings)
<1>1. CASE ReturnOk(p)
  BY <1>1, IdleOK DEF ReturnOk, TypeOK, OnlyCallOf
<1>2. ASSUME NEW step \in Steps, GoTo(p, step)
      PROVE  call' \in [Servers -> Call] /\ OnlyCallOf(p) /\ acked' \in SUBSET (Ops \X Findings)
  <2>1. [call[p] EXCEPT !.pc = step] \in Call
    BY DEF TypeOK, Call
  <2> QED BY <1>2, <2>1 DEF GoTo, TypeOK, OnlyCallOf
<1> QED BY <1>1, <1>2

LEMMA StepInv ==
  ASSUME IInv, NEW p \in Servers, Step(p)
  PROVE  IInv'
<1> USE ConstantsAssumption
<1>t. TypeOK /\ CallOK(p) /\ SessionWellFormed /\ ReceiptIsComplete /\ IndexIsBacked
  BY DEF IInv
<1>q. ASSUME OnlyCallOf(p), Grows, TypeOK', SessionWellFormed', ReceiptIsComplete',
             IndexIsBacked', CallOK(p)'
      PROVE  IInv'
  BY <1>t, <1>q, OthersKeepCallOK DEF IInv
<1>1. CASE WriteSource(p)
  <2>1. Carries(p, "extract") /\ call[p].payload \in Payloads
    BY <1>1, <1>t DEF WriteSource, CallOK
  <2>2. call' \in [Servers -> Call] /\ OnlyCallOf(p) /\ acked' \in SUBSET (Ops \X Findings)
    BY <1>1, <1>t, <2>1, MoveOK DEF WriteSource, Carries, Ops, Steps
  <2>3. TypeOK'
    BY <1>1, <1>t, <2>1, <2>2 DEF WriteSource, TypeOK, Carries
  <2>4. SessionWellFormed' /\ ReceiptIsComplete' /\ IndexIsBacked' /\ Grows
    BY <1>1, <1>t DEF WriteSource, SessionWellFormed, ReceiptIsComplete, IndexIsBacked, Backed, Grows
  <2>5. CallOK(p)'
    BY <1>1, <1>t, <2>1 DEF WriteSource, GoTo, CallOK, At, Carries, TypeOK, Call
  <2> QED BY <1>q, <2>2, <2>3, <2>4, <2>5
<1>2. CASE WriteExtracted(p)
  <2>1. Carries(p, "extract") /\ call[p].payload \in Payloads
    BY <1>2, <1>t DEF WriteExtracted, CallOK
  <2>2. call' \in [Servers -> Call] /\ OnlyCallOf(p) /\ acked' \in SUBSET (Ops \X Findings)
    BY <1>2, <1>t, <2>1, MoveOK DEF WriteExtracted, Carries, Ops, Steps
  <2>3. TypeOK'
    BY <1>2, <1>t, <2>1, <2>2 DEF WriteExtracted, TypeOK, Carries
  <2>4. SessionWellFormed' /\ ReceiptIsComplete' /\ Grows
    BY <1>2, <1>t, <2>1 DEF WriteExtracted, SessionWellFormed, ReceiptIsComplete, Grows, TypeOK
  <2>5. IndexIsBacked'
    BY <1>2, <1>t, <2>4, BackedGrows DEF WriteExtracted, IndexIsBacked, Backed
  <2>6. CallOK(p)'
    BY <1>2, <1>t, <2>1 DEF WriteExtracted, GoTo, CallOK, At, Carries, TypeOK, Call
  <2> QED BY <1>q, <2>2, <2>3, <2>4, <2>5, <2>6
<1>3. CASE WriteRefined(p)
  <2>1. Carries(p, "refine") /\ call[p].payload \in Payloads
    BY <1>3, <1>t DEF WriteRefined, CallOK
  <2>2. call' \in [Servers -> Call] /\ OnlyCallOf(p) /\ acked' \in SUBSET (Ops \X Findings)
    BY <1>3, <1>t, <2>1, MoveOK DEF WriteRefined, Carries, Ops, Steps
  <2>3. TypeOK'
    BY <1>3, <1>t, <2>1, <2>2 DEF WriteRefined, TypeOK, Carries
  <2>4. SessionWellFormed' /\ ReceiptIsComplete' /\ Grows
    BY <1>3, <1>t, <2>1 DEF WriteRefined, SessionWellFormed, ReceiptIsComplete, Grows, TypeOK
  <2>5. IndexIsBacked'
    BY <1>3, <1>t, <2>4, BackedGrows DEF WriteRefined, IndexIsBacked, Backed
  <2>6. CallOK(p)'
    BY <1>3, <1>t, <2>1 DEF WriteRefined, GoTo, CallOK, At, Carries, TypeOK, Call
  <2> QED BY <1>q, <2>2, <2>3, <2>4, <2>5, <2>6
<1>4. CASE ReadIndex(p)
  <2>1. [call[p] EXCEPT !.pc = "index", !.idx = index] \in Call
    BY <1>t DEF TypeOK, Call, Steps
  <2>2. call' \in [Servers -> Call] /\ OnlyCallOf(p)
    BY <1>4, <1>t, <2>1 DEF ReadIndex, TypeOK, OnlyCallOf
  <2>3. call'[p].pc = "index" /\ call'[p].idx = index /\ call'[p].op = call[p].op
        /\ call'[p].f = call[p].f /\ call'[p].sess = call[p].sess
    BY <1>4, <1>t DEF ReadIndex, TypeOK, Call
  <2>4. CallOK(p)'
    BY <1>4, <1>t, <2>3 DEF ReadIndex, CallOK, At, Carries, CarriesSession, IndexIsBacked, Backed, TypeOK
  <2> QED BY <1>4, <2>2, <2>4, NoFileWritten DEF ReadIndex
<1>5. CASE WriteIndex(p)
  <2>1. call' \in [Servers -> Call] /\ OnlyCallOf(p) /\ acked' \in SUBSET (Ops \X Findings)
    BY <1>5, <1>t, MoveOK DEF WriteIndex, CallOK, Ops
  <2>2. Grows /\ SessionWellFormed' /\ ReceiptIsComplete'
    BY <1>5, <1>t DEF WriteIndex, SessionWellFormed, ReceiptIsComplete, Grows
  <2> DEFINE old == call[p].idx[call[p].f]
             new == MergeIndexEntry(call[p].op, old, call[p].sess)
  <2>3. call[p].f \in Findings /\ call[p].idx \in [Findings -> IndexEntry \cup {NoFile}]
        /\ Backed(call[p].idx)
    BY <1>5, <1>t DEF WriteIndex, CallOK
  <2>4. /\ new \in IndexEntry
        /\ new.artifact_path = "extracted" => extracted[call[p].f] # NoFile
        /\ new.artifact_path = "refined" => refined[call[p].f] # NoFile
        /\ new.refined => refined[call[p].f] # NoFile
        /\ new.stage2 = "verified" => verified[call[p].f] # NoFile /\ verified[call[p].f].verified
        /\ new.stage2 # "not_verified"
    <3>1. CASE call[p].op = "extract"
      BY <1>5, <1>t, <2>3, <3>1 DEF WriteIndex, CallOK, MergeIndexEntry, ExtractEntry,
         PreserveDownstream, IndexEntry, Backed
    <3>2. CASE call[p].op = "refine"
      BY <1>5, <1>t, <2>3, <3>2 DEF WriteIndex, CallOK, MergeIndexEntry, RefineEntry,
         PreserveStage2, IndexEntry, Backed
    <3>3. CASE call[p].op = "finalize"
      <4>1. verified[call[p].f] # NoFile /\ verified[call[p].f].verified
            /\ ReceiptFor(call[p].sess).verified
        BY <1>5, <1>t, <2>3, <3>3, ReceiptOK DEF WriteIndex, CallOK, CarriesSession, ReceiptIsComplete
      <4> QED
        BY <2>3, <3>3, <4>1 DEF MergeIndexEntry, VerifiedEntry, PreserveRefinedOnly, IndexEntry, Backed
    <3> QED BY <1>5, <1>t, <3>1, <3>2, <3>3 DEF WriteIndex, CallOK
  <2>5. index' = [call[p].idx EXCEPT ![call[p].f] = new]
    BY <1>5 DEF WriteIndex
  <2> HIDE DEF new
  <2>6. TypeOK'
    BY <1>5, <1>t, <2>1, <2>3, <2>4, <2>5 DEF WriteIndex, TypeOK
  <2>7. IndexIsBacked'
    BY <1>5, <1>t, <2>3, <2>4, <2>5 DEF WriteIndex, IndexIsBacked, Backed
  <2>8. CallOK(p)'
    BY <1>5, <1>t, IdleOK DEF WriteIndex, ReturnOk, CallOK, At, TypeOK
  <2> QED BY <1>q, <2>1, <2>2, <2>6, <2>7, <2>8
<1>6. CASE WriteVerified(p)
  <2>1. Carries(p, "finalize") /\ CarriesSession(p) /\ EndsWith(call[p].sess.turns, "user_answer")
    BY <1>6, <1>t DEF WriteVerified, CallOK
  <2> DEFINE r == ReceiptFor(call[p].sess)
             fin == FinalizedSession(call[p].sess)
  <2>2. r \in Receipt /\ r.verified /\ r.turn_count = Len(r.digest) /\ Alternates(r.digest)
        /\ EndsWith(r.digest, "user_answer")
    BY <2>1, ReceiptOK DEF CarriesSession
  <2>3. fin \in SessionFile /\ WellFormed(fin) /\ EndsWith(fin.turns, "user_answer")
    BY <2>1, ClosedSessionOK DEF CarriesSession, FinalizedSession, SessionFile
  <2>4. verified' = [verified EXCEPT ![call[p].f] = r]
        /\ call' = [call EXCEPT ![p].pc = "session", ![p].sess = fin]
    BY <1>6 DEF WriteVerified
  <2> HIDE DEF r, fin
  <2>5. [call[p] EXCEPT !.pc = "session", !.sess = fin] \in Call
    BY <1>t, <2>3 DEF TypeOK, Call, Steps
  <2>a. call' \in [Servers -> Call] /\ OnlyCallOf(p)
    BY <1>t, <2>4, <2>5 DEF TypeOK, OnlyCallOf
  <2>b. verified' \in [Findings -> Receipt \cup {NoFile}]
    BY <1>t, <2>2, <2>4 DEF TypeOK
  <2>6. TypeOK'
    BY <1>6, <1>t, <2>a, <2>b DEF WriteVerified, TypeOK
  <2>7. SessionWellFormed' /\ ReceiptIsComplete' /\ Grows
    BY <1>6, <1>t, <2>1, <2>2, <2>4 DEF WriteVerified, SessionWellFormed, ReceiptIsComplete, Grows, TypeOK
  <2>8. IndexIsBacked'
    BY <1>6, <1>t, <2>7, BackedGrows DEF WriteVerified, IndexIsBacked, Backed
  <2>9. call'[p].pc = "session" /\ call'[p].sess = fin /\ call'[p].op = "finalize"
        /\ call'[p].f = call[p].f
    BY <1>t, <2>1, <2>4 DEF TypeOK, Call, Carries
  <2>10. CallOK(p)'
    BY <1>t, <2>1, <2>2, <2>3, <2>4, <2>9 DEF CallOK, At, Carries, CarriesSession, TypeOK, Ops
  <2> QED BY <1>q, <2>a, <2>6, <2>7, <2>8, <2>10
<1>7. CASE WriteSession(p)
  <2>1. /\ call[p].f \in Findings /\ call[p].op \in Ops
        /\ call[p].sess \in SessionFile /\ WellFormed(call[p].sess)
    BY <1>7, <1>t DEF WriteSession, CallOK, CarriesSession
  <2>2. call' \in [Servers -> Call] /\ OnlyCallOf(p) /\ acked' \in SUBSET (Ops \X Findings)
    BY <1>7, <1>t, <2>1, MoveOK DEF WriteSession, Steps
  <2>3. TypeOK'
    BY <1>7, <1>t, <2>1, <2>2 DEF WriteSession, TypeOK
  <2>4. SessionWellFormed' /\ ReceiptIsComplete' /\ IndexIsBacked' /\ Grows
    BY <1>7, <1>t, <2>1 DEF WriteSession, SessionWellFormed, ReceiptIsComplete, IndexIsBacked,
       Backed, Grows, TypeOK
  <2>5. CASE call[p].op = "finalize"
    <3>1. call'[p].pc = "read_index" /\ call'[p].op = "finalize" /\ call'[p].f = call[p].f
          /\ call'[p].sess = call[p].sess
      BY <1>7, <1>t, <2>5 DEF WriteSession, GoTo, TypeOK, Call
    <3>2. CallOK(p)'
      BY <1>7, <1>t, <2>1, <2>5, <3>1 DEF WriteSession, CallOK, At, Carries, CarriesSession
    <3> QED BY <1>q, <2>2, <2>3, <2>4, <3>2
  <2>6. CASE call[p].op # "finalize"
    <3>1. CallOK(p)'
      BY <1>7, <1>t, <2>6, IdleOK DEF WriteSession, ReturnOk, CallOK, At, TypeOK
    <3> QED BY <1>q, <2>2, <2>3, <2>4, <3>1
  <2> QED BY <2>5, <2>6
<1> QED
  BY <1>1, <1>2, <1>3, <1>4, <1>5, <1>6, <1>7 DEF Step

\* The invariant is inductive.
LEMMA IInvInductive ==
  /\ Init => IInv
  /\ IInv /\ [Next]_vars => IInv'
<1>1. ASSUME Init PROVE IInv
  <2>1. TypeOK
    BY <1>1, IdleOK DEF Init, TypeOK
  <2>2. SessionWellFormed /\ ReceiptIsComplete /\ IndexIsBacked
    BY <1>1 DEF Init, SessionWellFormed, ReceiptIsComplete, IndexIsBacked, Backed
  <2>3. \A p \in Servers : CallOK(p)
    BY <1>1, IdleOK DEF Init, CallOK, At
  <2> QED BY <2>1, <2>2, <2>3 DEF IInv
<1>2. ASSUME IInv, Next PROVE IInv'
  BY <1>2, RequestInv, StepInv, StopInv DEF Next
<1>3. ASSUME IInv, UNCHANGED vars PROVE IInv'
  BY <1>3 DEF vars, IInv, TypeOK, SessionWellFormed, ReceiptIsComplete, IndexIsBacked, Backed,
     CallOK, At, Carries, CarriesSession
<1> QED
  BY <1>1, <1>2, <1>3

(* The state is always well typed: a call never writes a file it has not   *)
(* built, nor reads one that is not there.                                 *)
THEOREM TypeCorrect == Spec => []TypeOK
<1>1. IInv => TypeOK
  BY DEF IInv
<1> QED BY <1>1, IInvInductive, PTL DEF Spec

(* Whatever number of servers work in the run directory, and wherever they *)
(* stop, every session file on disk is well formed.                        *)
THEOREM SessionsStayWellFormed == Spec => []SessionWellFormed
<1>1. IInv => SessionWellFormed
  BY DEF IInv
<1> QED BY <1>1, IInvInductive, PTL DEF Spec

(* Every receipt on disk certifies a completed clarification round.        *)
THEOREM ReceiptsAreComplete == Spec => []ReceiptIsComplete
<1>1. IInv => ReceiptIsComplete
  BY DEF IInv
<1> QED BY <1>1, IInvInductive, PTL DEF Spec

(* The index only refers to artifacts that exist.                          *)
THEOREM IndexStaysBacked == Spec => []IndexIsBacked
<1>1. IInv => IndexIsBacked
  BY DEF IInv
<1> QED BY <1>1, IInvInductive, PTL DEF Spec
=============================================================================
