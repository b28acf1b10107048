--------------------------- MODULE FindingRecords ---------------------------
(***************************************************************************)
(* The records one run keeps for its findings, and the six tools that      *)
(* write them: extract_finding and refine_finding (stage 1),               *)
(* start_verification, append_clarification, finalize_verification and     *)
(* abort_verification (stage 2).                                           *)
(*                                                                         *)
(* A run is a directory: five files per finding and one index.json.  Every *)
(* write replaces a whole file by rename (atomic_file.rs), so a file is a  *)
(* value, and a call is a sequence of reads and writes of files with other *)
(* servers' steps, or the end of the process, possible in between.  What a *)
(* call carries from its reads to its writes is in call[p].                *)
(***************************************************************************)
EXTENDS SessionStates, FiniteSets

CONSTANTS
  Servers,   \* server processes working in the run directory
  Findings,  \* finding ids of the run
  Payloads,  \* what the extracted fields of a finding can be
  MaxTurns,  \* bound: no turn is appended to a transcript of this length
  MayStop,   \* whether a server can stop (crash, or an I/O error) inside a call
  NoFile     \* stands for a file, or an index entry, that does not exist

ASSUME ConstantsAssumption ==
  /\ MaxTurns \in Nat
  /\ MayStop \in BOOLEAN
  /\ NoFile \notin Payloads
  /\ NoFile \notin SessionFile
  /\ NoFile \notin Receipt

VARIABLES
  source,     \* stage-1.source.json of each finding
  extracted,  \* stage-1.extracted.json
  refined,    \* stage-1.refined.json: the extraction it embeds
  session,    \* stage-2.session.json
  verified,   \* stage-2.verified.json
  index,      \* index.json: the entry of each finding
  call,       \* the call each server is executing
  acked       \* history: the calls that returned "ok", as <<operation, finding>>

stage2 == <<session, verified>>
vars == <<source, extracted, refined, session, verified, index, call, acked>>

-----------------------------------------------------------------------------
(* The index.  artifact_path names the extracted or the refined artifact,  *)
(* or is the empty sentinel; refined stands for refined_at and             *)
(* orchestrator_version being set, stage2 for verified_at, verified and    *)
(* stage2_path.                                                            *)

IndexEntry == [artifact_path : {"", "extracted", "refined"},
               refined : BOOLEAN,
               stage2 : {"absent", "verified", "not_verified"}]

ASSUME EntryAssumption == NoFile \notin IndexEntry

ExtractEntry == [artifact_path |-> "extracted", refined |-> FALSE, stage2 |-> "absent"]

RefineEntry == [artifact_path |-> "refined", refined |-> TRUE, stage2 |-> "absent"]

\* A plausible bug: the entry records the session's state instead of the flag.
VerifiedEntryState(receipt) ==
  [artifact_path |-> "", refined |-> FALSE, stage2 |-> "finalized"]

VerifiedEntry(receipt) ==
  [artifact_path |-> "", refined |-> FALSE,
   stage2 |-> IF receipt.verified THEN "verified" ELSE "not_verified"]

\* A plausible bug: a repeated extraction writes its own entry wholesale.
PreserveDownstreamReplace(existing, entry) == entry

PreserveDownstream(existing, entry) ==
  [artifact_path |-> IF existing.refined THEN existing.artifact_path
                                         ELSE entry.artifact_path,
   refined |-> existing.refined,
   stage2 |-> existing.stage2]

PreserveStage2(existing, entry) == [entry EXCEPT !.stage2 = existing.stage2]

PreserveRefinedOnly(existing, entry) == [existing EXCEPT !.stage2 = entry.stage2]

MergeIndexEntry(op, existing, sess) ==
  CASE op = "extract" -> IF existing = NoFile THEN ExtractEntry
                         ELSE PreserveDownstream(existing, ExtractEntry)
    [] op = "refine" -> IF existing = NoFile THEN RefineEntry
                        ELSE PreserveStage2(existing, RefineEntry)
    [] op = "finalize" -> IF existing = NoFile THEN VerifiedEntry(ReceiptFor(sess))
                          ELSE PreserveRefinedOnly(existing, VerifiedEntry(ReceiptFor(sess)))

-----------------------------------------------------------------------------
(* Calls.  pc names the file the call writes (or, for "read_index", reads) *)
(* next.                                                                   *)

Ops == {"extract", "refine", "start", "append", "finalize", "abort"}
Steps == {"idle", "source", "extracted", "refined", "verified", "session",
          "read_index", "index"}

Call == [pc : Steps,
         op : Ops \cup {NoFile},
         f : Findings \cup {NoFile},
         payload : Payloads \cup {NoFile},
         sess : SessionFile \cup {NoFile},
         idx : [Findings -> IndexEntry \cup {NoFile}] \cup {NoFile}]

Idle == [pc |-> "idle", op |-> NoFile, f |-> NoFile, payload |-> NoFile,
         sess |-> NoFile, idx |-> NoFile]

Init ==
  /\ source = [f \in Findings |-> NoFile]
  /\ extracted = [f \in Findings |-> NoFile]
  /\ refined = [f \in Findings |-> NoFile]
  /\ session = [f \in Findings |-> NoFile]
  /\ verified = [f \in Findings |-> NoFile]
  /\ index = [f \in Findings |-> NoFile]
  /\ call = [p \in Servers |-> Idle]
  /\ acked = {}

At(p, step) == call[p].pc = step

\* The request has been parsed and its reads done; nothing is on disk yet.
Begin(p, op, f, step, payload, sess) ==
  /\ At(p, "idle")
  /\ call' = [call EXCEPT ![p] = [pc |-> step, op |-> op, f |-> f, payload |-> payload,
                                  sess |-> sess, idx |-> NoFile]]
  /\ UNCHANGED <<source, extracted, refined, session, verified, index, acked>>

GoTo(p, step) == call' = [call EXCEPT ![p].pc = step] /\ UNCHANGED acked

ReturnOk(p) ==
  /\ call' = [call EXCEPT ![p] = Idle]
  /\ acked' = acked \cup {<<call[p].op, call[p].f>>}

\* The process ends, or a write fails and the call returns io_error; the files
\* written so far stay.  A server started later is an idle one.
Stop(p) ==
  /\ MayStop
  /\ ~At(p, "idle")
  /\ call' = [call EXCEPT ![p] = Idle]
  /\ UNCHANGED <<source, extracted, refined, session, verified, index, acked>>

-----------------------------------------------------------------------------
(* Stage 1: extract_finding and refine_finding.                            *)

ExtractFinding(p, f, payload) == Begin(p, "extract", f, "source", payload, NoFile)

WriteSource(p) ==
  /\ At(p, "source")
  /\ source' = [source EXCEPT ![call[p].f] = call[p].payload]
  /\ GoTo(p, "extracted")
  /\ UNCHANGED <<extracted, refined, session, verified, index>>

\* A plausible bug: the index is updated without the artifact having been written.
WriteExtractedLate(p) ==
  /\ At(p, "extracted")
  /\ GoTo(p, "read_index")
  /\ UNCHANGED <<source, extracted, refined, session, verified, index>>

WriteExtracted(p) ==
  /\ At(p, "extracted")
  /\ extracted' = [extracted EXCEPT ![call[p].f] = call[p].payload]
  /\ GoTo(p, "read_index")
  /\ UNCHANGED <<source, refined, session, verified, index>>

RefineFinding(p, f) ==
  /\ extracted[f] # NoFile
  /\ Begin(p, "refine", f, "refined", extracted[f], NoFile)

WriteRefined(p) ==
  /\ At(p, "refined")
  /\ refined' = [refined EXCEPT ![call[p].f] = call[p].payload]
  /\ GoTo(p, "read_index")
  /\ UNCHANGED <<source, extracted, session, verified, index>>

-----------------------------------------------------------------------------
(* index.json: read, merged and replaced as a whole by the three tools     *)
(* that own fields of it.                                                  *)

ReadIndex(p) ==
  /\ At(p, "read_index")
  /\ call' = [call EXCEPT ![p].pc = "index", ![p].idx = index]
  /\ UNCHANGED <<source, extracted, refined, session, verified, index, acked>>

WriteIndex(p) ==
  /\ At(p, "index")
  /\ index' = [call[p].idx EXCEPT ![call[p].f] =
                 MergeIndexEntry(call[p].op, call[p].idx[call[p].f], call[p].sess)]
  /\ ReturnOk(p)
  /\ UNCHANGED <<source, extracted, refined, session, verified>>

-----------------------------------------------------------------------------
(* Stage 2: the clarification session.                                     *)

StartVerification(p, f) ==
  /\ refined[f] # NoFile
  /\ session[f] # NoFile => CanTransition(session[f].state, "start", "open")
  /\ Begin(p, "start", f, "session", NoFile, NewSession)

AppendClarification(p, f, kind, content) ==
  /\ session[f] # NoFile
  /\ Len(session[f].turns) < MaxTurns
  /\ \E to \in States :
       /\ CanTransition(session[f].state, kind, to)
       /\ Begin(p, "append", f, "session", NoFile,
                AppendedSession(session[f], kind, content, to))

FinalizeVerification(p, f) ==
  /\ session[f] # NoFile
  /\ session[f].schema_ok
  /\ CanTransition(session[f].state, "finalize", "finalized")
  /\ Begin(p, "finalize", f, "verified", NoFile, session[f])

\* A plausible bug: the session is flipped before the receipt is written.
WriteVerifiedLate(p) ==
  \/ /\ At(p, "verified")
     /\ session[call[p].f].state # "finalized"
     /\ session' = [session EXCEPT ![call[p].f] = FinalizedSession(call[p].sess)]
     /\ UNCHANGED <<source, extracted, refined, verified, index, call, acked>>
  \/ /\ At(p, "verified")
     /\ session[call[p].f].state = "finalized"
     /\ verified' = [verified EXCEPT ![call[p].f] = ReceiptFor(call[p].sess)]
     /\ GoTo(p, "read_index")
     /\ UNCHANGED <<source, extracted, refined, session, index>>

WriteVerified(p) ==
  /\ At(p, "verified")
  /\ verified' = [verified EXCEPT ![call[p].f] = ReceiptFor(call[p].sess)]
  /\ call' = [call EXCEPT ![p].pc = "session", ![p].sess = FinalizedSession(call[p].sess)]
  /\ UNCHANGED <<source, extracted, refined, session, index, acked>>

AbortVerification(p, f) ==
  /\ session[f] # NoFile
  /\ CanTransition(session[f].state, "abort", "aborted")
  /\ Begin(p, "abort", f, "session", NoFile, AbortedSession(session[f]))

\* A plausible bug: finalize answers "ok" before its index entry is written.
WriteSessionReturns(p) ==
  /\ At(p, "session")
  /\ session' = [session EXCEPT ![call[p].f] = call[p].sess]
  /\ ReturnOk(p)
  /\ UNCHANGED <<source, extracted, refined, verified, index>>

WriteSession(p) ==
  /\ At(p, "session")
  /\ session' = [session EXCEPT ![call[p].f] = call[p].sess]
  /\ IF call[p].op = "finalize" THEN GoTo(p, "read_index") ELSE ReturnOk(p)
  /\ UNCHANGED <<source, extracted, refined, verified, index>>

-----------------------------------------------------------------------------
Step(p) ==
  \/ WriteSource(p) \/ WriteExtracted(p) \/ WriteRefined(p)
  \/ ReadIndex(p) \/ WriteIndex(p)
  \/ WriteVerified(p) \/ WriteSession(p)

Request(p) ==
  \E f \in Findings :
    \/ \E payload \in Payloads : ExtractFinding(p, f, payload)
    \/ RefineFinding(p, f)
    \/ StartVerification(p, f)
    \/ \E kind \in TurnKinds, content \in Contents : AppendClarification(p, f, kind, content)
    \/ FinalizeVerification(p, f)
    \/ AbortVerification(p, f)

Next == \E p \in Servers : Request(p) \/ Step(p) \/ Stop(p)

Spec == Init /\ [][Next]_vars

(* A server that has accepted a call keeps executing it (the dispatch loop *)
(* is a plain synchronous loop); nothing makes a client send a request,    *)
(* except that FairSpec has it retry finalize_verification whenever the    *)
(* tool would accept it again and again.                                   *)
FairSpec ==
  /\ Spec
  /\ \A p \in Servers :
       /\ WF_vars(Step(p))
       /\ \A f \in Findings : SF_vars(FinalizeVerification(p, f))

-----------------------------------------------------------------------------
TypeOK ==
  /\ source \in [Findings -> Payloads \cup {NoFile}]
  /\ extracted \in [Findings -> Payloads \cup {NoFile}]
  /\ refined \in [Findings -> Payloads \cup {NoFile}]
  /\ session \in [Findings -> SessionFile \cup {NoFile}]
  /\ verified \in [Findings -> Receipt \cup {NoFile}]
  /\ index \in [Findings -> IndexEntry \cup {NoFile}]
  /\ call \in [Servers -> Call]
  /\ acked \in SUBSET (Ops \X Findings)

-----------------------------------------------------------------------------
(* Safety.  The first three hold whatever the number of servers.           *)

(* Every session file on disk is one the tools can have produced in order: *)
(* turns numbered from 0 without a gap, questions and answers alternating  *)
(* from a question on, turn_count equal to the length, and the state the   *)
(* one its last turn calls for.  Two servers interleaving their            *)
(* read-validate-rewrite sequences may lose turns but never break this     *)
(* (build_appended_session, can_transition).                               *)
SessionWellFormed ==
  \A f \in Findings : session[f] # NoFile => WellFormed(session[f])

(* A receipt on disk certifies a finished clarification round: verified,   *)
(* over a non-empty alternating transcript whose last turn is an answer,   *)
(* of the length it states (build_verified_artifact computes completeness  *)
(* "from data anyway").  In particular a receipt with verified = false is  *)
(* never written.                                                          *)
ReceiptIsComplete ==
  \A f \in Findings : verified[f] # NoFile =>
    /\ verified[f].verified
    /\ verified[f].turn_count = Len(verified[f].digest)
    /\ Alternates(verified[f].digest)
    /\ EndsWith(verified[f].digest, "user_answer")

(* The index never points at something that is not there: the artifact an  *)
(* entry names exists, an entry with refined_at has a refined artifact,    *)
(* and one with verified = true has a receipt that says so.  Every writer  *)
(* of index.json writes its artifact first (persist_extract,               *)
(* persist_refine, persist_finalize), so this survives a stop between any  *)
(* two writes and a stale index read.                                      *)
Backed(idx) ==
  \A f \in Findings : idx[f] # NoFile =>
    /\ idx[f].artifact_path = "extracted" => extracted[f] # NoFile
    /\ idx[f].artifact_path = "refined" => refined[f] # NoFile
    /\ idx[f].refined => refined[f] # NoFile
    /\ idx[f].stage2 = "verified" => verified[f] # NoFile /\ verified[f].verified
    /\ idx[f].stage2 # "not_verified"

IndexIsBacked == Backed(index)

-----------------------------------------------------------------------------
(* Safety that needs the run to have a single writer.                      *)

(* A finalized session is always accompanied by the receipt of exactly its *)
(* own transcript, also when the process stopped inside finalize or a      *)
(* receipt was left over from an earlier attempt (persist_finalize writes  *)
(* the receipt before it flips the session).                               *)
FinalizedIsReceipted ==
  \A f \in Findings :
    session[f] # NoFile /\ session[f].state = "finalized"
      => verified[f] = ReceiptFor(session[f])

(* What a call has reported "ok" stays in the index, whatever is called or *)
(* stops afterwards: an extracted finding keeps an entry with a path, a    *)
(* refined one keeps its refined path, a finalized one its verified flag   *)
(* (the preservation discipline of MergeMode in finding_index.rs).         *)
AckedIsIndexed ==
  \A f \in Findings :
    /\ <<"extract", f>> \in acked => index[f] # NoFile /\ index[f].artifact_path # ""
    /\ <<"refine", f>> \in acked =>
         index[f] # NoFile /\ index[f].artifact_path = "refined" /\ index[f].refined
    /\ <<"finalize", f>> \in acked => index[f] # NoFile /\ index[f].stage2 = "verified"

(* No committed turn is removed or altered: a rewrite of the session file  *)
(* extends the transcript, unless it restarts an aborted session           *)
(* (build_appended_session, build_aborted_session, persist_finalize).      *)
ExtendsTranscript(old, new) ==
  Len(old) <= Len(new) /\ \A i \in 1..Len(old) : new[i] = old[i]

TranscriptGrows ==
  [][\A f \in Findings : session[f] # NoFile =>
       \/ ExtendsTranscript(session[f].turns, session'[f].turns)
       \/ session[f].state = "aborted" /\ session'[f] = NewSession]_vars

(* The tools, with their reads, writes and stops, implement the one-step   *)
(* clarification session.                                                  *)
Clarification == INSTANCE ClarificationSession

ImplementsClarification == Clarification!Spec

-----------------------------------------------------------------------------
(* Liveness.                                                               *)

(* A finalized finding is eventually marked verified in the index, where   *)
(* stage 3 looks for it, given servers that carry on and a client that     *)
(* retries finalize_verification.  Holds when no server stops.             *)
FinalizedIsDiscoverable ==
  \A f \in Findings :
    (session[f] # NoFile /\ session[f].state = "finalized")
      ~> (index[f] # NoFile /\ index[f].stage2 = "verified")
=============================================================================
