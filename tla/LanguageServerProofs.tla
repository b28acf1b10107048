------------------------- MODULE LanguageServerProofs -------------------------
(***************************************************************************)
(* Proofs about the two halves of the language-server client: a request    *)
(* that returned an answer returned its own (LspClient), and the wait for  *)
(* readiness is never cut short without a reason (LspReadiness).           *)
(***************************************************************************)
EXTENDS LspClient, LspReadiness, TLAPS

-----------------------------------------------------------------------------
(* The wait.                                                               *)

\* The inductive invariant: the clock stays within the deadline, no token is
\* open before the first begin, and an open token means there is no idle time.
WaitInv ==
    /\ now \in 0 .. Deadline /\ idleSince \in Nat
    /\ ~everBegan => outstanding = {}
    /\ everBegan /\ outstanding # {} => idleSince = Never
    /\ ReadyIsNotEarly

\* The next moment of giving up is never beyond the caller's deadline.
LEMMA CheckpointIsBounded ==
    ASSUME WaitInv
    PROVE  checkpoint \in 0 .. Deadline
BY WaitBounds DEF WaitInv, checkpoint, progress_checkpoint, NotAfter, Never

\* Giving up at the checkpoint is justified.
LEMMA GivingUpIsJustified ==
    ASSUME WaitInv, now >= checkpoint
    PROVE  \/ now >= Deadline
           \/ /\ ~serverStatusSeen /\ outstanding = {}
              /\ now >= (IF everBegan THEN idleSince ELSE 0) + QuietWindow
BY WaitBounds DEF WaitInv, checkpoint, progress_checkpoint, NotAfter, Never

LEMMA WaitStepKeepsInv ==
    ASSUME WaitInv, [WaitNext]_waitVars
    PROVE  WaitInv'
<1> USE WaitBounds
<1>1. checkpoint \in 0 .. Deadline
  BY CheckpointIsBounded
<1>2. CASE Tick
  BY <1>1, <1>2 DEF WaitInv, Tick, Waiting, ReadyIsNotEarly, Never
<1>3. CASE CheckpointReached
  BY <1>1, <1>3, GivingUpIsJustified DEF WaitInv, CheckpointReached, ReadyIsNotEarly, Never
<1>4. CASE health_gate_error
  BY <1>4 DEF WaitInv, health_gate_error, ReadyIsNotEarly, Never
<1>5. ASSUME NEW l \in Levels, NEW q \in BOOLEAN, ServerStatus(l, q)
      PROVE  WaitInv'
  <2>1. CASE q
    BY <1>5, <2>1 DEF WaitInv, ServerStatus, Received, Waiting, ReadyIsNotEarly, Never
  <2>2. CASE ~q
    BY <1>5, <2>2 DEF WaitInv, ServerStatus, Received, Waiting, ReadyIsNotEarly, Never
  <2>3. QED
    BY <2>1, <2>2
<1>6. ASSUME NEW t \in Tokens, ProgressBegin(t)
      PROVE  WaitInv'
  BY <1>6 DEF WaitInv, ProgressBegin, Received, Waiting, ReadyIsNotEarly, Never
<1>7. ASSUME NEW t \in Tokens, ProgressEnd(t)
      PROVE  WaitInv'
  BY <1>7 DEF WaitInv, ProgressEnd, Received, Waiting, ReadyIsNotEarly, Never
<1>8. CASE OtherFrame
  BY <1>8 DEF WaitInv, OtherFrame, Received, Waiting, ReadyIsNotEarly, Never
<1>9. CASE StreamEnds
  BY <1>9 DEF WaitInv, StreamEnds, ReadyIsNotEarly, Never
<1>10. CASE UNCHANGED waitVars
  BY <1>10 DEF WaitInv, waitVars, ReadyIsNotEarly, Never
<1>11. QED
  BY <1>2, <1>3, <1>4, <1>5, <1>6, <1>7, <1>8, <1>9, <1>10 DEF WaitNext, WaitStep

\* The wait for readiness is cut short only by an answer: wait_for_ready gives
\* up at its deadline, on a broken stream, or after a whole quiet window with no
\* token open and no server that reports its status.
THEOREM WaitIsNotCutShort == WaitSpec => []ReadyIsNotEarly
<1>1. WaitInit => WaitInv
  BY WaitBounds DEF WaitInit, WaitInv, ReadyIsNotEarly
<1>2. WaitInv /\ [WaitNext]_waitVars => WaitInv'
  BY WaitStepKeepsInv
<1>3. WaitInv => ReadyIsNotEarly
  BY DEF WaitInv
<1>4. QED
  BY <1>1, <1>2, <1>3, PTL DEF WaitSpec

-----------------------------------------------------------------------------
(* The client.                                                             *)

Requests == [op : {"initialize", "ask", "shutdown"}, id : Ids]
Notices == [op : {"none", "initialized", "didOpen", "ack", "exit"}, id : {0}]
Calls == Requests \cup Notices

ClientTypeOK ==
    /\ caller \in {"new", "ready", "writing", "waiting", "probed", "failed", "settling",
                   "idle", "exiting", "reaping", "closed"}
    /\ call \in Calls /\ inbox \in Seq(Calls)
    /\ nextId \in Nat \ {0} /\ left \in Nat
    /\ outbox \in Seq(Frames) /\ frames \in Seq(Frames)
    /\ reader \in Frames \cup {Free, Ended}
    /\ srv \in {"absent", "running", "dead"}
    /\ open \subseteq Ids /\ answered \subseteq Ids
    /\ outcome \in [Ids -> {"none", "answer", "error", "timeout"}]

\* The largest sum of the next id and the requests still to come, by how far
\* the session is: one id for the handshake, one for the shutdown.
Budget ==
    IF caller \in {"new", "ready"} THEN MaxAsks + 1
    ELSE IF \/ caller \in {"exiting", "reaping", "closed"}
            \/ caller \in {"writing", "waiting"} /\ call.op \in {"shutdown", "exit"}
         THEN MaxAsks + 3
         ELSE MaxAsks + 2

IdsSuffice == nextId + left <= Budget

\* A frame is honest when, if it is a response, the server has answered the
\* request whose id it carries.
Honest(f) == f.kind = "response" => f.id \in answered

\* Every frame on its way from the server to the caller is honest, wherever it
\* is: in the pipe, in the reader's hands or in the channel.
InFlightIsHonest ==
    /\ \A k \in 1 .. Len(outbox) : Honest(outbox[k])
    /\ \A k \in 1 .. Len(frames) : Honest(frames[k])
    /\ Honest(reader)

\* The inductive invariant: what travels is honest, and so is what was returned.
ClientInv == ClientTypeOK /\ IdsSuffice /\ InFlightIsHonest /\ AnswerIsOwn

\* What Send does, for each of its callers: the id it takes is one of Ids.
LEMMA SendKeepsInv ==
    ASSUME ClientInv, NEW op \in {"initialize", "initialized", "didOpen", "ask", "shutdown", "exit"},
           Send(op),
           op \in {"didOpen", "ask"} => left > 0,
           op = "initialize" => caller = "ready",
           op = "initialized" => caller = "probed",
           op = "shutdown" => caller \in {"idle", "failed"},
           op = "exit" => caller = "exiting",
           op \in {"didOpen", "ask"} => caller = "idle"
    PROVE  ClientInv'
<1> USE ClientBounds
<1>1. nextId \in Ids \/ op \in {"initialized", "didOpen", "exit"}
  BY DEF ClientInv, ClientTypeOK, IdsSuffice, Budget, Ids, LastId
<1>2. call' \in Calls /\ call'.op = op
  BY <1>1 DEF Send, IsRequest, Calls, Requests, Notices
<1>3. ClientTypeOK'
  BY <1>2 DEF ClientInv, ClientTypeOK, Send, serverVars
<1>4. IdsSuffice'
  BY <1>2 DEF ClientInv, ClientTypeOK, IdsSuffice, Budget, Send, IsRequest
<1>5. InFlightIsHonest' /\ AnswerIsOwn'
  BY DEF ClientInv, ClientTypeOK, InFlightIsHonest, Honest, AnswerIsOwn, Send, serverVars
<1>6. QED
  BY <1>3, <1>4, <1>5 DEF ClientInv

\* A call that finishes leaves the ids it has used and takes no other: only an
\* answer the server gave makes the outcome "answer".
LEMMA FinishKeepsInv ==
    ASSUME ClientInv, NEW result \in {"sent", "answer", "error", "timeout"}, Finish(result),
           caller \in {"writing", "waiting"},
           IsRequest(call) => result # "sent",
           result = "answer" => call.id \in answered,
           UNCHANGED <<serverVars, nextId, left>>
    PROVE  /\ caller' \in {"probed", "failed", "settling", "idle", "exiting", "reaping"}
           /\ call' \in Calls
           /\ outcome' \in [Ids -> {"none", "answer", "error", "timeout"}]
           /\ IdsSuffice' /\ AnswerIsOwn'
<1> USE ClientBounds
<1>1. call \in Calls /\ (IsRequest(call) <=> call \in Requests)
  BY DEF ClientInv, ClientTypeOK, Calls, Requests, Notices, IsRequest
<1>2. caller' \in {"probed", "failed", "settling", "idle", "exiting", "reaping"}
  BY DEF Finish, After
<1>3. call' \in Calls
  BY DEF Finish, NoCall, Calls, Notices
<1>4. outcome' \in [Ids -> {"none", "answer", "error", "timeout"}] /\ AnswerIsOwn'
  BY <1>1 DEF Finish, ClientInv, ClientTypeOK, AnswerIsOwn, serverVars, Requests
<1>5. caller' \in {"exiting", "reaping"} <=> call.op \in {"shutdown", "exit"}
  BY <1>1 DEF Finish, After
<1>6. IdsSuffice'
  BY <1>2, <1>5 DEF ClientInv, ClientTypeOK, IdsSuffice, Budget
<1>7. QED
  BY <1>2, <1>3, <1>4, <1>6

\* Taking the first of honest frames leaves honest frames.
LEMMA TailIsHonest ==
    ASSUME NEW s \in Seq(Frames), s # <<>>, \A k \in 1 .. Len(s) : Honest(s[k])
    PROVE  /\ Head(s) \in Frames /\ Honest(Head(s))
           /\ Tail(s) \in Seq(Frames)
           /\ \A k \in 1 .. Len(Tail(s)) : Honest(Tail(s)[k])
<1>1. Len(s) \in Nat \ {0} /\ Head(s) = s[1] /\ Tail(s) \in Seq(Frames) /\ Len(Tail(s)) = Len(s) - 1
  OBVIOUS
<1>2. \A k \in 1 .. Len(Tail(s)) : Tail(s)[k] = s[k + 1] /\ k + 1 \in 1 .. Len(s)
  BY <1>1
<1>3. QED
  BY <1>1, <1>2

\* The caller's steps.
LEMMA CallerKeepsInv ==
    ASSUME ClientInv, CallerStep
    PROVE  ClientInv'
<1> USE ClientBounds
<1>1. CASE start
  BY <1>1 DEF start, ClientInv, ClientTypeOK, IdsSuffice, Budget, InFlightIsHonest, Honest, AnswerIsOwn
<1>2. CASE initialize
  BY <1>2, SendKeepsInv DEF initialize
<1>3. CASE initialized
  BY <1>3, SendKeepsInv DEF initialized
<1>4. CASE did_open
  BY <1>4, SendKeepsInv DEF did_open
<1>5. CASE Ask
  BY <1>5, SendKeepsInv DEF Ask
<1>6. CASE shutdown
  BY <1>6, SendKeepsInv DEF shutdown
<1>7. CASE exit
  BY <1>7, SendKeepsInv DEF exit
<1>8. CASE write_lsp_message
  <2>1. CASE UNCHANGED <<call, outcome>> /\ caller' = "waiting" /\ inbox' = Append(inbox, call)
    BY <1>8, <2>1 DEF write_lsp_message, serverVars, ClientInv, ClientTypeOK, IdsSuffice, Budget,
                      InFlightIsHonest, Honest, AnswerIsOwn
  <2>2. CASE Finish("sent") /\ ~IsRequest(call) /\ inbox' = Append(inbox, call)
    <3>1. /\ caller' \in {"probed", "failed", "settling", "idle", "exiting", "reaping"}
          /\ call' \in Calls
          /\ outcome' \in [Ids -> {"none", "answer", "error", "timeout"}]
          /\ IdsSuffice' /\ AnswerIsOwn'
      BY <1>8, <2>2, FinishKeepsInv DEF write_lsp_message
    <3>2. QED
      BY <1>8, <2>2, <3>1 DEF write_lsp_message, serverVars, ClientInv, ClientTypeOK,
                              InFlightIsHonest, Honest
  <2>3. CASE Finish("error") /\ UNCHANGED inbox
    <3>1. /\ caller' \in {"probed", "failed", "settling", "idle", "exiting", "reaping"}
          /\ call' \in Calls
          /\ outcome' \in [Ids -> {"none", "answer", "error", "timeout"}]
          /\ IdsSuffice' /\ AnswerIsOwn'
      BY <1>8, <2>3, FinishKeepsInv DEF write_lsp_message
    <3>2. QED
      BY <1>8, <2>3, <3>1 DEF write_lsp_message, serverVars, ClientInv, ClientTypeOK,
                              InFlightIsHonest, Honest
  <2>4. QED
    BY <1>8, <2>1, <2>2, <2>3 DEF write_lsp_message
<1>9. CASE read_response
  <2> DEFINE f == Head(frames)
  <2>1. /\ f \in Frames /\ Honest(f) /\ frames' \in Seq(Frames)
        /\ \A k \in 1 .. Len(frames') : Honest(frames'[k])
    BY <1>9, TailIsHonest DEF read_response, ClientInv, ClientTypeOK, InFlightIsHonest
  <2>2. InFlightIsHonest'
    BY <1>9, <2>1 DEF read_response, serverVars, ClientInv, InFlightIsHonest, Honest
  <2>3. CASE Verdict(f) = "wait"
    BY <1>9, <2>1, <2>2, <2>3 DEF read_response, serverVars, ClientInv, ClientTypeOK, IdsSuffice,
                                  Budget, AnswerIsOwn
  <2>4. CASE Verdict(f) # "wait"
    <3>1. Verdict(f) \in {"answer", "error"}
      BY <2>4 DEF Verdict
    <3>2. Verdict(f) = "answer" => call.id \in answered
      BY <2>1 DEF Verdict, Honest, is_response_to
    <3>3. Finish(Verdict(f)) /\ caller = "waiting" /\ UNCHANGED <<serverVars, nextId, left>>
      BY <1>9, <2>4 DEF read_response
    <3>4. /\ caller' \in {"probed", "failed", "settling", "idle", "exiting", "reaping"}
          /\ call' \in Calls
          /\ outcome' \in [Ids -> {"none", "answer", "error", "timeout"}]
          /\ IdsSuffice' /\ AnswerIsOwn'
      BY <3>1, <3>2, <3>3, FinishKeepsInv
    <3>5. QED
      BY <1>9, <2>1, <2>2, <3>4 DEF read_response, serverVars, ClientInv, ClientTypeOK
  <2>5. QED
    BY <2>3, <2>4
<1>10. ASSUME Disconnected \/ Expire
       PROVE  ClientInv'
  <2>1. PICK result \in {"error", "timeout"} : Finish(result)
    BY <1>10 DEF Disconnected, Expire
  <2>2. /\ caller' \in {"probed", "failed", "settling", "idle", "exiting", "reaping"}
        /\ call' \in Calls
        /\ outcome' \in [Ids -> {"none", "answer", "error", "timeout"}]
        /\ IdsSuffice' /\ AnswerIsOwn'
    BY <1>10, <2>1, FinishKeepsInv DEF Disconnected, Expire
  <2>3. QED
    BY <1>10, <2>2 DEF Disconnected, Expire, serverVars, ClientInv, ClientTypeOK,
                       InFlightIsHonest, Honest
<1>11. CASE SettleFrame
  <2>1. /\ frames' \in Seq(Frames)
        /\ \A k \in 1 .. Len(frames') : Honest(frames'[k])
    BY <1>11, TailIsHonest DEF SettleFrame, ClientInv, ClientTypeOK, InFlightIsHonest
  <2>2. QED
    BY <1>11, <2>1 DEF SettleFrame, callerVars, serverVars, ClientInv, ClientTypeOK, IdsSuffice,
                       Budget, InFlightIsHonest, Honest, AnswerIsOwn
<1>12. CASE SettleEnds
  BY <1>12 DEF SettleEnds, serverVars, ClientInv, ClientTypeOK, IdsSuffice, Budget,
               InFlightIsHonest, Honest, AnswerIsOwn
<1>13. CASE Reap
  BY <1>13 DEF Reap, ClientInv, ClientTypeOK, IdsSuffice, Budget, InFlightIsHonest, Honest,
               AnswerIsOwn
<1>14. CASE respond_to_create
  <2>1. /\ frames' \in Seq(Frames)
        /\ \A k \in 1 .. Len(frames') : Honest(frames'[k])
    BY <1>14, TailIsHonest DEF respond_to_create, ClientInv, ClientTypeOK, InFlightIsHonest
  <2>2. call' \in Calls /\ call'.op = "ack" /\ caller' = "writing"
    BY <1>14 DEF respond_to_create, Calls, Notices
  <2>3. ClientTypeOK'
    BY <1>14, <2>1, <2>2 DEF respond_to_create, serverVars, ClientInv, ClientTypeOK
  <2>4. IdsSuffice'
    BY <1>14, <2>2 DEF respond_to_create, ClientInv, ClientTypeOK, IdsSuffice, Budget
  <2>5. InFlightIsHonest' /\ AnswerIsOwn'
    BY <1>14, <2>1 DEF respond_to_create, serverVars, ClientInv, InFlightIsHonest, Honest, AnswerIsOwn
  <2>6. QED
    BY <2>3, <2>4, <2>5 DEF ClientInv
<1>15. QED
  BY <1>1, <1>2, <1>3, <1>4, <1>5, <1>6, <1>7, <1>8, <1>9, <1>10, <1>11, <1>12, <1>13, <1>14
     DEF CallerStep

\* The reader thread moves a frame and changes none.
LEMMA ReaderKeepsInv ==
    ASSUME ClientInv, ReaderStep
    PROVE  ClientInv'
<1>1. CASE read_lsp_message
  <2>1. /\ outbox' \in Seq(Frames)
        /\ \A k \in 1 .. Len(outbox') : Honest(outbox'[k])
        /\ reader' \in Frames /\ Honest(reader')
    <3>1. Fatal \in Frames /\ Honest(Fatal)
      BY DEF Fatal, Frames, Honest
    <3>2. QED
      BY <1>1, <3>1, TailIsHonest DEF read_lsp_message, ClientInv, ClientTypeOK, InFlightIsHonest
  <2>2. QED
    BY <1>1, <2>1 DEF read_lsp_message, callerVars, serverVars, ClientInv, ClientTypeOK, IdsSuffice,
                      Budget, InFlightIsHonest, Honest, AnswerIsOwn
<1>2. CASE ReaderSends
  <2>1. /\ frames' \in Seq(Frames)
        /\ \A k \in 1 .. Len(frames') : Honest(frames'[k])
    BY <1>2 DEF ReaderSends, ClientInv, ClientTypeOK, InFlightIsHonest
  <2>2. reader' \in {Free, Ended} /\ Honest(reader')
    BY <1>2 DEF ReaderSends, Honest, Free, Ended
  <2>3. QED
    BY <1>2, <2>1, <2>2 DEF ReaderSends, callerVars, serverVars, ClientInv, ClientTypeOK, IdsSuffice,
                            Budget, InFlightIsHonest, Honest, AnswerIsOwn
<1>3. QED
  BY <1>1, <1>2 DEF ReaderStep

\* The server adds frames of its own; a response only with the answer it records.
LEMMA ServerKeepsInv ==
    ASSUME ClientInv, ServerStep
    PROVE  ClientInv'
<1>1. CASE ServerRead
  <2>1. Head(inbox) \in Calls /\ inbox' \in Seq(Calls)
    BY <1>1 DEF ServerRead, ClientInv, ClientTypeOK
  <2>2. open' \subseteq Ids
    BY <1>1, <2>1 DEF ServerRead, ClientInv, ClientTypeOK, IsRequest, Calls, Requests, Notices
  <2>3. QED
    BY <1>1, <2>1, <2>2 DEF ServerRead, callerVars, ClientInv, ClientTypeOK, IdsSuffice, Budget,
                            InFlightIsHonest, Honest, AnswerIsOwn
<1>2. CASE ServerAnswer
  <2>0. PICK i \in open : \E b \in Bodies(i) :
            /\ outbox' = Append(outbox, [kind |-> "response", id |-> i, body |-> b])
            /\ open' = open \ {i} /\ answered' = answered \cup {i}
    BY <1>2 DEF ServerAnswer
  <2>1. PICK b \in Bodies(i) :
            /\ outbox' = Append(outbox, [kind |-> "response", id |-> i, body |-> b])
            /\ open' = open \ {i} /\ answered' = answered \cup {i}
    BY <2>0
  <2> DEFINE r == [kind |-> "response", id |-> i, body |-> b]
  <2>2. r \in Frames /\ i \in Ids /\ r.id = i
    BY <2>1 DEF Bodies, Frames, Responses, ClientInv, ClientTypeOK
  <2> HIDE DEF r
  <2>3. outbox' \in Seq(Frames)
    BY <2>1, <2>2 DEF r, ClientInv, ClientTypeOK
  <2>4. \A k \in 1 .. Len(outbox') : Honest(outbox[k])' 
    BY <2>1, <2>2 DEF r, ClientInv, ClientTypeOK, InFlightIsHonest, Honest
  <2>5. QED
    BY <1>2, <2>1, <2>2, <2>3, <2>4 DEF ServerAnswer, callerVars, ClientInv, ClientTypeOK, IdsSuffice,
                            Budget, InFlightIsHonest, Honest, AnswerIsOwn
<1>3. CASE ServerSpeaks
  <2>1. PICK f \in ServerRequests \cup {Note, Bad, Fatal} : outbox' = Append(outbox, f)
    BY <1>3 DEF ServerSpeaks
  <2>2. f \in Frames /\ Honest(f)
    BY <2>1 DEF Frames, ServerRequests, Note, Bad, Fatal, Honest
  <2>3. /\ outbox' \in Seq(Frames)
        /\ \A k \in 1 .. Len(outbox') : Honest(outbox'[k])
    BY <2>1, <2>2 DEF ClientInv, ClientTypeOK, InFlightIsHonest
  <2>4. QED
    BY <1>3, <2>3 DEF ServerSpeaks, callerVars, ClientInv, ClientTypeOK, IdsSuffice, Budget,
                      InFlightIsHonest, Honest, AnswerIsOwn
<1>4. CASE ServerDies
  BY <1>4 DEF ServerDies, callerVars, ClientInv, ClientTypeOK, IdsSuffice, Budget,
              InFlightIsHonest, Honest, AnswerIsOwn
<1>5. QED
  BY <1>1, <1>2, <1>3, <1>4 DEF ServerStep

LEMMA ClientInvariant == ClientSpec => []ClientInv
<1>1. ClientInit => ClientInv
  BY ClientBounds DEF ClientInit, ClientInv, ClientTypeOK, IdsSuffice, Budget, InFlightIsHonest,
     Honest, AnswerIsOwn, NoCall, Calls, Notices, Free
<1>2. ClientInv /\ [ClientNext]_clientVars => ClientInv'
  <2>1. ClientInv /\ UNCHANGED clientVars => ClientInv'
    BY DEF clientVars, ClientInv, ClientTypeOK, IdsSuffice, Budget, InFlightIsHonest, Honest, AnswerIsOwn
  <2>2. QED
    BY <2>1, CallerKeepsInv, ReaderKeepsInv, ServerKeepsInv DEF ClientNext
<1>3. QED
  BY <1>1, <1>2, PTL DEF ClientSpec

\* The session never runs out of request numbers, and every frame, call and
\* outcome of the client is of its kind (LspClient.request_id).
THEOREM ClientTypeCorrect == ClientSpec => []ClientTypeOK
<1>1. ClientInv => ClientTypeOK
  BY DEF ClientInv
<1>2. QED
  BY <1>1, ClientInvariant, PTL

\* A request that returned an answer returned one the server gave to it: read_response
\* takes no request of the server's own for it, and no late answer to another
\* request survives, however the frames were queued, dropped or delayed.
THEOREM AnswersAreOwn == ClientSpec => []AnswerIsOwn
<1>1. ClientInv => AnswerIsOwn
  BY DEF ClientInv
<1>2. QED
  BY <1>1, ClientInvariant, PTL
=============================================================================
