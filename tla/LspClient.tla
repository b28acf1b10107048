------------------------------ MODULE LspClient ------------------------------
(***************************************************************************)
(* The client of a language server (src/lsp_client.rs and lsp_client/): a  *)
(* child process behind two pipes, a thread that frames its output into a  *)
(* bounded channel, and a caller that writes requests, waits for answers   *)
(* under a deadline, and must get its own answer or none.                  *)
(*                                                                         *)
(* Deadlines are not clocked here: while a caller waits its budget may     *)
(* always run out.  The wait for readiness, where the clock decides the    *)
(* result, is LspReadiness.                                                *)
(***************************************************************************)
EXTENDS Naturals, Sequences, FiniteSets

CONSTANTS FrameQueueDepth,   \* frames the channel holds (FRAME_QUEUE_DEPTH)
          PipeDepth,         \* messages a pipe holds before a write blocks
          MaxAsks,           \* definition and diagnostic requests of a session
          MaxChatter         \* messages the server sends of its own accord

ASSUME ClientBounds == {FrameQueueDepth, PipeDepth, MaxAsks, MaxChatter} \subseteq Nat

VARIABLES caller,    \* what the caller is doing
          call,      \* the message it is sending or waiting on
          nextId,    \* LspClient.request_id
          pull,      \* LspClient.pull_diagnostics
          inbox,     \* the server's stdin
          outbox,    \* the server's stdout
          reader,    \* the reader thread: free, holding a frame, or ended
          frames,    \* the channel between reader and caller
          srv,       \* the child process
          open,      \* requests the server has read and not answered
          chatter,   \* messages the server sent unasked
          left,      \* documents and requests the pass still has for the server
          answered,  \* history: the requests the server has answered
          outcome    \* history: what each request came to

clientVars == <<caller, call, nextId, pull, inbox, outbox, reader, frames, srv,
                open, chatter, left, answered, outcome>>

callerVars == <<caller, call, nextId, pull, left, outcome>>
serverVars == <<srv, open, chatter, answered>>

LastId == MaxAsks + 2
Ids == 1 .. LastId

\* What arrives on the server's stdout.  A response carries the id of the
\* request it answers, a request of the server's own numbers itself in the
\* same range, "bad" is a frame whose payload does not parse, "fatal" is
\* broken framing or the end of the stream.
Responses == [kind : {"response"}, id : Ids, body : {"result", "error", "neither"}]
ServerRequests == [kind : {"request"}, id : Ids]
Note == [kind |-> "note"]
Bad == [kind |-> "bad"]
Fatal == [kind |-> "fatal"]
Frames == Responses \cup ServerRequests \cup {Note, Bad, Fatal}

Free == [kind |-> "free"]      \* the reader thread between two frames
Ended == [kind |-> "ended"]

NoCall == [op |-> "none", id |-> 0]
IsRequest(c) == c.op \in {"initialize", "ask", "shutdown"}

\* Mutant: a request of the server's own with that id is taken for the answer.
match_on_id_alone(f, i) == f.kind \in {"response", "request"} /\ f.id = i

\* The frame answers request i: no method, and the id is ours.
is_response_to(f, i) == f.kind = "response" /\ f.id = i

ClientInit ==
    /\ caller = "new" /\ call = NoCall /\ nextId = 1 /\ pull = FALSE
    /\ inbox = <<>> /\ outbox = <<>> /\ reader = Free /\ frames = <<>>
    /\ srv = "absent" /\ open = {} /\ chatter = 0
    /\ left = MaxAsks /\ answered = {} /\ outcome = [i \in Ids |-> "none"]

-----------------------------------------------------------------------------
(* The server: external, anything a child process may do.                  *)

OutputFull == Len(outbox) >= PipeDepth

ServerRead ==
    /\ srv = "running" /\ inbox # <<>>
    /\ inbox' = Tail(inbox)
    /\ open' = IF IsRequest(Head(inbox)) THEN open \cup {Head(inbox).id} ELSE open
    /\ srv' = IF Head(inbox).op = "exit" THEN "dead" ELSE srv
    /\ UNCHANGED <<callerVars, outbox, reader, frames, chatter, answered>>

\* Only the handshake looks at the body here; what the resolver makes of a
\* definition is in CallSites.
Bodies(i) == IF i = 1 THEN {"result", "error", "neither"} ELSE {"result"}

ServerAnswer ==
    /\ srv = "running" /\ ~OutputFull
    /\ \E i \in open : \E b \in Bodies(i) :
          /\ outbox' = Append(outbox, [kind |-> "response", id |-> i, body |-> b])
          /\ open' = open \ {i} /\ answered' = answered \cup {i}
    /\ UNCHANGED <<callerVars, inbox, reader, frames, srv, chatter>>

ServerSpeaks ==
    /\ srv = "running" /\ ~OutputFull /\ chatter < MaxChatter
    /\ \E f \in ServerRequests \cup {Note, Bad, Fatal} : outbox' = Append(outbox, f)
    /\ chatter' = chatter + 1
    /\ UNCHANGED <<callerVars, inbox, reader, frames, srv, open, answered>>

ServerDies ==
    /\ srv = "running" /\ srv' = "dead"
    /\ UNCHANGED <<callerVars, inbox, outbox, reader, frames, open, chatter, answered>>

-----------------------------------------------------------------------------
(* The reader thread: one frame at a time into a channel that may be full. *)

read_lsp_message ==
    /\ srv # "absent" /\ reader = Free
    /\ \/ outbox # <<>> /\ reader' = Head(outbox) /\ outbox' = Tail(outbox)
       \/ outbox = <<>> /\ srv = "dead" /\ reader' = Fatal /\ UNCHANGED outbox
    /\ UNCHANGED <<callerVars, serverVars, inbox, frames>>

\* The send blocks while the channel is full.  Only a fatal frame ends the
\* thread; a payload that does not parse costs one frame.
ReaderSends ==
    /\ reader \in Frames /\ Len(frames) < FrameQueueDepth
    /\ frames' = Append(frames, reader)
    /\ reader' = IF reader = Fatal THEN Ended ELSE Free
    /\ UNCHANGED <<callerVars, serverVars, inbox, outbox>>

-----------------------------------------------------------------------------
(* The caller.                                                             *)

start ==
    /\ caller = "new"
    /\ \/ srv' = "running" /\ caller' = "ready"
       \/ srv' = "dead" /\ caller' = "closed"      \* refused command or failed spawn
    /\ UNCHANGED <<call, nextId, pull, inbox, outbox, reader, frames, open, chatter, outcome, left, answered>>

\* send_request: drop what is queued, then write.  The write is a step of its
\* own because it may block.
Send(op) ==
    /\ call' = [op |-> op, id |-> IF IsRequest([op |-> op]) THEN nextId ELSE 0]
    /\ nextId' = IF IsRequest([op |-> op]) THEN nextId + 1 ELSE nextId
    /\ frames' = <<>>
    /\ caller' = "writing"
    /\ left' = IF op \in {"didOpen", "ask"} THEN left - 1 ELSE left
    /\ UNCHANGED <<serverVars, pull, inbox, outbox, reader, outcome>>

initialize == caller = "ready" /\ Send("initialize")
initialized == caller = "probed" /\ Send("initialized")
did_open == caller = "idle" /\ left > 0 /\ Send("didOpen")
\* get_definition, and pull_diagnostics where the server offers it.
Ask == caller = "idle" /\ left > 0 /\ Send("ask")
\* Always reached: after a pass, and after an initialize that failed.
shutdown == caller \in {"idle", "failed"} /\ Send("shutdown")
exit == caller = "exiting" /\ Send("exit")

\* Where a finished call leaves the caller, by whether it succeeded.
After(op, ok) ==
    CASE op = "initialize" -> IF ok THEN "probed" ELSE "failed"
      [] op = "initialized" -> IF ok THEN "settling" ELSE "failed"
      [] op = "ack" -> "settling"
      [] op = "shutdown" -> "exiting"
      [] op = "exit" -> "reaping"
      [] OTHER -> "idle"

Finish(result) ==
    /\ caller' = After(call.op, result \in {"answer", "sent"})
    /\ outcome' = IF IsRequest(call) THEN [outcome EXCEPT ![call.id] = result]
                  ELSE outcome
    /\ call' = NoCall

write_lsp_message ==
    /\ caller = "writing"
    /\ \/ /\ srv = "running" /\ Len(inbox) < PipeDepth
          /\ inbox' = Append(inbox, call)
          /\ IF IsRequest(call) THEN caller' = "waiting" /\ UNCHANGED <<call, outcome>>
             ELSE Finish("sent")
       \/ /\ srv = "dead" /\ Finish("error") /\ UNCHANGED inbox
    /\ UNCHANGED <<serverVars, nextId, pull, outbox, reader, frames, left>>

\* validate_probe_response: a JSON-RPC answer has a result or an error.
HasOutcome(f) == f.kind = "response" /\ f.body # "neither"

\* What read_response does with one frame: keep waiting, or return.  The
\* probe takes an unparseable frame for its answer, the others skip it.
Verdict(f) ==
    CASE is_response_to(f, call.id) ->
           (IF call.op = "initialize" /\ ~HasOutcome(f) THEN "error" ELSE "answer")
      [] f = Fatal -> "error"
      [] f = Bad /\ call.op = "initialize" -> "error"
      [] OTHER -> "wait"

read_response ==
    /\ caller = "waiting" /\ frames # <<>>
    /\ LET f == Head(frames) IN
       /\ IF Verdict(f) = "wait" THEN UNCHANGED <<caller, call, outcome, pull>>
          ELSE /\ Finish(Verdict(f))
               /\ pull' \in IF call.op = "initialize" /\ HasOutcome(f) /\ f.body = "result"
                            THEN BOOLEAN ELSE {pull}
       /\ frames' = Tail(frames)
    /\ UNCHANGED <<serverVars, nextId, inbox, outbox, reader, left>>

\* The reader is gone and the channel empty: end of stream, at once.
Disconnected ==
    /\ caller = "waiting" /\ frames = <<>> /\ reader = Ended
    /\ Finish("error")
    /\ UNCHANGED <<serverVars, nextId, pull, inbox, outbox, reader, frames, left>>

\* Mutant: the deadline is looked at only when a frame has come.
ExpireBetweenFrames ==
    /\ caller = "waiting" /\ frames # <<>>
    /\ Finish("timeout")
    /\ UNCHANGED <<serverVars, nextId, pull, inbox, outbox, reader, frames, left>>

\* The deadline of the call, whatever has come.
Expire ==
    /\ caller = "waiting"
    /\ Finish("timeout")
    /\ UNCHANGED <<serverVars, nextId, pull, inbox, outbox, reader, frames, left>>

\* client_wait_for_ready: frames are consumed, and one day it ends
\* (LspReadiness says when).
SettleFrame ==
    /\ caller = "settling" /\ frames # <<>> /\ frames' = Tail(frames)
    /\ UNCHANGED <<callerVars, serverVars, inbox, outbox, reader>>

\* A request of the server that creates a progress token is acknowledged, by a
\* write that blocks like any other and whose failure is dropped.
respond_to_create ==
    /\ caller = "settling" /\ frames # <<>> /\ Head(frames) \in ServerRequests
    /\ frames' = Tail(frames)
    /\ caller' = "writing" /\ call' = [op |-> "ack", id |-> 0]
    /\ UNCHANGED <<serverVars, nextId, pull, inbox, outbox, reader, left, outcome>>

SettleEnds ==
    /\ caller = "settling" /\ caller' = "idle"
    /\ UNCHANGED <<serverVars, call, nextId, pull, inbox, outbox, reader, frames, outcome, left>>

\* shutdown's grace period: the child is gone, or it is killed.
Reap ==
    /\ caller = "reaping" /\ caller' = "closed" /\ srv' = "dead"
    /\ UNCHANGED <<call, nextId, pull, inbox, outbox, reader, frames, open, chatter, outcome, left, answered>>

ReaderStep == read_lsp_message \/ ReaderSends
CallerStep ==
    \/ start \/ initialize \/ initialized \/ did_open \/ Ask \/ shutdown \/ exit
    \/ write_lsp_message \/ read_response \/ Disconnected \/ Expire
    \/ SettleFrame \/ respond_to_create \/ SettleEnds \/ Reap
ServerStep == ServerRead \/ ServerAnswer \/ ServerSpeaks \/ ServerDies

\* The caller runs, its thread runs, and the child reads what it is sent: a
\* child that stops reading blocks write_all for good, and nothing in the code
\* bounds that write.  Answers, chatter and exits of the child are not assumed.
ClientNext == CallerStep \/ ReaderStep \/ ServerStep

ClientSpec ==
    /\ ClientInit /\ [][ClientNext]_clientVars
    /\ WF_clientVars(CallerStep) /\ WF_clientVars(ReaderStep) /\ WF_clientVars(ServerRead)

-----------------------------------------------------------------------------
\* A request that returned an answer returned one the server gave to that very
\* request: never a request of the server's own under the same number, never
\* the late answer to a request that had timed out, whatever was queued,
\* drained or delayed in between (read_response, is_response_to, drain_pending).
AnswerIsOwn == \A i \in Ids : outcome[i] = "answer" => i \in answered

\* Every session that got its child ends: no call waits beyond its deadline on
\* a silent, chattering, broken or dead server, and shutdown leaves no child
\* (read_response's deadline on the channel, the reader thread, shutdown).
SessionEnds == (caller = "ready") ~> (caller = "closed" /\ srv = "dead")
=============================================================================
