----------------------------- MODULE LspReadiness -----------------------------
(***************************************************************************)
(* The wait between `initialized` and the first request                    *)
(* (src/lsp_client/readiness.rs, health.rs): the server may announce its   *)
(* own state, may only report work in progress, or may say nothing, and    *)
(* the caller must neither start too early nor wait on a server that has   *)
(* nothing to say.  Time is counted in ticks.                              *)
(***************************************************************************)
EXTENDS Naturals, FiniteSets

CONSTANTS Tokens,          \* workDoneProgress tokens
          QuietWindow,     \* PROGRESS_QUIET_WINDOW, in ticks
          Deadline,        \* the caller's timeout, in ticks
          MaxServerFrames  \* messages the server sends during the wait

ASSUME WaitBounds == {QuietWindow, Deadline, MaxServerFrames} \subseteq Nat

VARIABLES now, outstanding, everBegan, idleSince, serverStatusSeen, health,
          ready,      \* ReadinessOutcome, or "waiting"
          sent,       \* messages received so far
          streamEnd,  \* the reader thread is gone
          gate        \* what the resolver does with the result

waitVars == <<now, outstanding, everBegan, idleSince, serverStatusSeen, health,
              ready, sent, streamEnd, gate>>

Never == Deadline + 1                \* idle_since = None
Levels == {"ok", "warning", "error", "unknown"}

WaitInit ==
    /\ now = 0 /\ outstanding = {} /\ everBegan = FALSE /\ idleSince = 0
    /\ serverStatusSeen = FALSE /\ health = "unknown" /\ ready = "waiting"
    /\ sent = 0 /\ streamEnd = FALSE /\ gate = "closed"

\* The next moment at which giving up is considered.  The onset window runs
\* from the start of the wait, a server that has shown it reports its status
\* is waited for, and nothing is cut short while a token is open.
NotAfter(t) == IF t < Deadline THEN t ELSE Deadline
progress_checkpoint ==
    CASE ~everBegan -> NotAfter(QuietWindow)
      [] everBegan /\ idleSince # Never -> NotAfter(idleSince + QuietWindow)
      [] OTHER -> Deadline
checkpoint == IF serverStatusSeen THEN Deadline ELSE progress_checkpoint

give_up ==
    CASE ~everBegan -> "no_progress_reported"
      [] everBegan /\ outstanding = {} -> "all_progress_ended"
      [] OTHER -> "deadline_expired"

Waiting == ready = "waiting"

Tick ==
    /\ Waiting /\ now < checkpoint
    /\ now' = now + 1
    /\ UNCHANGED <<outstanding, everBegan, idleSince, serverStatusSeen, health,
                   ready, sent, streamEnd, gate>>

CheckpointReached ==
    /\ Waiting /\ now >= checkpoint
    /\ ready' = give_up
    /\ UNCHANGED <<now, outstanding, everBegan, idleSince, serverStatusSeen,
                   health, sent, streamEnd, gate>>

\* A frame can only be taken while the checkpoint is ahead.
Received == Waiting /\ now < checkpoint /\ ~streamEnd /\ sent < MaxServerFrames
            /\ sent' = sent + 1

\* experimental/serverStatus: the last health wins, quiescence ends the wait
\* even over an open token.
ServerStatus(level, quiescent) ==
    /\ Received
    /\ health' = level
    /\ IF quiescent THEN ready' = "server_reported_quiescent" /\ UNCHANGED serverStatusSeen
       ELSE serverStatusSeen' = TRUE /\ UNCHANGED ready
    /\ UNCHANGED <<now, outstanding, everBegan, idleSince, streamEnd, gate>>

ProgressBegin(t) ==
    /\ Received
    /\ everBegan' = TRUE /\ outstanding' = outstanding \cup {t} /\ idleSince' = Never
    /\ UNCHANGED <<now, serverStatusSeen, health, ready, streamEnd, gate>>

ProgressEnd(t) ==
    /\ Received
    /\ outstanding' = outstanding \ {t}
    /\ idleSince' = IF outstanding' = {} THEN now ELSE idleSince
    /\ UNCHANGED <<now, everBegan, serverStatusSeen, health, ready, streamEnd, gate>>

\* A report, a `create` to acknowledge, another message, a payload that does
\* not parse: consumed, and nothing else.
OtherFrame ==
    /\ Received
    /\ UNCHANGED <<now, outstanding, everBegan, idleSince, serverStatusSeen,
                   health, ready, streamEnd, gate>>

\* The stream breaks: no more frames, and the wait ends where it stands.
StreamEnds ==
    /\ Waiting /\ now < checkpoint /\ ~streamEnd
    /\ streamEnd' = TRUE /\ ready' = give_up
    /\ UNCHANGED <<now, outstanding, everBegan, idleSince, serverStatusSeen,
                   health, sent, gate>>

\* resolve_with_client: an unhealthy server is asked nothing.
health_gate_error ==
    /\ ~Waiting /\ gate = "closed"
    /\ gate' = IF health = "error" THEN "refused" ELSE "open"
    /\ UNCHANGED <<now, outstanding, everBegan, idleSince, serverStatusSeen,
                   health, ready, sent, streamEnd>>

WaitStep == Tick \/ CheckpointReached \/ health_gate_error
WaitNext ==
    \/ WaitStep
    \/ \E l \in Levels, q \in BOOLEAN : ServerStatus(l, q)
    \/ \E t \in Tokens : ProgressBegin(t) \/ ProgressEnd(t)
    \/ OtherFrame
    \/ StreamEnds

WaitSpec == WaitInit /\ [][WaitNext]_waitVars /\ WF_waitVars(WaitStep)

-----------------------------------------------------------------------------
\* The wait is cut short only by an answer: short of the caller's deadline, on
\* a stream that still works, it ends with quiescence, or with no token open
\* and a whole quiet window behind it, and never before a server that reports
\* its status has said so (wait_for_ready, checkpoint, note_server_status_activity).
ReadyIsNotEarly ==
    ready \in {"no_progress_reported", "all_progress_ended", "deadline_expired"}
      => \/ streamEnd
         \/ now >= Deadline
         \/ /\ ~serverStatusSeen /\ outstanding = {}
            /\ now >= (IF everBegan THEN idleSince ELSE 0) + QuietWindow
=============================================================================
