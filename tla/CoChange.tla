------------------------------ MODULE CoChange ------------------------------
(***************************************************************************)
(* Temporal coupling of files mined from git (src/src/cochange.rs): the   *)
(* counts kept in cochange.json between calls, extended with the commits   *)
(* made since, and the FILE_CHANGES_WITH edges derived from them.          *)
(*                                                                         *)
(* A commit is the set of indexed files it touches.  The count of a pair   *)
(* keeps the order out: a pair is a set of two files.                      *)
(***************************************************************************)
EXTENDS Naturals, Sequences, FiniteSets, FiniteSetsExt

CONSTANTS Sources,            \* the files commits touch
          InGraph,            \* those with a File node
          MaxFilesPerCommit,  \* MAX_FILES_PER_COMMIT
          MinCochange,        \* MIN_COCHANGE
          CommitsInPass,      \* may HEAD move while a pass is under way
          GitFails,           \* may the log fail in a pass
          SkippedCouples,     \* may the insert of an edge fail, which is logged
          MaxLog              \* bound: commits ever made

ASSUME CoChangeBounds ==
    /\ InGraph \subseteq Sources
    /\ {MaxFilesPerCommit, MinCochange, MaxLog} \subseteq Nat
    /\ {CommitsInPass, GitFails, SkippedCouples} \subseteq BOOLEAN

VARIABLES log,      \* the commits, oldest first
          mined,    \* cochange.json; last = 0 when there is none
          couples,  \* the FILE_CHANGES_WITH edges of the graph
          pass,     \* the pass under way: where it is, its HEAD, its counts
          rewriting \* history: a pass has deleted the edges and not saved its counts

mineVars == <<log, mined, couples, pass, rewriting>>

Pairs == {p \in SUBSET Sources : Cardinality(p) = 2}
NoCounts == [last |-> 0, file_changes |-> [f \in Sources |-> 0],
             pairs |-> [p \in Pairs |-> 0]]
Idle == [at |-> "idle", head |-> 0, state |-> NoCounts]

\* One commit folded in: one of a single file counts for that file, one of
\* too many for nothing.
counted(c) == Cardinality(c) \in 1 .. MaxFilesPerCommit
Touching(cs, p) == Cardinality({i \in DOMAIN cs : counted(cs[i]) /\ p \subseteq cs[i]})
accumulate(state, cs) ==
    [state EXCEPT !.file_changes = [f \in Sources |-> @[f] + Touching(cs, {f})],
                  !.pairs = [p \in Pairs |-> @[p] + Touching(cs, p)]]

\* The edges the counts earn: enough commits together, at least 30% of those
\* of the file that changes least, and a File node at both ends.
rewrite_edges(state) ==
    {p \in Pairs : /\ p \subseteq InGraph
                   /\ state.pairs[p] >= MinCochange
                   /\ LET least == Min({state.file_changes[f] : f \in p})
                      IN least > 0 /\ 10 * state.pairs[p] >= 3 * least}

-----------------------------------------------------------------------------
NewCommit == /\ Len(log) < MaxLog /\ (CommitsInPass \/ pass = Idle)
             /\ \E c \in SUBSET Sources \ {{}} : log' = Append(log, c)
             /\ UNCHANGED <<mined, couples, pass, rewriting>>

\* HEAD is read first; an incremental pass extends the saved counts when they
\* have a commit to resume from, a full one starts from nothing.
mine_begin(incremental) ==
    /\ pass = Idle /\ log # <<>>
    /\ pass' = [at |-> "read", head |-> Len(log),
                state |-> IF incremental THEN mined ELSE NoCounts]
    /\ UNCHANGED <<log, mined, couples, rewriting>>

\* The log is read to HEAD as it is by then; a log that fails reads as empty.
read_commit_files == {SubSeq(log, pass.state.last + 1, Len(log))}
                         \cup (IF GitFails THEN {<<>>} ELSE {})

\* Variant: the resume point is the commit before the HEAD that was read.
mine_read_short ==
    /\ pass.at = "read"
    /\ \E cs \in read_commit_files :
         LET state == [accumulate(pass.state, cs) EXCEPT !.last = pass.head - 1]
         IN pass' = [pass EXCEPT !.at = "delete", !.state = state]
    /\ UNCHANGED <<log, mined, couples, rewriting>>

mine_read ==
    /\ pass.at = "read"
    /\ \E cs \in read_commit_files :
         LET state == [accumulate(pass.state, cs) EXCEPT !.last = pass.head]
         IN pass' = [pass EXCEPT !.at = "delete", !.state = state]
    /\ UNCHANGED <<log, mined, couples, rewriting>>

\* Every edge is deleted, the earned ones are inserted one by one, and the counts
\* are saved last.
DeleteCouples ==
    /\ pass.at = "delete" /\ pass' = [pass EXCEPT !.at = "insert"]
    /\ couples' = {} /\ rewriting' = TRUE
    /\ UNCHANGED <<log, mined>>

InsertCouple ==
    /\ pass.at = "insert"
    /\ \E p \in rewrite_edges(pass.state) \ couples : couples' = couples \cup {p}
    /\ UNCHANGED <<log, mined, pass, rewriting>>

mine_end ==
    /\ pass.at = "insert" /\ (SkippedCouples \/ couples = rewrite_edges(pass.state))
    /\ mined' = pass.state /\ pass' = Idle /\ rewriting' = FALSE
    /\ UNCHANGED <<log, couples>>

\* A statement or the save fails, or the process stops.
MineStops == pass # Idle /\ pass' = Idle /\ UNCHANGED <<log, mined, couples, rewriting>>

MineInit == /\ log = <<>> /\ mined = NoCounts /\ couples = {} /\ pass = Idle
            /\ rewriting = FALSE
MineNext == \/ NewCommit
            \/ \E incremental \in BOOLEAN : mine_begin(incremental)
            \/ mine_read \/ DeleteCouples \/ InsertCouple \/ mine_end \/ MineStops
MineSpec == MineInit /\ [][MineNext]_mineVars

-----------------------------------------------------------------------------
(* "FILE_CHANGES_WITH edges reflect the current mined aggregates", and the *)
(* aggregates the history: the saved counts are those of the commits up to *)
(* the mined one, however many passes read them and wherever one stopped,  *)
(* and but for a pass that stopped between its DELETE and its save, two    *)
(* files are coupled exactly when these counts say so.  A commit counted   *)
(* by two passes, or by none, shows up here.                               *)
CouplesAreEarned ==
    /\ mined = [accumulate(NoCounts, SubSeq(log, 1, mined.last)) EXCEPT !.last = mined.last]
    /\ ~rewriting => couples = rewrite_edges(mined)
=============================================================================
