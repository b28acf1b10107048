------------------------------ MODULE Freshness ------------------------------
(***************************************************************************)
(* The freshness receipt of a read tool as the sequence of reads it is     *)
(* (src/graph_freshness.rs): the graph's presence, meta.json, the          *)
(* manifest, the status of each file, git's HEAD.  Beside it one indexer   *)
(* writes the manifest and then meta.json, an editor saves files, and a    *)
(* checkout moves HEAD.                                                    *)
(*                                                                         *)
(* A file's (mtime, size) is a stamp, 0 when the file is absent; so is a   *)
(* manifest's identity.  The root is a directory the path policy accepts   *)
(* and the manifest's keys are below it.  That the graph holds what the    *)
(* manifest says is the subject of IndexRefresh.                           *)
(***************************************************************************)
EXTENDS Naturals, Sequences, FiniteSets

CONSTANTS Paths,
          Revisions,
          FirstRevision,
          ContentOf,      \* revision -> path -> its text there, 0 for none
          AncestorsOf,    \* revision -> its ancestors and itself
          MovesInIndex,   \* may HEAD move while an index is under way
          LostManifests,  \* may the manifest of a full index not be written
          MaxMoves, MaxSaves, MaxPasses

ASSUME FreshnessBounds ==
    /\ ContentOf \in [Revisions -> [Paths -> Nat]]
    /\ AncestorsOf \in [Revisions -> SUBSET Revisions] /\ IsFiniteSet(Revisions)
    /\ \A r \in Revisions : r \in AncestorsOf[r]          \* history has no cycle
    /\ \A r, s \in Revisions : r \in AncestorsOf[s] /\ s \in AncestorsOf[r] => r = s
    /\ FirstRevision \in Revisions
    /\ {MaxMoves, MaxSaves, MaxPasses} \subseteq Nat
    /\ {MovesInIndex, LostManifests} \subseteq BOOLEAN

VARIABLES disk,          \* path -> stamp
          HEAD,
          graphThere,
          manifestFile,  \* file_manifest.json, identity 0 when absent
          metaFile,      \* meta.json
          indexing,      \* the index under way
          receipt,       \* the check under way, or its verdict
          moves, saves,  \* counts, bounded
          passes, done,  \* history: what each index read, and the last that wrote meta.json
          moments        \* history: what was true at some moment of the check

diskVars == <<disk, HEAD, moves, saves>>
sidecars == <<graphThere, manifestFile, metaFile>>
freshVars == <<diskVars, sidecars, indexing, receipt, passes, done, moments>>

Clock == moves + saves + 1
Absent == [there |-> FALSE]
NotIndexing == [step |-> "idle"]
NoCheck == [step |-> "idle"]

FreshInit ==
    /\ HEAD = FirstRevision
    /\ disk = [p \in Paths |-> IF ContentOf[HEAD][p] = 0 THEN 0 ELSE 1]
    /\ graphThere = FALSE /\ manifestFile = [id |-> 0] /\ metaFile = Absent
    /\ indexing = NotIndexing /\ receipt = NoCheck
    /\ moves = 0 /\ saves = 0 /\ passes = <<>> /\ done = 0 /\ moments = {}

-----------------------------------------------------------------------------
\* The tree.

\* A checkout writes the files whose text differs, and no others.
Checkout(r) ==
    /\ r # HEAD /\ moves < MaxMoves
    /\ MovesInIndex \/ indexing.step = "idle"
    /\ HEAD' = r /\ moves' = moves + 1
    /\ disk' = [p \in Paths |-> IF ContentOf[r][p] = ContentOf[HEAD][p] THEN disk[p]
                                ELSE IF ContentOf[r][p] = 0 THEN 0 ELSE Clock + 1]
    /\ UNCHANGED <<saves, sidecars, indexing, receipt, passes, done>>

Save(p) ==
    /\ disk[p] # 0 /\ saves < MaxSaves
    /\ disk' = [disk EXCEPT ![p] = Clock + 1] /\ saves' = saves + 1
    /\ UNCHANGED <<HEAD, moves, sidecars, indexing, receipt, passes, done>>

-----------------------------------------------------------------------------
\* The indexer: an incremental index keeps the graph, a full one removes it first.

do_index_codebase(full) ==
    /\ indexing.step = "idle" /\ Len(passes) < MaxPasses
    /\ full \/ (graphThere /\ manifestFile.id # 0)
    /\ indexing' = [step |-> IF full THEN "build" ELSE "walk", full |-> full]
    /\ graphThere' = (graphThere /\ ~full)
    /\ UNCHANGED <<diskVars, manifestFile, metaFile, receipt, passes, done>>

Build ==
    /\ indexing.step = "build"
    /\ graphThere' = TRUE
    /\ indexing' = [indexing EXCEPT !.step = "walk"]
    /\ UNCHANGED <<diskVars, manifestFile, metaFile, receipt, passes, done>>

\* The walk whose stamps the manifest will have.
Walk ==
    /\ indexing.step = "walk" /\ Len(passes) < MaxPasses
    /\ passes' = Append(passes, [files |-> [p \in {x \in Paths : disk[x] # 0} |-> disk[p]],
                                 commit |-> HEAD])
    /\ indexing' = [indexing EXCEPT !.step = "save"]
    /\ UNCHANGED <<diskVars, sidecars, receipt, done>>

manifest_save ==
    /\ indexing.step = "save"
    /\ manifestFile' = [id |-> Len(passes), files |-> passes[Len(passes)].files]
    /\ indexing' = [indexing EXCEPT !.step = "meta"]
    /\ UNCHANGED <<diskVars, graphThere, metaFile, receipt, passes, done>>

\* An incremental index then falls back to a full one; a full one goes on.
manifest_save_fails ==
    /\ indexing.step = "save" /\ (indexing.full => LostManifests)
    /\ indexing' = [step |-> IF indexing.full THEN "meta" ELSE "build", full |-> TRUE]
    /\ graphThere' = indexing.full
    /\ UNCHANGED <<diskVars, manifestFile, metaFile, receipt, passes, done>>

\* The sidecar names the manifest on disk and the HEAD of this moment.
write_graph_meta ==
    /\ indexing.step = "meta"
    /\ metaFile' = [there |-> TRUE, manifest |-> manifestFile.id, commit_sha |-> HEAD]
    /\ done' = Len(passes)
    /\ indexing' = NotIndexing
    /\ UNCHANGED <<diskVars, graphThere, manifestFile, receipt, passes>>

\* The process ends, or the sidecar cannot be written, which is only reported.
StopIndex ==
    /\ indexing.step # "idle"
    /\ indexing' = NotIndexing
    /\ UNCHANGED <<diskVars, sidecars, receipt, passes, done>>

-----------------------------------------------------------------------------
\* The check.

Reply(state) == [step |-> "done", state |-> state]

\* (mutant) any two sidecars are a pair.
describes_manifest_always(metaRead, id) == TRUE

\* A meta.json without an identity pairs with no manifest.
describes_manifest(metaRead, id) == metaRead.manifest # 0 /\ metaRead.manifest = id

admissible_inputs ==
    \/ /\ receipt.step = "idle"
       /\ receipt' = IF graphThere THEN [step |-> "meta"] ELSE Reply("unknown")
    \/ /\ receipt.step = "meta"
       /\ receipt' = IF metaFile.there THEN [step |-> "manifest", meta |-> metaFile]
                     ELSE Reply("unknown")
    \/ /\ receipt.step = "manifest"
       /\ receipt' = IF manifestFile.id # 0 /\ describes_manifest(receipt.meta, manifestFile.id)
                     THEN [step |-> "stat", files |-> manifestFile.files,
                           left |-> DOMAIN manifestFile.files, dirty |-> 0,
                           commit_sha |-> receipt.meta.commit_sha]
                     ELSE Reply("unknown")

\* One stat(2): another stamp, or no file.
count_dirty ==
    /\ receipt.step = "stat"
    /\ \E p \in receipt.left :
          receipt' = [receipt EXCEPT !.left = @ \ {p},
                                     !.dirty = IF disk[p] = receipt.files[p] THEN @ ELSE @ + 1]

\* (ahead, behind), one element, or none when git gives no answer.
commit_divergence(indexed, head) ==
    <<[ahead |-> Cardinality(AncestorsOf[indexed] \ AncestorsOf[head]),
       behind |-> Cardinality(AncestorsOf[head] \ AncestorsOf[indexed])]>>

verdict ==
    /\ receipt.step = "stat" /\ receipt.left = {}
    /\ \E divergence \in {commit_divergence(receipt.commit_sha, HEAD), <<>>} :
          LET head_moved == divergence # <<>> /\ divergence[1].ahead + divergence[1].behind > 0
          IN  receipt' = IF receipt.files = <<>> /\ divergence = <<>> THEN Reply("unknown")
                         ELSE [step |-> "done", git |-> divergence # <<>>,
                               state |-> IF receipt.dirty = 0 /\ ~head_moved THEN "fresh"
                                         ELSE "stale"]

Delivered == receipt.step = "done" /\ receipt' = NoCheck

CheckStep == /\ admissible_inputs \/ count_dirty \/ verdict \/ Delivered
             /\ UNCHANGED <<diskVars, sidecars, indexing, passes, done>>

-----------------------------------------------------------------------------
Moment == [disk |-> disk, HEAD |-> HEAD, done |-> done]
Witnessed ==
    moments' = CASE receipt'.step = "idle" -> {}
                 [] receipt.step = "idle" -> {Moment}
                 [] receipt.step = "done" -> moments
                 [] OTHER -> moments \cup {Moment'}

FreshNext ==
    /\ \/ \E r \in Revisions : Checkout(r)
       \/ \E p \in Paths : Save(p)
       \/ \E full \in BOOLEAN : do_index_codebase(full)
       \/ Build \/ Walk \/ manifest_save \/ manifest_save_fails \/ write_graph_meta \/ StopIndex
       \/ CheckStep
    /\ Witnessed

-----------------------------------------------------------------------------
\* A receipt that says "fresh" is about one index, the last finished one at some
\* moment of the call: every file that index read had, at some moment of the call,
\* the stamp it was read with, and HEAD, when git answered, was at the commit it was
\* read at.  No interleaving of the five reads with a running index, and no index
\* that stopped between its two sidecars, mixes two of them.
FreshIsCurrent ==
    receipt.step = "done" /\ receipt.state = "fresh" =>
        \E n \in {s.done : s \in moments} \ {0} :
            /\ \A p \in DOMAIN passes[n].files :
                  \E s \in moments : s.disk[p] = passes[n].files[p]
            /\ receipt.git => \E s \in moments : s.HEAD = passes[n].commit
=============================================================================
