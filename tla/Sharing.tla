------------------------------- MODULE Sharing -------------------------------
(***************************************************************************)
(* The graph snapshot a repository carries (src/src/artifact.rs), the     *)
(* bootstrap that starts an index from it (src/src/history_handlers.rs)   *)
(* and the fill that brings the imported graph to the working tree         *)
(* (src/src/indexer/incremental/bootstrap.rs), with the coverage report    *)
(* every pass carries forward (src/src/indexer/incremental/coverage.rs).  *)
(*                                                                         *)
(* A file's text is a number, 0 when the file does not exist; a text in    *)
(* Broken parses only in part.  A tree, a commit and a manifest are        *)
(* functions from files to texts, and so is a graph: what it holds for a   *)
(* file is decided by the text it was parsed from.  A rename is the        *)
(* deletion of one name and the addition of the other, which is how        *)
(* apply_changes treats it.                                                *)
(***************************************************************************)
EXTENDS Naturals, Sequences, FiniteSets

CONSTANTS SharedFiles,        \* the source files of the indexed tree
          Texts,        \* the texts a file may have
          Broken,       \* the texts that parse only in part
          Ignored,      \* files that git ignores and the walk visits
          DirtyExports, \* may the tree differ from HEAD, or move, in an export
          TornExports,  \* may an export stop between its archive and its sidecar
          MaxTreeEdits, MaxCommits, MaxExportStops \* bounds of the environment

ASSUME SharingBounds ==
    /\ 0 \notin Texts /\ Broken \subseteq Texts /\ Ignored \subseteq SharedFiles
    /\ {DirtyExports, TornExports} \subseteq BOOLEAN
    /\ {MaxTreeEdits, MaxCommits, MaxExportStops} \subseteq Nat

VARIABLES
    tree,      \* the working tree
    commits,   \* the commits of the branch, oldest first, HEAD the last
    known,     \* the commits this clone can name (a shallow clone lacks some)
    index,     \* the local graph, its manifest and its coverage report
    archive,   \* graph.zst: the same three, bundled
    meta,      \* graph.meta.json: the commit it names, 0 when it is missing
    export,    \* what an export under way does next
    told,      \* what the last answer said of the graph, until something moves
    spent      \* edits and stops so far

shareVars == <<tree, commits, known, index, archive, meta, export, told, spent>>

NoFile == [f \in SharedFiles |-> 0]
NoIndex == [graph |-> NoFile, manifest |-> NoFile, gaps |-> {}, there |-> FALSE]
head == Len(commits)
Tracked(f) == commits[head][f] # 0
Clean == \A f \in SharedFiles \ Ignored : tree[f] = commits[head][f]
GapsOf(t) == {f \in SharedFiles : t[f] \in Broken}

-----------------------------------------------------------------------------
\* An index of the whole tree: graph, manifest and coverage from one walk.
\* The walk follows its own exclusion rules and not those of git.
full_index(t) == [graph |-> t, manifest |-> t, gaps |-> GapsOf(t), there |-> TRUE]

\* The gaps a refresh or a fill leaves: those of the files it did not parse
\* again, as they were, and fresh ones for the files it did.
merge_coverage(prior, reparsed, t) ==
    {f \in prior : t[f] # 0 /\ f \notin reparsed} \cup (GapsOf(t) \cap reparsed)

\* apply_changes and the files it is followed by.  A file to be added that the
\* graph already holds violates the primary key of File: the pass fails.
Applies(i, cs) == \A f \in cs.added : i.graph[f] = 0
apply_changes(i, cs, t) ==
    LET reparsed == cs.changed \cup cs.added IN
    [graph |-> [f \in SharedFiles |-> IF f \in reparsed THEN t[f]
                                ELSE IF f \in cs.deleted THEN 0 ELSE i.graph[f]],
     manifest |-> t,
     gaps |-> merge_coverage(i.gaps, reparsed, t),
     there |-> TRUE]

\* The change set of a manifest: what differs from it.
classify_tree(m, t) == [changed |-> {f \in SharedFiles : m[f] # 0 /\ t[f] # 0 /\ m[f] # t[f]},
                   added   |-> {f \in SharedFiles : m[f] = 0 /\ t[f] # 0},
                   deleted |-> {f \in SharedFiles : m[f] # 0 /\ t[f] = 0}]

\* git diff --name-status <commit>: over the files git tracks, the commit
\* against the tree.
git_status(c, f) ==
    CASE Tracked(f) /\ c[f] # 0 /\ tree[f] \notin {0, c[f]} -> "M"
      [] Tracked(f) /\ c[f] = 0 /\ tree[f] # 0              -> "A"
      [] c[f] # 0 /\ (tree[f] = 0 \/ ~Tracked(f))           -> "D"
      [] OTHER                                              -> "unchanged"

\* A changed or added file counts when the walk found it, a deleted one always.
parse_diff_line(c, code) ==
    {f \in SharedFiles : git_status(c, f) = code /\ (code = "D" \/ tree[f] # 0)}

collect_tracked_changes(c) == [changed |-> parse_diff_line(c, "M"),
                               added   |-> parse_diff_line(c, "A"),
                               deleted |-> parse_diff_line(c, "D")]

\* Variant: a file git does not track yet is not looked for.
collect_no_untracked(cs) == cs

\* git ls-files --others --exclude-standard: untracked and not ignored.
collect_untracked_adds(cs) ==
    [cs EXCEPT !.added = @ \cup {f \in SharedFiles \ (Ignored \cup cs.changed) :
                                     tree[f] # 0 /\ ~Tracked(f)}]

git_changes(c) == collect_untracked_adds(collect_tracked_changes(c))

-----------------------------------------------------------------------------
\* The environment: someone edits, commits, or clones the branch shallowly.
Still == DirtyExports \/ export = "no"

EditTree == /\ Still /\ spent.edits < MaxTreeEdits
        /\ \E f \in SharedFiles, v \in Texts \cup {0} :
              v # tree[f] /\ tree' = [tree EXCEPT ![f] = v]
        /\ spent' = [spent EXCEPT !.edits = @ + 1]
        /\ told' = "nothing"
        /\ UNCHANGED <<commits, known, index, archive, meta, export>>

Commit == /\ Still /\ head < MaxCommits /\ ~Clean
          /\ commits' = Append(commits, [f \in SharedFiles |->
                                 IF f \in Ignored THEN 0 ELSE tree[f]])
          /\ known' = known \cup {head + 1}
          /\ told' = "nothing"
          /\ UNCHANGED <<tree, index, archive, meta, export, spent>>

\* A clone, deep or shallow, with the snapshot and without a local index.
Clone == /\ export = "no" /\ index.there
         /\ index' = NoIndex
         /\ tree' = commits[head]
         /\ known' \in {known, {head}}
         /\ told' = "nothing"
         /\ UNCHANGED <<commits, archive, meta, export, spent>>

\* index_codebase with a local index: the refresh, or a full pass when the
\* import left no manifest; then, when asked, the export.
WantExport == export' \in {"no"} \cup
                  (IF DirtyExports \/ Clean THEN {"archive"} ELSE {})

refreshed ==
    LET cs == classify_tree(index.manifest, tree) IN
    IF Applies(index, cs) THEN apply_changes(index, cs, tree) ELSE full_index(tree)

RefreshIndex == /\ export = "no" /\ index.there
           /\ index' = refreshed
           /\ told' = "refreshed"
           /\ WantExport
           /\ UNCHANGED <<tree, commits, known, archive, meta, spent>>

Reindex == /\ export = "no" /\ ~index.there
           /\ index' = full_index(tree)
           /\ told' = "indexed"
           /\ WantExport
           /\ UNCHANGED <<tree, commits, known, archive, meta, spent>>

\* export_artifact renames the archive into place, and only then reads HEAD
\* and renames the sidecar: a stop in between pairs the two.
ExportArchive == /\ export = "archive"
                 /\ archive' = index
                 /\ export' = "meta"
                 /\ UNCHANGED <<tree, commits, known, index, meta, told, spent>>

ExportMeta == /\ export = "meta"
              /\ meta' = head
              /\ export' = "no"
              /\ UNCHANGED <<tree, commits, known, index, archive, told, spent>>

StopExport == /\ export = "archive" \/ (export = "meta" /\ TornExports)
              /\ spent.stops < MaxExportStops
              /\ export' = "no"
              /\ spent' = [spent EXCEPT !.stops = @ + 1]
              /\ UNCHANGED <<tree, commits, known, index, archive, meta, told>>

artifact_exists == archive.there /\ meta # 0
artifact_staleness == IF meta = head THEN "fresh" ELSE "stale"

\* The import leaves the bundled manifest beside the graph, the baseline the
\* next refresh compares the tree with.
import_artifact == archive

bootstrap_import(graph_state) == index' = import_artifact /\ told' = graph_state

\* The fill: by git when this clone knows the commit of the sidecar, by the
\* hashes of the bundled manifest when it does not.  A fill that fails is
\* followed by a full index.
fill_after_bootstrap == IF meta \in known THEN git_changes(commits[meta])
                        ELSE classify_tree(import_artifact.manifest, tree)

bootstrap_import_and_fill ==
    IF Applies(import_artifact, fill_after_bootstrap)
    THEN /\ index' = apply_changes(import_artifact, fill_after_bootstrap, tree)
         /\ told' = "filled"
    ELSE index' = full_index(tree) /\ told' = "indexed"

attempt_bootstrap(accept_stale) ==
    /\ export = "no" /\ ~index.there /\ artifact_exists
    /\ IF artifact_staleness = "fresh" THEN bootstrap_import("fresh")
       ELSE IF accept_stale THEN bootstrap_import("accepted_stale")
       ELSE bootstrap_import_and_fill
    /\ UNCHANGED <<tree, commits, known, archive, meta, export, spent>>

-----------------------------------------------------------------------------
ShareInit ==
    /\ tree \in [SharedFiles -> Texts \cup {0}]
    /\ commits = <<[f \in SharedFiles |-> IF f \in Ignored THEN 0 ELSE tree[f]]>>
    /\ known = {1}
    /\ index = NoIndex /\ archive = NoIndex
    /\ meta = 0 /\ export = "no" /\ told = "nothing"
    /\ spent = [edits |-> 0, stops |-> 0]

ShareNext == \/ EditTree \/ Commit \/ Clone
             \/ RefreshIndex \/ Reindex
             \/ ExportArchive \/ ExportMeta \/ StopExport
             \/ \E accept_stale \in BOOLEAN : attempt_bootstrap(accept_stale)

ShareSpec == ShareInit /\ [][ShareNext]_shareVars

-----------------------------------------------------------------------------
(* What fill_after_bootstrap promises of the graph it answers with: "the   *)
(* graph equals what a full index of the current tree would produce"; what *)
(* "graph_state": "fresh" promises of one it only imported: that it is the *)
(* graph of HEAD; and "Accepting stale never leaves the graph permanently, *)
(* silently stale": the answer of a later refresh comes with the graph of  *)
(* the tree, because the import kept the manifest of the graph and not one *)
(* of the tree.  Through any mixture of full passes, refreshes, imports and *)
(* fills the coverage report names exactly the files whose graph came from *)
(* a text that parses in part: a gap is dropped with the text that had it. *)
BootstrapIsCurrent ==
    /\ told \in {"filled", "refreshed"} => index.graph = tree
    /\ told = "fresh" => index.graph = commits[head]
    /\ index.there => index.gaps = GapsOf(index.graph)
=============================================================================
