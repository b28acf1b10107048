---------------------------- MODULE IndexRefresh ----------------------------
(***************************************************************************)
(* `index_codebase` keeps three things in step with a source tree it does   *)
(* not own: the graph, the file manifest (what the graph was built from),   *)
(* and meta.json (which manifest it belongs to).  Each is committed on its   *)
(* own, each file is read several times (stat, hash, parse, light links),    *)
(* and the tree may be edited or the process may end between any two steps.  *)
(*                                                                           *)
(* A file's bytes are a version number; a write gives the file a new mtime.  *)
(* What a file yields in the graph is its File node, the directories above   *)
(* it, its symbols (the version they were parsed from) and its light links.  *)
(* Renames are not a class of their own here: classify pairs them for the    *)
(* report, apply_changes purges the old name and parses the new one exactly  *)
(* as it does for a deletion and an addition.                                *)
(***************************************************************************)
EXTENDS Naturals, FiniteSets

CONSTANTS
    Files,        \* repository-relative paths
    Dirs,         \* directories below the root
    Above,        \* Above[f]: the directories on the path of f
    Cites,        \* Cites[c]: the files that version c refers to
    MaxEdits,     \* bound on changes of the tree
    MaxFaults,    \* bound on crashes and failed steps
    EditWhen,     \* when the tree may change: "idle", "refresh" or "always"
    CrashWhen,    \* when the process may end: "never", "building" or "always"; only
                  \* with "always" may a marked graph be left beside an old manifest
    Revert,       \* may a write bring back an earlier version?
    Lookalikes    \* may a rename put a file where the manifest has its mtime or text?

Versions == 0..MaxEdits
Phases == {"idle", "discover", "classify", "purge", "create", "parse", "prune",
           "link", "mark", "save", "restat", "rehash", "meta"}
NoHash == {}

ASSUME ShapeAssumption ==
    /\ Above \in [Files -> SUBSET Dirs]
    /\ Cites \in [Versions -> SUBSET Files]
ASSUME BoundsAssumption ==
    /\ MaxEdits \in Nat /\ MaxFaults \in Nat
    /\ EditWhen \in {"idle", "refresh", "always"}
    /\ CrashWhen \in {"never", "building", "always"}
    /\ Revert \in BOOLEAN /\ Lookalikes \in BOOLEAN

VARIABLES
    tree,      \* the files on disk: path -> [mtime, content]
    graph,     \* the LadybugDB graph of the tree
    saved,     \* is there a file_manifest.json?
    manifest,  \* its files: path -> [mtime, hash]
    meta,      \* meta.json, by the manifest it names: "none", "paired", "torn"
    run,       \* the index_codebase call under way
    edits, faults

vars == <<tree, graph, saved, manifest, meta, run, edits, faults>>

-----------------------------------------------------------------------------
\* Finite maps (BTreeMap in the code).

Put(m, f, v) == [g \in DOMAIN m \cup {f} |-> IF g = f THEN v ELSE m[g]]
Without(m, f) == [g \in DOMAIN m \ {f} |-> m[g]]
MapsTo(S) == UNION {[D -> S] : D \in SUBSET Files}
Empty == [f \in {} |-> 0]

NoGraph == [exists |-> FALSE, marker |-> FALSE, nodes |-> {}, dirs |-> {},
            symbols |-> Empty, links |-> {}]

Idle == [phase |-> "idle", full |-> FALSE, found |-> Empty, next |-> Empty,
         changed |-> {}, gone |-> {}, purge |-> {}, insert |-> {}, parse |-> {},
         reparsed |-> {}]

-----------------------------------------------------------------------------
\* What the passes read from the tree.

\* manifest::hash_file: names the bytes as they are now, empty if unreadable.
Hash(f) == IF f \in DOMAIN tree THEN {tree[f].content} ELSE NoHash

\* classify::discover: the walk, and each file's (mtime, size).
Discovered == [f \in DOMAIN tree |-> tree[f].mtime]

SameStat(f) == manifest[f].mtime = run.found[f]
SameContent(f) == Hash(f) # NoHash /\ Hash(f) = manifest[f].hash

\* (mutant) "newer than" instead of "differs".
ChangedNewer == {f \in DOMAIN run.found \cap DOMAIN manifest :
                     run.found[f] > manifest[f].mtime /\ ~SameContent(f)}

\* classify: the cheap signal first, the content hash when it moved.
Changed == {f \in DOMAIN run.found \cap DOMAIN manifest :
                ~SameStat(f) /\ ~SameContent(f)}
Added == DOMAIN run.found \ DOMAIN manifest
Gone == DOMAIN manifest \ DOMAIN run.found

\* The manifest of this pass: the prior entry of a file whose stat is unchanged,
\* a fresh hash under the discovered mtime for every other.
NextManifest ==
    [f \in DOMAIN run.found |->
        IF f \in DOMAIN manifest /\ SameStat(f) THEN manifest[f]
        ELSE [mtime |-> run.found[f], hash |-> Hash(f)]]

\* light_link: the links out of the parsed files, read again from disk, to the
\* files of the walk.
DerivedLinks ==
    {l \in (run.reparsed \cap DOMAIN tree) \X DOMAIN run.found :
        /\ l[1] # l[2]
        /\ l[2] \in Cites[tree[l[1]].content]
        /\ {l[1], l[2]} \subseteq graph.nodes}

-----------------------------------------------------------------------------
\* The tree changes.

MayEdit == /\ edits < MaxEdits
           /\ \/ run.phase = "idle"
              \/ EditWhen = "refresh" /\ ~run.full
              \/ EditWhen = "always"

\* Somebody saves f.  Bringing back earlier bytes is a checkout of an old commit,
\* saving the present ones again is a touch.
Write(f) ==
    /\ MayEdit
    /\ \E c \in IF Revert THEN 0..(edits + 1) ELSE {edits + 1} :
           tree' = Put(tree, f, [mtime |-> edits + 1, content |-> c])
    /\ edits' = edits + 1
    /\ UNCHANGED <<graph, saved, manifest, meta, run, faults>>

Delete(f) ==
    /\ MayEdit
    /\ f \in DOMAIN tree
    /\ tree' = Without(tree, f)
    /\ edits' = edits + 1
    /\ UNCHANGED <<graph, saved, manifest, meta, run, faults>>

\* The manifest's entry for g would pass for f's file.
Lookalike(f, g) ==
    g \in DOMAIN manifest /\ (\/ manifest[g].mtime = tree[f].mtime
                             \/ manifest[g].hash = {tree[f].content})

\* mv keeps the mtime.
Move(f, g) ==
    /\ MayEdit
    /\ run.phase = "idle"
    /\ f # g
    /\ f \in DOMAIN tree
    /\ Lookalikes \/ ~Lookalike(f, g)
    /\ tree' = Put(Without(tree, f), g, tree[f])
    /\ edits' = edits + 1
    /\ UNCHANGED <<graph, saved, manifest, meta, run, faults>>

-----------------------------------------------------------------------------
\* index_codebase: refresh when there is something to refresh, else rebuild.

StartFull == /\ graph' = NoGraph
             /\ run' = [Idle EXCEPT !.phase = "create", !.full = TRUE]

\* (mutant) an unfinished build is refreshed.
RefreshableUnmarked(full) == ~full /\ graph.exists /\ saved

\* try_incremental_index's conditions, and index_incremental's require_*: a graph
\* whose full build did not finish carries no marker and is refused.
Refreshable(full) == ~full /\ graph.exists /\ saved /\ graph.marker

IndexCodebase(full) ==
    /\ run.phase = "idle"
    /\ IF Refreshable(full)
       THEN run' = [Idle EXCEPT !.phase = "discover"] /\ UNCHANGED graph
       ELSE StartFull
    /\ UNCHANGED <<tree, saved, manifest, meta, edits, faults>>

Discover ==
    /\ run.phase = "discover"
    /\ run' = [run EXCEPT !.phase = "classify", !.found = Discovered]
    /\ UNCHANGED <<tree, graph, saved, manifest, meta, edits, faults>>

Classify ==
    /\ run.phase = "classify"
    /\ run' = [run EXCEPT !.phase = "purge", !.next = NextManifest,
                          !.changed = Changed, !.gone = Gone,
                          !.purge = Changed \cup Gone,
                          !.insert = Added, !.parse = Changed \cup Added,
                          !.reparsed = Changed \cup Added]
    /\ UNCHANGED <<tree, graph, saved, manifest, meta, edits, faults>>

\* (mutant) the old text's links stay.
PurgedGraphLinked(f) ==
    [graph EXCEPT !.symbols = Without(@, f),
                  !.nodes = IF f \in run.changed THEN @ ELSE @ \ {f}]

\* A changed file loses its symbols and outbound links and keeps its File node; a
\* file that is gone loses its node, and every link that touches it with it.
PurgedGraph(f) ==
    LET kept == f \in run.changed IN
    [graph EXCEPT
        !.symbols = Without(@, f),
        !.nodes = IF kept THEN @ ELSE @ \ {f},
        !.links = {l \in @ : l[1] # f /\ (kept \/ l[2] # f)}]

PurgeFile ==
    /\ run.phase = "purge"
    /\ \E f \in run.purge :
           /\ graph' = PurgedGraph(f)
           /\ run' = [run EXCEPT !.purge = @ \ {f}]
    /\ UNCHANGED <<tree, saved, manifest, meta, edits, faults>>

PurgeDone ==
    /\ run.phase = "purge"
    /\ run.purge = {}
    /\ run' = [run EXCEPT !.phase = "parse"]
    /\ UNCHANGED <<tree, graph, saved, manifest, meta, edits, faults>>

\* (mutant) a rebuild that trusts the manifest.
CreateGraphTrusting ==
    /\ run.phase = "create"
    /\ graph' = [graph EXCEPT !.exists = TRUE]
    /\ LET new == DOMAIN tree \ DOMAIN manifest IN
       run' = [run EXCEPT !.phase = "parse", !.found = Discovered,
                          !.insert = new, !.parse = new, !.reparsed = new]
    /\ UNCHANGED <<tree, saved, manifest, meta, edits, faults>>

\* index_codebase_with_language: a new, unmarked graph and its own walk.
CreateGraph ==
    /\ run.phase = "create"
    /\ graph' = [graph EXCEPT !.exists = TRUE]
    /\ run' = [run EXCEPT !.phase = "parse", !.found = Discovered,
                          !.insert = DOMAIN tree, !.parse = DOMAIN tree,
                          !.reparsed = DOMAIN tree]
    /\ UNCHANGED <<tree, saved, manifest, meta, edits, faults>>

\* The ancestor directories and the File node of a new file.
InsertFile ==
    /\ run.phase = "parse"
    /\ \E f \in run.insert \ graph.nodes :
           /\ graph' = [graph EXCEPT !.nodes = @ \cup {f},
                                     !.dirs = @ \cup Above[f]]
           /\ run' = [run EXCEPT !.insert = @ \ {f}]
    /\ UNCHANGED <<tree, saved, manifest, meta, edits, faults>>

\* The node of a "new" file is already there (its primary key): the refresh
\* fails, and the call goes on with a full rebuild.
InsertRefused ==
    /\ run.phase = "parse"
    /\ run.insert \cap graph.nodes # {}
    /\ StartFull
    /\ UNCHANGED <<tree, saved, manifest, meta, edits, faults>>

\* index_single_file: parse what the file holds now; a file that cannot be read
\* is skipped.
ParseFile ==
    /\ run.phase = "parse"
    /\ \E f \in run.parse \ run.insert :
           /\ graph' = IF f \in DOMAIN tree
                       THEN [graph EXCEPT !.symbols = Put(@, f, tree[f].content)]
                       ELSE graph
           /\ run' = [run EXCEPT !.parse = @ \ {f}]
    /\ UNCHANGED <<tree, saved, manifest, meta, edits, faults>>

ParseDone ==
    /\ run.phase = "parse"
    /\ run.parse = {}
    /\ run' = [run EXCEPT !.phase = IF run.full THEN "link" ELSE "prune"]
    /\ UNCHANGED <<tree, graph, saved, manifest, meta, edits, faults>>

\* prune_orphan_directories, only after a deletion or a rename.
Prune ==
    /\ run.phase = "prune"
    /\ graph' = IF run.gone = {} THEN graph
                ELSE [graph EXCEPT
                        !.dirs = {d \in @ : \E f \in graph.nodes : d \in Above[f]}]
    /\ run' = [run EXCEPT !.phase = "link"]
    /\ UNCHANGED <<tree, saved, manifest, meta, edits, faults>>

\* The light-link pass; an error in it is logged and the pass goes on.
Link ==
    /\ run.phase = "link"
    /\ \/ graph' = [graph EXCEPT !.links = @ \cup DerivedLinks] /\ UNCHANGED faults
       \/ faults < MaxFaults /\ faults' = faults + 1 /\ UNCHANGED graph
    /\ run' = [run EXCEPT !.phase = IF run.full THEN "mark" ELSE "save"]
    /\ UNCHANGED <<tree, saved, manifest, meta, edits>>

\* Writing a manifest parts it from the meta.json that named the one before.
Replaced(m) == /\ saved' = TRUE
               /\ manifest' = m
               /\ meta' = IF meta = "none" THEN "none" ELSE "torn"

\* (mutant) the manifest is built from a second walk, as after a full build.
SaveManifestRestat ==
    /\ run.phase = "save"
    /\ Replaced([f \in DOMAIN tree |-> [mtime |-> tree[f].mtime, hash |-> Hash(f)]])
    /\ run' = [run EXCEPT !.phase = "meta"]
    /\ UNCHANGED <<tree, graph, edits, faults>>

SaveManifest ==
    /\ run.phase = "save"
    /\ Replaced(run.next)
    /\ run' = [run EXCEPT !.phase = "meta"]
    /\ UNCHANGED <<tree, graph, edits, faults>>

\* The end of a full build: the markers, then a second walk for the manifest.
WriteMarkers ==
    /\ run.phase = "mark"
    /\ graph' = [graph EXCEPT !.marker = TRUE]
    /\ run' = [run EXCEPT !.phase = "restat"]
    /\ UNCHANGED <<tree, saved, manifest, meta, edits, faults>>

Restat ==
    /\ run.phase = "restat"
    /\ run' = [run EXCEPT !.phase = "rehash", !.found = Discovered]
    /\ UNCHANGED <<tree, graph, saved, manifest, meta, edits, faults>>

WriteFullManifest ==
    /\ run.phase = "rehash"
    /\ Replaced([f \in DOMAIN run.found |-> [mtime |-> run.found[f], hash |-> Hash(f)]])
    /\ run' = [run EXCEPT !.phase = "meta"]
    /\ UNCHANGED <<tree, graph, edits, faults>>

\* A manifest that cannot be written after a full build is only logged.
FullManifestLost ==
    /\ run.phase = "rehash" /\ CrashWhen = "always"
    /\ faults < MaxFaults /\ faults' = faults + 1
    /\ run' = [run EXCEPT !.phase = "meta"]
    /\ UNCHANGED <<tree, graph, saved, manifest, meta, edits>>

\* write_graph_meta names whichever manifest is there; a failed write is reported
\* beside the answer.
WriteMeta ==
    /\ run.phase = "meta"
    /\ \/ /\ meta' = IF saved THEN "paired" ELSE "torn"
          /\ UNCHANGED faults
       \/ faults < MaxFaults /\ faults' = faults + 1 /\ UNCHANGED meta
    /\ run' = Idle
    /\ UNCHANGED <<tree, graph, saved, manifest, edits>>

-----------------------------------------------------------------------------
\* Failures.

Fault == faults < MaxFaults /\ faults' = faults + 1

\* Any error of a refresh sends the call on to a full rebuild.
RefreshFails ==
    /\ ~run.full
    /\ run.phase \in {"discover", "purge", "parse", "prune", "save"}
    /\ Fault
    /\ StartFull
    /\ UNCHANGED <<tree, saved, manifest, meta, edits>>

\* An error of a full build ends the call, also one of the counts that are taken
\* after the markers: the marked graph is then left beside the manifest of before.
FullFails ==
    /\ run.full
    /\ \/ run.phase \in {"create", "parse", "mark"}
       \/ run.phase = "restat" /\ CrashWhen = "always"
    /\ Fault
    /\ run' = Idle
    /\ UNCHANGED <<tree, graph, saved, manifest, meta, edits>>

\* "building" is any time before the build's marker, and after the manifest.
Crash ==
    /\ run.phase # "idle"
    /\ \/ CrashWhen = "always"
       \/ CrashWhen = "building" /\ ((run.full /\ ~graph.marker) \/ run.phase = "meta")
    /\ Fault
    /\ run' = Idle
    /\ UNCHANGED <<tree, graph, saved, manifest, meta, edits>>

-----------------------------------------------------------------------------
Init ==
    /\ \E S \in SUBSET Files : tree = [f \in S |-> [mtime |-> 0, content |-> 0]]
    /\ graph = NoGraph
    /\ saved = FALSE /\ manifest = Empty
    /\ meta = "none"
    /\ run = Idle
    /\ edits = 0 /\ faults = 0

Refresh == Discover \/ Classify \/ PurgeFile \/ PurgeDone \/ Prune \/ SaveManifest
Rebuild == CreateGraph \/ WriteMarkers \/ Restat \/ WriteFullManifest
Either == InsertFile \/ InsertRefused \/ ParseFile \/ ParseDone \/ Link \/ WriteMeta
Step == Refresh \/ Rebuild \/ Either

Edit == \/ \E f \in Files : Write(f) \/ Delete(f)
        \/ \E f, g \in Files : Move(f, g)

Next == \/ Step
        \/ \E full \in BOOLEAN : IndexCodebase(full)
        \/ Edit
        \/ RefreshFails \/ FullFails \/ FullManifestLost \/ Crash

Spec == Init /\ [][Next]_vars

\* A call runs on one thread to its end, and the host keeps asking for a refresh.
RefreshSpec == Spec /\ WF_vars(Step) /\ SF_vars(IndexCodebase(FALSE))

\* As above, of a host that keeps asking for a rebuild (`full: true`).
RebuildSpec == Spec /\ WF_vars(Step) /\ SF_vars(IndexCodebase(TRUE))

-----------------------------------------------------------------------------
\* Properties.

TypeOK ==
    /\ tree \in MapsTo([mtime : Versions, content : Versions])
    /\ graph.exists \in BOOLEAN /\ graph.marker \in BOOLEAN
    /\ graph.nodes \subseteq Files /\ graph.dirs \subseteq Dirs
    /\ graph.symbols \in MapsTo(Versions)
    /\ graph.links \subseteq Files \X Files
    /\ saved \in BOOLEAN
    /\ DOMAIN manifest \subseteq Files
    /\ \A f \in DOMAIN manifest :
           /\ manifest[f].mtime \in Versions
           /\ manifest[f].hash \in {NoHash} \cup {{c} : c \in Versions}
    /\ meta \in {"none", "paired", "torn"}
    /\ run.phase \in Phases /\ run.full \in BOOLEAN
    /\ run.found \in MapsTo(Versions)
    /\ edits \in 0..MaxEdits /\ faults \in 0..MaxFaults

\* The graph of the index stage, light links aside, is the one a full index of the
\* tree would build.
GraphMatches ==
    /\ graph.nodes = DOMAIN tree
    /\ graph.symbols = [f \in DOMAIN tree |-> tree[f].content]
    /\ graph.dirs = UNION {Above[f] : f \in DOMAIN tree}

\* index_incremental's postcondition, and the full index's: when a call has written
\* its manifest, after any history of refreshes, rebuilds, failures and crashes, the
\* graph has exactly the tree's files, their directories and their current symbols.
GraphIsTree == run.phase = "meta" => GraphMatches

\* What the next refresh will skip as unchanged is in the graph as it stands on
\* disk.  Whatever else is stale then, a refresh repairs it.  (Not so where a file
\* with the mtime a refresh recorded is renamed over one written during it.)
UnchangedIsIndexed ==
    run.phase = "idle" /\ graph.marker =>
        \A f \in DOMAIN tree \cap DOMAIN manifest :
            \/ manifest[f].mtime = tree[f].mtime
            \/ manifest[f].hash = {tree[f].content}
            => /\ f \in graph.nodes
               /\ f \in DOMAIN graph.symbols
               /\ graph.symbols[f] = tree[f].content

\* A light link in a refreshed graph is one the source file makes today: links of an
\* earlier text, and to files that are gone, do not survive a pass.
LinksAreSound ==
    run.phase = "meta" =>
        \A l \in graph.links :
            /\ l[1] \in DOMAIN tree /\ l[2] \in DOMAIN tree
            /\ l[2] \in Cites[tree[l[1]].content]

\* graph_freshness::check, at an instant: the sidecars pair up and no file of the
\* manifest is dirty (the commit signal is silent: HEAD has not moved).
Fresh ==
    /\ graph.exists
    /\ meta = "paired"
    /\ DOMAIN manifest # {}
    /\ \A f \in DOMAIN manifest : f \in DOMAIN tree /\ tree[f].mtime = manifest[f].mtime

\* A read tool's receipt says "fresh" only of a graph that holds the manifest's files
\* as they are.
FreshIsHonest ==
    run.phase = "idle" /\ Fresh =>
        \A f \in DOMAIN manifest : /\ f \in DOMAIN graph.symbols
                                  /\ graph.symbols[f] = tree[f].content

\* However the tree was edited and wherever a build was cut short before its marker,
\* calls that only ask for a refresh bring the graph back to the tree.
RefreshConverges == []<>(run.phase = "meta" /\ GraphMatches)

\* The remedy the tools name, `full: true`, works from every state a crash leaves.
RebuildRecovers == []<>(run.phase = "meta" /\ GraphMatches)
=============================================================================
