------------------------- MODULE IndexRefreshProofs -------------------------
(***************************************************************************)
(* What a refresh of the graph keeps, for every set of files and            *)
(* directories, every history of edits and every number of failures.        *)
(*                                                                           *)
(* Two arguments.  While the tree holds still during a call (EditWhen is    *)
(* "idle"), a refresh leaves the graph of a full index: the inductive       *)
(* invariant says at each phase which files the pass still owes.  While the  *)
(* tree may change under a refresh, the graph may be stale, but only where   *)
(* the next refresh will look.                                               *)
(***************************************************************************)
EXTENDS IndexRefresh, TLAPS

-----------------------------------------------------------------------------
(* Types.                                                                    *)

Hashes == {NoHash} \cup {{c} : c \in Versions}
Entries == [mtime : Versions, hash : Hashes]
Stats == [mtime : Versions, content : Versions]

GraphType == [exists : BOOLEAN, marker : BOOLEAN, nodes : SUBSET Files,
              dirs : SUBSET Dirs, symbols : MapsTo(Versions),
              links : SUBSET (Files \X Files)]

RunType == [phase : Phases, full : BOOLEAN, found : MapsTo(Versions),
            next : MapsTo(Entries), changed : SUBSET Files, gone : SUBSET Files,
            purge : SUBSET Files, insert : SUBSET Files, parse : SUBSET Files,
            reparsed : SUBSET Files]

Typed ==
    /\ tree \in MapsTo(Stats)
    /\ graph \in GraphType
    /\ saved \in BOOLEAN
    /\ manifest \in MapsTo(Entries)
    /\ meta \in {"none", "paired", "torn"}
    /\ run \in RunType
    /\ edits \in 0..MaxEdits /\ faults \in 0..MaxFaults

-----------------------------------------------------------------------------
(* The tree holds still during a call.                                       *)

\* One mtime names one text, in the tree and in the manifest.
Stamped ==
    /\ \A f \in DOMAIN tree : tree[f].mtime <= edits
    /\ \A g \in DOMAIN manifest : manifest[g].mtime <= edits
    /\ \A f, g \in DOMAIN tree :
           tree[f].mtime = tree[g].mtime => tree[f].content = tree[g].content
    /\ \A f \in DOMAIN tree, g \in DOMAIN manifest :
           manifest[g].mtime = tree[f].mtime => manifest[g].hash = {tree[f].content}

DirsOf(fs) == UNION {Above[f] : f \in fs}

\* The graph is that of the files and texts the manifest names.
BuiltFromManifest ==
    /\ graph.nodes = DOMAIN manifest
    /\ DOMAIN graph.symbols = DOMAIN manifest
    /\ \A f \in DOMAIN manifest : manifest[f].hash = {graph.symbols[f]}
    /\ graph.dirs = DirsOf(DOMAIN manifest)

\* Every link leaves a parsed file, whose text as parsed makes it.
LinksFollowSymbols ==
    \A l \in graph.links :
        /\ l[1] \in DOMAIN graph.symbols /\ l[1] \in graph.nodes
        /\ l[2] \in graph.nodes
        /\ l[2] \in Cites[graph.symbols[l[1]]]

\* Which phases belong to which kind of pass, and when the graph is marked.
PhasesOK ==
    /\ run.phase \in {"discover", "classify", "purge", "prune", "save"} => run.full = FALSE
    /\ run.phase \in {"create", "mark", "restat", "rehash"} => run.full = TRUE
    /\ run.phase # "idle" =>
          (graph.marker = TRUE
             <=> run.full = FALSE \/ run.phase \in {"restat", "rehash", "meta"})

\* The manifest of the tree as it is.
TreeManifest ==
    [f \in DOMAIN tree |-> [mtime |-> tree[f].mtime, hash |-> {tree[f].content}]]

\* While purging: what of the old manifest's graph is still there.
PurgeOK ==
    /\ run.gone = DOMAIN manifest \ DOMAIN tree
    /\ run.changed \subseteq DOMAIN tree \cap DOMAIN manifest
    /\ run.purge \subseteq run.changed \cup run.gone
    /\ run.insert = DOMAIN tree \ DOMAIN manifest
    /\ run.parse = run.changed \cup run.insert
    /\ graph.nodes = (DOMAIN manifest \cap DOMAIN tree) \cup (run.gone \cap run.purge)
    /\ DOMAIN graph.symbols = (DOMAIN tree \ run.parse) \cup run.purge
    /\ \A f \in DOMAIN tree \ run.parse : graph.symbols[f] = tree[f].content
    /\ graph.dirs = DirsOf(DOMAIN manifest)

\* While parsing: what is still to be inserted and parsed.
ParseOK ==
    /\ run.insert \subseteq run.parse /\ run.parse \subseteq DOMAIN tree
    /\ run.full = TRUE => run.gone = {}
    /\ graph.nodes = DOMAIN tree \ run.insert
    /\ DOMAIN graph.symbols = DOMAIN tree \ run.parse
    /\ \A f \in DOMAIN graph.symbols : graph.symbols[f] = tree[f].content
    /\ DirsOf(graph.nodes) \subseteq graph.dirs
    /\ graph.dirs \subseteq DirsOf(DOMAIN tree \cup run.gone)

\* What holds at each phase of a pass over a tree that holds still.
ProgressOK ==
    /\ run.phase \in {"idle", "discover", "classify", "meta"} /\ graph.marker = TRUE
          => BuiltFromManifest
    /\ run.phase \in {"classify", "rehash"} => run.found = Discovered
    /\ run.phase \in {"purge", "parse", "prune", "link", "save"} /\ run.full = FALSE
          => run.next = TreeManifest
    /\ run.phase = "create" => graph = NoGraph /\ run.gone = {}
    /\ run.phase = "purge" => PurgeOK
    /\ run.phase \in {"parse", "prune"} => ParseOK
    /\ run.phase = "prune" => run.parse = {}
    /\ run.phase \in {"link", "mark", "save", "restat", "rehash", "meta"} => GraphMatches

QuietInv == Typed /\ Stamped /\ PhasesOK /\ LinksFollowSymbols /\ ProgressOK

-----------------------------------------------------------------------------
(* The tree may change under a refresh.                                      *)

\* A manifest entry that a refresh would take for the file on disk.
Matches(e, f) == e.mtime = tree[f].mtime \/ e.hash = {tree[f].content}

Indexed(f) == /\ f \in graph.nodes
              /\ f \in DOMAIN graph.symbols
              /\ graph.symbols[f] = tree[f].content

\* Nothing on record is of a text still to be written.
Dated(m) == \A f \in DOMAIN m : m[f].mtime <= edits /\ \A c \in m[f].hash : c <= edits

\* While a refresh is under way: the entries it will save are true of the graph, but
\* for the files it still parses.
RefreshOwes ==
    /\ run.purge \cap (DOMAIN run.next \ run.parse) = {}
    /\ (run.purge \ run.changed) \cap DOMAIN run.next = {}
    /\ run.insert \subseteq run.parse
    /\ DOMAIN run.next \ run.insert \subseteq graph.nodes
    /\ \A f \in DOMAIN tree \cap DOMAIN run.next :
           Matches(run.next[f], f) => f \in run.parse \/ Indexed(f)

\* While a rebuild is under way, in a tree that waits for it.
RebuildOwes ==
    /\ run.insert \subseteq run.parse
    /\ DOMAIN tree \ run.insert \subseteq graph.nodes
    /\ \A f \in DOMAIN tree : f \in run.parse \/ Indexed(f)

\* What the manifest takes for unchanged is in the graph.
RecordsHold ==
    /\ DOMAIN manifest \subseteq graph.nodes
    /\ \A f \in DOMAIN tree \cap DOMAIN manifest : Matches(manifest[f], f) => Indexed(f)

EditedOK ==
    /\ run.phase \in {"idle", "discover", "classify", "meta"} /\ graph.marker = TRUE
          => RecordsHold
    /\ run.phase \in {"purge", "parse", "prune", "link", "save"} /\ run.full = FALSE
          => RefreshOwes
    /\ run.phase \in {"parse", "link", "mark", "restat", "rehash"} /\ run.full = TRUE
          => RebuildOwes
    /\ run.phase = "parse" /\ run.full = FALSE => run.purge = {}
    /\ run.phase \in {"prune", "link", "mark", "save", "restat", "rehash"} => run.parse = {}
    /\ run.phase = "rehash" => run.found = Discovered

\* No mtime and no text on record is newer than the last edit.
DatesOK ==
    /\ Dated(manifest) /\ Dated(run.next)
    /\ \A f \in DOMAIN run.found : run.found[f] <= edits
    /\ \A f \in DOMAIN tree : tree[f].mtime <= edits /\ tree[f].content <= edits

EditedInv == Typed /\ PhasesOK /\ DatesOK /\ EditedOK

-----------------------------------------------------------------------------
(* Finite maps.                                                              *)

\* What it takes to be a map from some files.
LEMMA MapIs ==
    ASSUME NEW S, NEW m
    PROVE  m \in MapsTo(S) <=> DOMAIN m \subseteq Files /\ m \in [DOMAIN m -> S]
  BY DEF MapsTo

\* Put changes one entry.
LEMMA PutFacts ==
    ASSUME NEW S, NEW m \in MapsTo(S), NEW f \in Files, NEW v \in S
    PROVE  /\ Put(m, f, v) \in MapsTo(S)
           /\ DOMAIN Put(m, f, v) = DOMAIN m \cup {f}
           /\ Put(m, f, v)[f] = v
           /\ \A g \in DOMAIN m \ {f} : Put(m, f, v)[g] = m[g]
  <1>1. DOMAIN m \subseteq Files /\ \A g \in DOMAIN m : m[g] \in S
    BY MapIs
  <1>2. Put(m, f, v) \in [DOMAIN m \cup {f} -> S]
    BY <1>1 DEF Put
  <1>3. DOMAIN Put(m, f, v) = DOMAIN m \cup {f}
    BY DEF Put
  <1>4. Put(m, f, v) \in MapsTo(S)
    BY <1>1, <1>2, <1>3, MapIs
  <1> QED
    BY <1>3, <1>4 DEF Put

\* Without drops one entry.
LEMMA WithoutFacts ==
    ASSUME NEW S, NEW m \in MapsTo(S), NEW f
    PROVE  /\ Without(m, f) \in MapsTo(S)
           /\ DOMAIN Without(m, f) = DOMAIN m \ {f}
           /\ \A g \in DOMAIN m \ {f} : Without(m, f)[g] = m[g]
  <1>1. DOMAIN m \subseteq Files /\ \A g \in DOMAIN m : m[g] \in S
    BY MapIs
  <1>2. Without(m, f) \in [DOMAIN m \ {f} -> S]
    BY <1>1 DEF Without
  <1>3. DOMAIN Without(m, f) = DOMAIN m \ {f}
    BY DEF Without
  <1>4. Without(m, f) \in MapsTo(S)
    BY <1>1, <1>2, <1>3, MapIs
  <1> QED
    BY <1>3, <1>4 DEF Without

\* The map of nothing.
LEMMA EmptyFacts ==
    ASSUME NEW S
    PROVE  Empty \in MapsTo(S) /\ DOMAIN Empty = {}
  <1>1. DOMAIN Empty = {}
    BY DEF Empty
  <1>2. Empty \in [{} -> S]
    BY DEF Empty
  <1> QED
    BY <1>1, <1>2, MapIs

\* The first graph and the call that does not run are well typed.
LEMMA ConstantsTyped == NoGraph \in GraphType /\ Idle \in RunType
  <1>1. Empty \in MapsTo(Versions) /\ Empty \in MapsTo(Entries)
    BY EmptyFacts
  <1>2. NoGraph \in GraphType
    BY <1>1 DEF NoGraph, GraphType
  <1>3. Idle \in RunType
    BY <1>1 DEF Idle, RunType, Phases
  <1> QED
    BY <1>2, <1>3

\* What the walk and the two manifests read off the tree are maps of their kinds.
LEMMA ReadsTyped ==
    ASSUME Typed
    PROVE  /\ Discovered \in MapsTo(Versions)
           /\ DOMAIN Discovered = DOMAIN tree
           /\ \A f \in DOMAIN tree : Discovered[f] = tree[f].mtime
           /\ \A f : Hash(f) \in Hashes
  <1>1. DOMAIN tree \subseteq Files /\ \A f \in DOMAIN tree : tree[f] \in Stats
    BY MapIs DEF Typed
  <1>2. \A f \in DOMAIN tree : tree[f].mtime \in Versions /\ tree[f].content \in Versions
    BY <1>1 DEF Stats
  <1>3. Discovered \in [DOMAIN tree -> Versions]
    BY <1>2 DEF Discovered
  <1>4. DOMAIN Discovered = DOMAIN tree
    BY DEF Discovered
  <1>5. Discovered \in MapsTo(Versions)
    BY <1>1, <1>3, <1>4, MapIs
  <1>6. \A f : Hash(f) \in Hashes
    BY <1>2 DEF Hash, Hashes
  <1> QED
    BY <1>4, <1>5, <1>6 DEF Discovered

\* The manifest of a refresh.
LEMMA NextManifestTyped ==
    ASSUME Typed
    PROVE  NextManifest \in MapsTo(Entries) /\ DOMAIN NextManifest = DOMAIN run.found
  <1>1. run.found \in MapsTo(Versions) /\ manifest \in MapsTo(Entries)
    BY DEF Typed, RunType
  <1>2. /\ DOMAIN run.found \subseteq Files
        /\ \A f \in DOMAIN run.found : run.found[f] \in Versions
        /\ \A f \in DOMAIN manifest : manifest[f] \in Entries
    BY <1>1, MapIs
  <1>3. \A f : Hash(f) \in Hashes
    BY ReadsTyped
  <1>4. \A f \in DOMAIN run.found : [mtime |-> run.found[f], hash |-> Hash(f)] \in Entries
    BY <1>2, <1>3 DEF Entries
  <1>5. DOMAIN NextManifest = DOMAIN run.found
    BY DEF NextManifest
  <1>6. NextManifest \in [DOMAIN run.found -> Entries]
    BY <1>2, <1>4 DEF NextManifest
  <1> QED
    BY <1>2, <1>5, <1>6, MapIs

\* The manifest of a rebuild.
LEMMA FullManifestTyped ==
    ASSUME Typed
    PROVE  [f \in DOMAIN run.found |-> [mtime |-> run.found[f], hash |-> Hash(f)]]
               \in MapsTo(Entries)
  <1> DEFINE m == [f \in DOMAIN run.found |-> [mtime |-> run.found[f], hash |-> Hash(f)]]
  <1>1. run.found \in MapsTo(Versions)
    BY DEF Typed, RunType
  <1>2. /\ DOMAIN run.found \subseteq Files
        /\ \A f \in DOMAIN run.found : run.found[f] \in Versions
    BY <1>1, MapIs
  <1>3. \A f : Hash(f) \in Hashes
    BY ReadsTyped
  <1>4. \A f \in DOMAIN run.found : [mtime |-> run.found[f], hash |-> Hash(f)] \in Entries
    BY <1>2, <1>3 DEF Entries
  <1>5. m \in [DOMAIN run.found -> Entries] /\ DOMAIN m = DOMAIN run.found
    BY <1>4
  <1> QED
    BY <1>2, <1>5, MapIs

-----------------------------------------------------------------------------
(* Type correctness.                                                         *)

\* A run that only moves on, and one that starts over.
LEMMA PhaseTyped ==
    ASSUME NEW r \in RunType, NEW p \in Phases
    PROVE  [r EXCEPT !.phase = p] \in RunType
  BY DEF RunType

LEMMA StartFullTyped ==
    ASSUME StartFull
    PROVE  graph' \in GraphType /\ run' \in RunType
  BY ConstantsTyped DEF StartFull, RunType, Phases

\* What the tree does to itself.
LEMMA EditTyped ==
    ASSUME Typed, Edit
    PROVE  Typed'
  <1>1. /\ tree \in MapsTo(Stats) /\ edits \in 0..MaxEdits
        /\ \A f \in DOMAIN tree : f \in Files /\ tree[f] \in Stats
    BY MapIs DEF Typed
  <1>2. edits < MaxEdits /\ edits' = edits + 1
        /\ UNCHANGED <<graph, saved, manifest, meta, run, faults>>
    BY DEF Edit, Write, Delete, Move, MayEdit
  <1>3. edits' \in 0..MaxEdits
    BY <1>1, <1>2, BoundsAssumption
  <1>4. tree' \in MapsTo(Stats)
    <2>1. ASSUME NEW f \in Files, Write(f) PROVE tree' \in MapsTo(Stats)
      <3>1. PICK c \in IF Revert THEN 0..(edits + 1) ELSE {edits + 1} :
                tree' = Put(tree, f, [mtime |-> edits + 1, content |-> c])
        BY <2>1 DEF Write
      <3>2. [mtime |-> edits + 1, content |-> c] \in Stats
        BY <1>1, <1>2, BoundsAssumption DEF Stats, Versions
      <3> QED
        BY <1>1, <3>1, <3>2, PutFacts
    <2>2. ASSUME NEW f \in Files, Delete(f) PROVE tree' \in MapsTo(Stats)
      BY <1>1, <2>2, WithoutFacts DEF Delete
    <2>3. ASSUME NEW f \in Files, NEW g \in Files, Move(f, g) PROVE tree' \in MapsTo(Stats)
      <3>1. Without(tree, f) \in MapsTo(Stats) /\ tree[f] \in Stats
        BY <1>1, <2>3, WithoutFacts DEF Move
      <3> QED
        BY <2>3, <3>1, PutFacts DEF Move
    <2> QED
      BY <2>1, <2>2, <2>3 DEF Edit
  <1> QED
    BY <1>2, <1>3, <1>4 DEF Typed

\* A step of a refresh, a rebuild or a failure keeps the types.
LEMMA StepTyped ==
    ASSUME Typed, Next, ~Edit
    PROVE  Typed'
  <1> DEFINE Kept == UNCHANGED <<tree, saved, manifest, meta, edits, faults>>
             Fine == graph' \in GraphType /\ run' \in RunType
  <1>1. /\ graph \in GraphType /\ run \in RunType /\ tree \in MapsTo(Stats)
        /\ manifest \in MapsTo(Entries) /\ edits \in 0..MaxEdits /\ faults \in 0..MaxFaults
        /\ \A f \in DOMAIN tree : f \in Files /\ tree[f] \in Stats
        /\ DOMAIN manifest \subseteq Files /\ DOMAIN tree \subseteq Files
    BY MapIs DEF Typed
  <1>2. DOMAIN run.found \subseteq Files
    BY <1>1, MapIs DEF RunType
  <1>3. ASSUME Kept, Fine PROVE Typed'
    BY <1>3 DEF Typed
  <1>4. ASSUME NEW full \in BOOLEAN, IndexCodebase(full) PROVE Typed'
    <2>1. Fine
      BY <1>1, <1>4, StartFullTyped, ConstantsTyped, PhaseTyped DEF IndexCodebase, Phases
    <2> QED
      BY <1>3, <1>4, <2>1 DEF IndexCodebase
  <1>5. CASE Discover
    <2>1. Discovered \in MapsTo(Versions)
      BY ReadsTyped
    <2>2. Fine
      BY <1>1, <1>5, <2>1 DEF Discover, RunType, Phases
    <2> QED
      BY <1>3, <1>5, <2>2 DEF Discover
  <1>6. CASE Classify
    <2>1. NextManifest \in MapsTo(Entries)
      BY NextManifestTyped
    <2>2. /\ Changed \in SUBSET Files /\ Gone \in SUBSET Files /\ Added \in SUBSET Files
          /\ Changed \cup Gone \in SUBSET Files /\ Changed \cup Added \in SUBSET Files
      BY <1>1, <1>2 DEF Changed, Gone, Added
    <2>3. Fine
      <3> HIDE DEF NextManifest, Changed, Gone, Added
      <3> QED BY <1>1, <1>6, <2>1, <2>2 DEF Classify, RunType, Phases
    <2> QED
      BY <1>3, <1>6, <2>3 DEF Classify
  <1>7. CASE PurgeFile
    <2>1. PICK f \in run.purge : graph' = PurgedGraph(f) /\ run' = [run EXCEPT !.purge = @ \ {f}]
      BY <1>7 DEF PurgeFile
    <2>2. Without(graph.symbols, f) \in MapsTo(Versions)
      BY <1>1, WithoutFacts DEF GraphType
    <2>3. graph' \in GraphType
      BY <1>1, <2>1, <2>2 DEF PurgedGraph, GraphType
    <2>4. run' \in RunType
      BY <1>1, <2>1 DEF RunType
    <2> QED
      BY <1>3, <1>7, <2>3, <2>4 DEF PurgeFile
  <1>8. CASE PurgeDone
    <2>1. Fine
      BY <1>1, <1>8, PhaseTyped DEF PurgeDone, Phases
    <2> QED
      BY <1>3, <1>8, <2>1 DEF PurgeDone
  <1>9. CASE Prune
    <2>1. graph' \in GraphType
      BY <1>1, <1>9 DEF Prune, GraphType
    <2>2. Fine
      BY <1>1, <1>9, <2>1, PhaseTyped DEF Prune, Phases
    <2> QED
      BY <1>3, <1>9, <2>2 DEF Prune
  <1>10. CASE SaveManifest
    <2>1. run.next \in MapsTo(Entries)
      BY <1>1 DEF RunType
    <2>2. run' \in RunType
      BY <1>1, <1>10, PhaseTyped DEF SaveManifest, Phases
    <2> QED
      BY <1>10, <2>1, <2>2 DEF SaveManifest, Replaced, Typed
  <1>11. CASE CreateGraph
    <2>1. Discovered \in MapsTo(Versions) /\ DOMAIN tree \in SUBSET Files
      BY <1>1, ReadsTyped
    <2>2. Fine
      <3> HIDE DEF Discovered
      <3> QED BY <1>1, <1>11, <2>1 DEF CreateGraph, RunType, GraphType, Phases
    <2> QED
      BY <1>3, <1>11, <2>2 DEF CreateGraph
  <1>12. CASE WriteMarkers
    <2>1. graph' \in GraphType
      BY <1>1, <1>12 DEF WriteMarkers, GraphType
    <2>2. Fine
      BY <1>1, <1>12, <2>1, PhaseTyped DEF WriteMarkers, Phases
    <2> QED
      BY <1>3, <1>12, <2>2 DEF WriteMarkers
  <1>13. CASE Restat
    <2>1. Discovered \in MapsTo(Versions)
      BY ReadsTyped
    <2>2. Fine
      <3> HIDE DEF Discovered
      <3> QED BY <1>1, <1>13, <2>1 DEF Restat, RunType, Phases
    <2> QED
      BY <1>3, <1>13, <2>2 DEF Restat
  <1>14. CASE WriteFullManifest
    <2>1. run' \in RunType
      BY <1>1, <1>14, PhaseTyped DEF WriteFullManifest, Phases
    <2>2. manifest' \in MapsTo(Entries)
      BY <1>14, FullManifestTyped DEF WriteFullManifest, Replaced
    <2> QED
      BY <1>14, <2>1, <2>2 DEF WriteFullManifest, Replaced, Typed
  <1>15. CASE InsertFile
    <2>1. PICK f \in run.insert \ graph.nodes :
              /\ graph' = [graph EXCEPT !.nodes = @ \cup {f}, !.dirs = @ \cup Above[f]]
              /\ run' = [run EXCEPT !.insert = @ \ {f}]
      BY <1>15 DEF InsertFile
    <2>2. f \in Files /\ Above[f] \subseteq Dirs
      BY <1>1, <2>1, ShapeAssumption DEF RunType
    <2>3. Fine
      BY <1>1, <2>1, <2>2 DEF GraphType, RunType
    <2> QED
      BY <1>3, <1>15, <2>3 DEF InsertFile
  <1>16. CASE InsertRefused
    BY <1>3, <1>16, StartFullTyped DEF InsertRefused
  <1>17. CASE ParseFile
    <2>1. PICK f \in run.parse \ run.insert :
              /\ graph' = IF f \in DOMAIN tree
                          THEN [graph EXCEPT !.symbols = Put(@, f, tree[f].content)]
                          ELSE graph
              /\ run' = [run EXCEPT !.parse = @ \ {f}]
      BY <1>17 DEF ParseFile
    <2>2. f \in DOMAIN tree => Put(graph.symbols, f, tree[f].content) \in MapsTo(Versions)
      BY <1>1, PutFacts DEF GraphType, Stats
    <2>3. graph' \in GraphType
      BY <1>1, <2>1, <2>2 DEF GraphType
    <2>4. run' \in RunType
      BY <1>1, <2>1 DEF RunType
    <2> QED
      BY <1>3, <1>17, <2>3, <2>4 DEF ParseFile
  <1>18. CASE ParseDone
    <2>1. Fine
      BY <1>1, <1>18, PhaseTyped DEF ParseDone, Phases
    <2> QED
      BY <1>3, <1>18, <2>1 DEF ParseDone
  <1>19. CASE Link
    <2>1. DerivedLinks \subseteq Files \X Files
      BY <1>1, <1>2 DEF DerivedLinks
    <2>2. graph' \in GraphType
      <3> HIDE DEF DerivedLinks
      <3> QED BY <1>1, <1>19, <2>1 DEF Link, GraphType
    <2>3. run' \in RunType
      BY <1>1, <1>19, PhaseTyped DEF Link, Phases
    <2>4. faults' \in 0..MaxFaults
      BY <1>1, <1>19, BoundsAssumption DEF Link
    <2> QED
      BY <1>19, <2>2, <2>3, <2>4 DEF Link, Typed
  <1>20. CASE WriteMeta
    BY <1>20, ConstantsTyped, BoundsAssumption DEF WriteMeta, Typed
  <1>21. CASE RefreshFails
    <2>1. Fine
      BY <1>21, StartFullTyped DEF RefreshFails
    <2> QED
      BY <1>21, <2>1, BoundsAssumption DEF RefreshFails, Fault, Typed
  <1>22. CASE FullFails \/ Crash
    BY <1>22, ConstantsTyped, BoundsAssumption DEF FullFails, Crash, Fault, Typed
  <1>23. CASE FullManifestLost
    <2>1. run' \in RunType
      BY <1>1, <1>23, PhaseTyped DEF FullManifestLost, Phases
    <2> QED
      BY <1>23, <2>1, BoundsAssumption DEF FullManifestLost, Typed
  <1> QED
    BY <1>4, <1>5, <1>6, <1>7, <1>8, <1>9, <1>10, <1>11, <1>12, <1>13, <1>14, <1>15,
       <1>16, <1>17, <1>18, <1>19, <1>20, <1>21, <1>22, <1>23
       DEF Next, Step, Refresh, Rebuild, Either

-----------------------------------------------------------------------------
(* A tree that holds still during calls: QuietInv is inductive.              *)

\* Everything but the types.
QuietState == Stamped /\ PhasesOK /\ LinksFollowSymbols /\ ProgressOK

LEMMA QuietInit == Init => QuietInv
  <1> SUFFICES ASSUME Init PROVE QuietInv
    OBVIOUS
  <1>1. PICK S \in SUBSET Files : tree = [f \in S |-> [mtime |-> 0, content |-> 0]]
    BY DEF Init
  <1>2. [mtime |-> 0, content |-> 0] \in Stats
    BY BoundsAssumption DEF Stats, Versions
  <1>3. tree \in MapsTo(Stats)
    BY <1>1, <1>2, MapIs
  <1>4. manifest \in MapsTo(Entries) /\ DOMAIN manifest = {}
    BY EmptyFacts DEF Init
  <1>5. Typed
    <2>1. graph \in GraphType /\ run \in RunType
      BY ConstantsTyped DEF Init
    <2>2. saved \in BOOLEAN
      BY DEF Init
    <2>3. meta \in {"none", "paired", "torn"} /\ edits = 0 /\ faults = 0
      BY DEF Init
    <2>4. edits \in 0..MaxEdits /\ faults \in 0..MaxFaults
      BY <2>3, BoundsAssumption
    <2> QED
      BY <1>3, <1>4, <2>1, <2>2, <2>3, <2>4 DEF Typed
  <1>6. Stamped
    BY <1>1, <1>4 DEF Init, Stamped
  <1>7. run.phase = "idle" /\ graph.marker = FALSE /\ graph.links = {}
    BY DEF Init, Idle, NoGraph
  <1> QED
    BY <1>5, <1>6, <1>7 DEF QuietInv, PhasesOK, LinksFollowSymbols, ProgressOK

\* A write takes an mtime of its own and a rename keeps the file's, so that no edit
\* makes one mtime stand for two texts.
LEMMA EditKeepsStamps ==
    ASSUME Typed, Stamped, Edit
    PROVE  Stamped'
  <1>0. /\ tree \in MapsTo(Stats) /\ edits \in Nat
        /\ \A f \in DOMAIN tree : f \in Files /\ tree[f] \in Stats
        /\ \A f \in DOMAIN manifest : manifest[f] \in Entries
    BY MapIs, BoundsAssumption DEF Typed
  <1>1. /\ tree \in MapsTo(Stats) /\ edits \in Nat
        /\ \A f \in DOMAIN tree : f \in Files /\ tree[f] \in Stats
        /\ \A f \in DOMAIN tree : tree[f].mtime \in Nat /\ tree[f].mtime <= edits
        /\ \A f \in DOMAIN manifest : manifest[f].mtime \in Nat /\ manifest[f].mtime <= edits
    BY <1>0, BoundsAssumption DEF Stamped, Stats, Entries, Versions
  <1>2. edits' = edits + 1 /\ UNCHANGED manifest
    BY DEF Edit, Write, Delete, Move, MayEdit
  <1>3. ASSUME NEW f \in Files, Write(f) PROVE Stamped'
    <2>1. PICK c \in IF Revert THEN 0..(edits + 1) ELSE {edits + 1} :
              tree' = Put(tree, f, [mtime |-> edits + 1, content |-> c])
      BY <1>3 DEF Write
    <2>2. [mtime |-> edits + 1, content |-> c] \in Stats
      BY <1>1, <1>3, BoundsAssumption DEF Stats, Versions, Write, MayEdit
    <2>3. /\ DOMAIN tree' = DOMAIN tree \cup {f}
          /\ tree'[f] = [mtime |-> edits + 1, content |-> c]
          /\ \A g \in DOMAIN tree \ {f} : tree'[g] = tree[g]
      <3> DEFINE stat == [mtime |-> edits + 1, content |-> c]
      <3>1. stat \in Stats /\ tree' = Put(tree, f, stat)
        BY <2>1, <2>2
      <3> HIDE DEF stat
      <3>2. /\ DOMAIN Put(tree, f, stat) = DOMAIN tree \cup {f}
            /\ Put(tree, f, stat)[f] = stat
            /\ \A g \in DOMAIN tree \ {f} : Put(tree, f, stat)[g] = tree[g]
        <4>1. tree \in MapsTo(Stats) /\ stat \in Stats
          BY <1>0, <3>1
        <4> QED
          BY <4>1, PutFacts
      <3> QED
        BY <3>1, <3>2 DEF stat
    <2>4. tree'[f].mtime = edits + 1
      BY <2>3
    <2> QED
      BY <1>1, <1>2, <2>3, <2>4 DEF Stamped
  <1>4. ASSUME NEW f \in Files, Delete(f) PROVE Stamped'
    <2>1. /\ DOMAIN tree' = DOMAIN tree \ {f}
          /\ \A g \in DOMAIN tree \ {f} : tree'[g] = tree[g]
      BY <1>1, <1>4, WithoutFacts DEF Delete
    <2> QED
      BY <1>1, <1>2, <2>1 DEF Stamped
  <1>5. ASSUME NEW f \in Files, NEW g \in Files, Move(f, g) PROVE Stamped'
    <2>1. f \in DOMAIN tree /\ tree' = Put(Without(tree, f), g, tree[f])
      BY <1>5 DEF Move
    <2>2. /\ Without(tree, f) \in MapsTo(Stats)
          /\ DOMAIN Without(tree, f) = DOMAIN tree \ {f}
          /\ \A h \in DOMAIN tree \ {f} : Without(tree, f)[h] = tree[h]
      BY <1>1, WithoutFacts
    <2>3. /\ DOMAIN tree' = (DOMAIN tree \ {f}) \cup {g}
          /\ tree'[g] = tree[f]
          /\ \A h \in (DOMAIN tree \ {f}) \ {g} : tree'[h] = tree[h]
      BY <1>1, <2>1, <2>2, PutFacts
    <2>4. \A h \in DOMAIN tree' : \E k \in DOMAIN tree : tree'[h] = tree[k]
      BY <2>1, <2>3
    <2> QED
      BY <1>1, <1>2, <2>4 DEF Stamped
  <1> QED
    BY <1>3, <1>4, <1>5 DEF Edit

LEMMA QuietEdit ==
    ASSUME EditWhen = "idle", QuietInv, Edit
    PROVE  QuietState'
  <1>1. run.phase = "idle" /\ UNCHANGED <<graph, manifest, run>>
    BY DEF Edit, Write, Delete, Move, MayEdit
  <1>2. Stamped'
    BY EditKeepsStamps DEF QuietInv
  <1>3. PhasesOK' /\ LinksFollowSymbols'
    BY <1>1 DEF QuietInv, PhasesOK, LinksFollowSymbols
  <1>4. ProgressOK'
    BY <1>1 DEF QuietInv, ProgressOK, BuiltFromManifest
  <1> QED
    BY <1>2, <1>3, <1>4 DEF QuietState

\* A pass that starts over starts from nothing.
LEMMA QuietStartOver ==
    ASSUME QuietInv, StartFull, UNCHANGED <<tree, manifest, edits>>
    PROVE  QuietState'
  <1>1. graph' = NoGraph /\ run'.phase = "create" /\ run'.full = TRUE /\ run'.gone = {}
    BY DEF StartFull, Idle
  <1>2. graph'.marker = FALSE /\ graph'.links = {}
    BY <1>1 DEF NoGraph
  <1>3. Stamped'
    BY DEF QuietInv, Stamped
  <1>4. PhasesOK' /\ LinksFollowSymbols'
    BY <1>1, <1>2 DEF PhasesOK, LinksFollowSymbols
  <1>5. ProgressOK'
    BY <1>1, <1>2 DEF ProgressOK
  <1> QED
    BY <1>3, <1>4, <1>5 DEF QuietState

\* A pass may end where the graph is unmarked, or is the manifest's.
LEMMA QuietEnd ==
    ASSUME QuietInv, run' = Idle, UNCHANGED <<tree, graph, manifest, edits>>,
           graph.marker = TRUE => BuiltFromManifest
    PROVE  QuietState'
  <1>1. run'.phase = "idle"
    BY DEF Idle
  <1>2. Stamped' /\ LinksFollowSymbols'
    BY DEF QuietInv, Stamped, LinksFollowSymbols
  <1>3. PhasesOK'
    BY <1>1 DEF PhasesOK
  <1>4. ProgressOK'
    BY <1>1 DEF ProgressOK, BuiltFromManifest
  <1> QED
    BY <1>2, <1>3, <1>4 DEF QuietState

\* What the steps below read off the types.
LEMMA Unpacked ==
    ASSUME Typed
    PROVE  /\ graph \in GraphType /\ run \in RunType
           /\ graph.marker \in BOOLEAN /\ run.full \in BOOLEAN
           /\ DOMAIN tree \subseteq Files /\ DOMAIN manifest \subseteq Files
           /\ \A f \in DOMAIN tree : tree[f] \in Stats
           /\ \A f \in DOMAIN manifest : manifest[f] \in Entries
           /\ graph.symbols \in MapsTo(Versions)
           /\ graph.symbols \in [DOMAIN graph.symbols -> Versions]
           /\ run.purge \subseteq Files /\ run.insert \subseteq Files /\ run.parse \subseteq Files
  <1>1. graph \in GraphType /\ run \in RunType
    BY DEF Typed
  <1>2. graph.marker \in BOOLEAN /\ run.full \in BOOLEAN /\ graph.symbols \in MapsTo(Versions)
    BY <1>1 DEF GraphType, RunType
  <1>3. /\ DOMAIN tree \subseteq Files /\ DOMAIN manifest \subseteq Files
        /\ \A f \in DOMAIN tree : tree[f] \in Stats
        /\ \A f \in DOMAIN manifest : manifest[f] \in Entries
    BY MapIs DEF Typed
  <1>4. graph.symbols \in [DOMAIN graph.symbols -> Versions]
    BY <1>2, MapIs
  <1>5. run.purge \subseteq Files /\ run.insert \subseteq Files /\ run.parse \subseteq Files
    BY <1>1 DEF RunType
  <1> QED
    BY <1>1, <1>2, <1>3, <1>4, <1>5

LEMMA QuietIndexCodebase ==
    ASSUME QuietInv, NEW full \in BOOLEAN, IndexCodebase(full)
    PROVE  QuietState'
  <1>1. CASE ~Refreshable(full)
    <2>1. StartFull /\ UNCHANGED <<tree, manifest, edits>>
      BY <1>1 DEF IndexCodebase
    <2> QED
      BY <2>1, QuietStartOver
  <1>2. CASE Refreshable(full)
    <2>1. run' = [Idle EXCEPT !.phase = "discover"] /\ UNCHANGED <<graph, tree, manifest, edits>>
      BY <1>2 DEF IndexCodebase
    <2>2. run'.phase = "discover" /\ run'.full = FALSE
      BY <2>1 DEF Idle
    <2>3. graph.marker = TRUE
      BY <1>2, Unpacked DEF Refreshable, QuietInv
    <2>4. BuiltFromManifest
      BY <2>3 DEF IndexCodebase, QuietInv, ProgressOK
    <2>5. PhasesOK' /\ LinksFollowSymbols' /\ Stamped'
      BY <2>1, <2>2, <2>3 DEF QuietInv, PhasesOK, LinksFollowSymbols, Stamped
    <2>6. ProgressOK'
      BY <2>1, <2>2, <2>4 DEF ProgressOK, BuiltFromManifest
    <2> QED
      BY <2>5, <2>6 DEF QuietState
  <1> QED
    BY <1>1, <1>2

LEMMA QuietDiscover ==
    ASSUME QuietInv, Discover
    PROVE  QuietState'
  <1>1. run.phase = "discover" /\ UNCHANGED <<graph, tree, manifest, edits>>
    BY DEF Discover
  <1>2. run'.phase = "classify" /\ run'.found = Discovered /\ run'.full = run.full
    BY Unpacked DEF Discover, QuietInv, RunType
  <1>3. run.full = FALSE /\ graph.marker = TRUE /\ BuiltFromManifest
    BY <1>1 DEF QuietInv, PhasesOK, ProgressOK
  <1>4. PhasesOK' /\ LinksFollowSymbols' /\ Stamped'
    BY <1>1, <1>2, <1>3 DEF QuietInv, PhasesOK, LinksFollowSymbols, Stamped
  <1>5. ProgressOK'
    BY <1>1, <1>2, <1>3 DEF ProgressOK, BuiltFromManifest, Discovered
  <1> QED
    BY <1>4, <1>5 DEF QuietState

\* classify, over a tree that holds still: a file it does not count as changed has
\* the text the manifest names, and its own manifest is that of the tree.
LEMMA ClassifyIsExact ==
    ASSUME Typed, Stamped, run.found = Discovered
    PROVE  /\ Changed \subseteq DOMAIN tree \cap DOMAIN manifest
           /\ \A f \in (DOMAIN tree \cap DOMAIN manifest) \ Changed :
                  manifest[f].hash = {tree[f].content}
           /\ Added = DOMAIN tree \ DOMAIN manifest
           /\ Gone = DOMAIN manifest \ DOMAIN tree
           /\ NextManifest = TreeManifest
  <1>1. /\ DOMAIN run.found = DOMAIN tree
        /\ \A f \in DOMAIN tree : run.found[f] = tree[f].mtime
    BY ReadsTyped
  <1>2. \A f \in DOMAIN tree : Hash(f) = {tree[f].content}
    BY DEF Hash
  <1>3. \A f \in DOMAIN tree \cap DOMAIN manifest :
            SameStat(f) => /\ manifest[f].mtime = tree[f].mtime
                           /\ manifest[f].hash = {tree[f].content}
    BY <1>1 DEF SameStat, Stamped
  <1>4. Changed \subseteq DOMAIN tree \cap DOMAIN manifest
    BY <1>1 DEF Changed
  <1>5. \A f \in (DOMAIN tree \cap DOMAIN manifest) \ Changed :
            manifest[f].hash = {tree[f].content}
    BY <1>1, <1>2, <1>3 DEF Changed, SameContent
  <1>6. Added = DOMAIN tree \ DOMAIN manifest /\ Gone = DOMAIN manifest \ DOMAIN tree
    BY <1>1 DEF Added, Gone
  <1>7. \A f \in DOMAIN tree \cap DOMAIN manifest :
            SameStat(f) => manifest[f] = [mtime |-> tree[f].mtime, hash |-> {tree[f].content}]
    BY <1>3, Unpacked DEF Entries
  <1>8. NextManifest = TreeManifest
    BY <1>1, <1>2, <1>7 DEF NextManifest, TreeManifest
  <1> QED
    BY <1>4, <1>5, <1>6, <1>8

LEMMA QuietClassify ==
    ASSUME QuietInv, Classify
    PROVE  QuietState'
  <1>1. run.phase = "classify" /\ UNCHANGED <<graph, tree, manifest, edits>>
    BY DEF Classify
  <1>2. run.full = FALSE /\ graph.marker = TRUE /\ BuiltFromManifest /\ run.found = Discovered
    BY <1>1 DEF QuietInv, PhasesOK, ProgressOK
  <1>3. /\ Changed \subseteq DOMAIN tree \cap DOMAIN manifest
        /\ \A f \in (DOMAIN tree \cap DOMAIN manifest) \ Changed :
               manifest[f].hash = {tree[f].content}
        /\ Added = DOMAIN tree \ DOMAIN manifest
        /\ Gone = DOMAIN manifest \ DOMAIN tree
        /\ NextManifest = TreeManifest
    BY <1>2, ClassifyIsExact DEF QuietInv
  <1>4. /\ run'.phase = "purge" /\ run'.full = FALSE
        /\ run'.next = NextManifest
        /\ run'.changed = Changed /\ run'.gone = Gone /\ run'.purge = Changed \cup Gone
        /\ run'.insert = Added /\ run'.parse = Changed \cup Added
    BY <1>2, Unpacked DEF Classify, QuietInv, RunType
  <1>5. PhasesOK' /\ LinksFollowSymbols' /\ Stamped'
    BY <1>1, <1>2, <1>4 DEF QuietInv, PhasesOK, LinksFollowSymbols, Stamped
  <1>6. \A f \in (DOMAIN tree \cap DOMAIN manifest) \ Changed :
            graph.symbols[f] = tree[f].content
    BY <1>2, <1>3 DEF BuiltFromManifest
  <1>7. PurgeOK'
    <2> HIDE DEF Changed, Gone, Added
    <2>1. /\ graph.nodes = DOMAIN manifest
          /\ DOMAIN graph.symbols = DOMAIN manifest
          /\ graph.dirs = DirsOf(DOMAIN manifest)
      BY <1>2 DEF BuiltFromManifest
    <2>2. /\ run'.gone = DOMAIN manifest \ DOMAIN tree
          /\ run'.changed \subseteq DOMAIN tree \cap DOMAIN manifest
          /\ run'.purge = run'.changed \cup run'.gone
          /\ run'.insert = DOMAIN tree \ DOMAIN manifest
          /\ run'.parse = run'.changed \cup run'.insert
          /\ \A f \in (DOMAIN tree \cap DOMAIN manifest) \ run'.changed :
                 graph.symbols[f] = tree[f].content
      BY <1>3, <1>4, <1>6
    <2>3. /\ graph.nodes = (DOMAIN manifest \cap DOMAIN tree) \cup (run'.gone \cap run'.purge)
          /\ DOMAIN graph.symbols = (DOMAIN tree \ run'.parse) \cup run'.purge
          /\ DOMAIN tree \ run'.parse = (DOMAIN tree \cap DOMAIN manifest) \ run'.changed
      BY <2>1, <2>2
    <2> QED
      BY <1>1, <2>1, <2>2, <2>3 DEF PurgeOK, DirsOf
  <1>8. ProgressOK'
    BY <1>1, <1>3, <1>4, <1>7 DEF ProgressOK, TreeManifest
  <1> QED
    BY <1>5, <1>8 DEF QuietState

\* What one purge leaves of the graph.
LEMMA PurgedFacts ==
    ASSUME graph \in GraphType, NEW f
    PROVE  /\ PurgedGraph(f).marker = graph.marker
           /\ PurgedGraph(f).dirs = graph.dirs
           /\ PurgedGraph(f).symbols = Without(graph.symbols, f)
           /\ PurgedGraph(f).nodes = IF f \in run.changed THEN graph.nodes ELSE graph.nodes \ {f}
           /\ PurgedGraph(f).links =
                  {l \in graph.links : l[1] # f /\ (f \in run.changed \/ l[2] # f)}
  BY DEF PurgedGraph, GraphType

LEMMA QuietPurgeFile ==
    ASSUME QuietInv, PurgeFile
    PROVE  QuietState'
  <1>1. run.phase = "purge" /\ UNCHANGED <<tree, manifest, edits>>
    BY DEF PurgeFile
  <1>2. PICK f \in run.purge : graph' = PurgedGraph(f) /\ run' = [run EXCEPT !.purge = @ \ {f}]
    BY DEF PurgeFile
  <1>3. run.full = FALSE /\ graph.marker = TRUE /\ PurgeOK /\ run.next = TreeManifest
    BY <1>1 DEF QuietInv, PhasesOK, ProgressOK
  <1>4. /\ run'.purge = run.purge \ {f} /\ run'.phase = "purge" /\ run'.full = FALSE
        /\ run'.next = run.next /\ run'.changed = run.changed /\ run'.gone = run.gone
        /\ run'.insert = run.insert /\ run'.parse = run.parse
    BY <1>1, <1>2, <1>3, Unpacked DEF QuietInv, RunType
  <1>5. /\ graph'.marker = graph.marker /\ graph'.dirs = graph.dirs
        /\ graph'.symbols = Without(graph.symbols, f)
        /\ graph'.nodes = IF f \in run.changed THEN graph.nodes ELSE graph.nodes \ {f}
        /\ graph'.links = {l \in graph.links : l[1] # f /\ (f \in run.changed \/ l[2] # f)}
    BY <1>2, Unpacked, PurgedFacts DEF QuietInv
  <1>6. /\ DOMAIN graph'.symbols = DOMAIN graph.symbols \ {f}
        /\ \A g \in DOMAIN graph.symbols \ {f} : graph'.symbols[g] = graph.symbols[g]
    <2>1. graph.symbols \in MapsTo(Versions)
      BY Unpacked DEF QuietInv
    <2>2. /\ DOMAIN Without(graph.symbols, f) = DOMAIN graph.symbols \ {f}
          /\ \A g \in DOMAIN graph.symbols \ {f} :
                 Without(graph.symbols, f)[g] = graph.symbols[g]
      BY <2>1, WithoutFacts
    <2>3. graph'.symbols = Without(graph.symbols, f)
      BY <1>5
    <2> QED
      BY <2>2, <2>3
  <1>7. PhasesOK' /\ Stamped'
    BY <1>1, <1>3, <1>4, <1>5 DEF QuietInv, PhasesOK, Stamped
  <1>8. LinksFollowSymbols'
    BY <1>5, <1>6 DEF QuietInv, LinksFollowSymbols
  <1>9. PurgeOK'
    <2>1. f \in DOMAIN tree \/ f \notin run.changed
      BY <1>3 DEF PurgeOK
    <2>2. f \notin DOMAIN tree \ run.parse
      BY <1>2, <1>3 DEF PurgeOK
    <2>3. graph'.nodes = (DOMAIN manifest \cap DOMAIN tree) \cup (run.gone \cap run'.purge)
      BY <1>2, <1>3, <1>4, <1>5 DEF PurgeOK
    <2>4. DOMAIN graph'.symbols = (DOMAIN tree \ run.parse) \cup run'.purge
      BY <1>2, <1>3, <1>4, <1>6, <2>2 DEF PurgeOK
    <2>5. \A g \in DOMAIN tree \ run.parse : graph'.symbols[g] = tree[g].content
      BY <1>3, <1>6, <2>2 DEF PurgeOK
    <2> QED
      BY <1>1, <1>3, <1>4, <1>5, <2>3, <2>4, <2>5 DEF PurgeOK, DirsOf
  <1>10. ProgressOK'
    BY <1>1, <1>3, <1>4, <1>9 DEF ProgressOK, TreeManifest
  <1> QED
    BY <1>7, <1>8, <1>10 DEF QuietState

LEMMA QuietPurgeDone ==
    ASSUME QuietInv, PurgeDone
    PROVE  QuietState'
  <1>1. /\ run.phase = "purge" /\ run.purge = {} /\ UNCHANGED <<tree, graph, manifest, edits>>
        /\ run' = [run EXCEPT !.phase = "parse"]
    BY DEF PurgeDone
  <1>2. run.full = FALSE /\ graph.marker = TRUE /\ PurgeOK /\ run.next = TreeManifest
    BY <1>1 DEF QuietInv, PhasesOK, ProgressOK
  <1>3. /\ run'.phase = "parse" /\ run'.full = FALSE /\ run'.next = run.next
        /\ run'.gone = run.gone /\ run'.insert = run.insert /\ run'.parse = run.parse
    BY <1>1, <1>2, Unpacked DEF QuietInv, RunType
  <1>4. PhasesOK' /\ Stamped' /\ LinksFollowSymbols'
    BY <1>1, <1>2, <1>3 DEF QuietInv, PhasesOK, Stamped, LinksFollowSymbols
  <1>5. ParseOK'
    <2>1. /\ run.insert \subseteq run.parse /\ run.parse \subseteq DOMAIN tree
          /\ graph.nodes = DOMAIN tree \ run.insert
          /\ DOMAIN graph.symbols = DOMAIN tree \ run.parse
          /\ \A f \in DOMAIN graph.symbols : graph.symbols[f] = tree[f].content
      BY <1>1, <1>2 DEF PurgeOK
    <2>2. graph.nodes \subseteq DOMAIN manifest /\ DOMAIN manifest \subseteq DOMAIN tree \cup run.gone
      BY <1>1, <1>2 DEF PurgeOK
    <2>3. /\ DirsOf(graph.nodes) \subseteq graph.dirs
          /\ graph.dirs \subseteq DirsOf(DOMAIN tree \cup run.gone)
      BY <1>2, <2>2 DEF PurgeOK, DirsOf
    <2> QED
      BY <1>1, <1>3, <2>1, <2>3 DEF ParseOK, DirsOf
  <1>6. ProgressOK'
    BY <1>1, <1>2, <1>3, <1>5 DEF ProgressOK, TreeManifest
  <1> QED
    BY <1>4, <1>6 DEF QuietState

LEMMA QuietCreateGraph ==
    ASSUME QuietInv, CreateGraph
    PROVE  QuietState'
  <1>1. /\ run.phase = "create" /\ UNCHANGED <<tree, manifest, edits>>
        /\ graph' = [graph EXCEPT !.exists = TRUE]
    BY DEF CreateGraph
  <1>2. run.full = TRUE /\ graph = NoGraph
    BY <1>1 DEF QuietInv, PhasesOK, ProgressOK
  <1>3. /\ run'.phase = "parse" /\ run'.full = TRUE /\ run'.gone = run.gone
        /\ run'.insert = DOMAIN tree /\ run'.parse = DOMAIN tree
    BY <1>2, Unpacked DEF QuietInv, CreateGraph, RunType
  <1>4. /\ graph'.marker = FALSE /\ graph'.nodes = {} /\ graph'.dirs = {}
        /\ graph'.symbols = Empty /\ graph'.links = {}
    BY <1>1, <1>2 DEF NoGraph
  <1>5. DOMAIN graph'.symbols = {}
    BY <1>4, EmptyFacts
  <1>6. run.gone = {}
    BY <1>1 DEF QuietInv, ProgressOK
  <1>7. PhasesOK' /\ Stamped' /\ LinksFollowSymbols'
    BY <1>1, <1>3, <1>4 DEF QuietInv, PhasesOK, Stamped, LinksFollowSymbols
  <1>8. ParseOK'
    BY <1>1, <1>3, <1>4, <1>5, <1>6 DEF ParseOK, DirsOf
  <1>9. ProgressOK'
    BY <1>1, <1>3, <1>4, <1>8 DEF ProgressOK
  <1> QED
    BY <1>7, <1>9 DEF QuietState

\* What one insertion leaves of the graph.
LEMMA QuietInsertFile ==
    ASSUME QuietInv, InsertFile
    PROVE  QuietState'
  <1>1. run.phase = "parse" /\ UNCHANGED <<tree, manifest, edits>>
    BY DEF InsertFile
  <1>2. PICK f \in run.insert \ graph.nodes :
            /\ graph' = [graph EXCEPT !.nodes = @ \cup {f}, !.dirs = @ \cup Above[f]]
            /\ run' = [run EXCEPT !.insert = @ \ {f}]
    BY DEF InsertFile
  <1>3. /\ ParseOK /\ (run.full = FALSE => run.next = TreeManifest)
        /\ graph.marker = TRUE <=> run.full = FALSE
    BY <1>1 DEF QuietInv, PhasesOK, ProgressOK
  <1>4. /\ run'.insert = run.insert \ {f} /\ run'.phase = "parse" /\ run'.full = run.full
        /\ run'.next = run.next /\ run'.gone = run.gone /\ run'.parse = run.parse
    BY <1>1, <1>2, Unpacked DEF QuietInv, RunType
  <1>5. /\ graph'.marker = graph.marker /\ graph'.symbols = graph.symbols
        /\ graph'.links = graph.links
        /\ graph'.nodes = graph.nodes \cup {f} /\ graph'.dirs = graph.dirs \cup Above[f]
    BY <1>2, Unpacked DEF QuietInv, GraphType
  <1>6. PhasesOK' /\ Stamped' /\ LinksFollowSymbols'
    BY <1>1, <1>3, <1>4, <1>5 DEF QuietInv, PhasesOK, Stamped, LinksFollowSymbols
  <1>7. f \in DOMAIN tree
    BY <1>2, <1>3 DEF ParseOK
  <1>8. /\ DirsOf(graph'.nodes) \subseteq graph'.dirs
        /\ graph'.dirs \subseteq DirsOf(DOMAIN tree \cup run.gone)
    BY <1>3, <1>5, <1>7 DEF ParseOK, DirsOf
  <1>9. graph'.nodes = DOMAIN tree \ run'.insert
    BY <1>2, <1>3, <1>4, <1>5, <1>7 DEF ParseOK
  <1>10. ParseOK'
    BY <1>1, <1>3, <1>4, <1>5, <1>8, <1>9 DEF ParseOK, DirsOf
  <1>11. ProgressOK'
    BY <1>1, <1>3, <1>4, <1>10 DEF ProgressOK, TreeManifest
  <1> QED
    BY <1>6, <1>11 DEF QuietState

LEMMA QuietParseFile ==
    ASSUME QuietInv, ParseFile
    PROVE  QuietState'
  <1>1. run.phase = "parse" /\ UNCHANGED <<tree, manifest, edits>>
    BY DEF ParseFile
  <1>2. PICK f \in run.parse \ run.insert :
            /\ graph' = IF f \in DOMAIN tree
                        THEN [graph EXCEPT !.symbols = Put(@, f, tree[f].content)]
                        ELSE graph
            /\ run' = [run EXCEPT !.parse = @ \ {f}]
    BY DEF ParseFile
  <1>3. /\ ParseOK /\ (run.full = FALSE => run.next = TreeManifest)
        /\ graph.marker = TRUE <=> run.full = FALSE
    BY <1>1 DEF QuietInv, PhasesOK, ProgressOK
  <1>4. /\ run'.parse = run.parse \ {f} /\ run'.phase = "parse" /\ run'.full = run.full
        /\ run'.next = run.next /\ run'.gone = run.gone /\ run'.insert = run.insert
    BY <1>1, <1>2, Unpacked DEF QuietInv, RunType
  <1>5. f \in DOMAIN tree /\ f \in Files /\ f \notin DOMAIN graph.symbols
    BY <1>2, <1>3, Unpacked DEF ParseOK, QuietInv
  <1>6. /\ graph'.marker = graph.marker /\ graph'.nodes = graph.nodes
        /\ graph'.links = graph.links /\ graph'.dirs = graph.dirs
        /\ graph'.symbols = Put(graph.symbols, f, tree[f].content)
    BY <1>2, <1>5, Unpacked DEF QuietInv, GraphType
  <1>7. /\ DOMAIN graph'.symbols = DOMAIN graph.symbols \cup {f}
        /\ graph'.symbols[f] = tree[f].content
        /\ \A g \in DOMAIN graph.symbols : graph'.symbols[g] = graph.symbols[g]
    <2>1. graph.symbols \in MapsTo(Versions) /\ tree[f].content \in Versions
      BY <1>5, Unpacked DEF QuietInv, Stats
    <2> DEFINE text == tree[f].content
               old == graph.symbols
    <2>2. old \in MapsTo(Versions) /\ text \in Versions /\ f \in Files
      BY <1>5, <2>1
    <2> HIDE DEF text, old
    <2>3. /\ DOMAIN Put(old, f, text) = DOMAIN old \cup {f}
          /\ Put(old, f, text)[f] = text
          /\ \A g \in DOMAIN old \ {f} : Put(old, f, text)[g] = old[g]
      BY <2>2, PutFacts, SMTT(60)
    <2>4. graph'.symbols = Put(old, f, text)
      BY <1>6 DEF text, old
    <2>5. /\ DOMAIN graph'.symbols = DOMAIN old \cup {f}
          /\ graph'.symbols[f] = text
          /\ \A g \in DOMAIN old \ {f} : graph'.symbols[g] = old[g]
      BY <2>3, <2>4
    <2> QED
      BY <1>5, <2>5 DEF text, old
  <1>8. PhasesOK' /\ Stamped'
    BY <1>1, <1>3, <1>4, <1>6 DEF QuietInv, PhasesOK, Stamped
  <1>9. LinksFollowSymbols'
    BY <1>6, <1>7 DEF QuietInv, LinksFollowSymbols
  <1>10. ParseOK'
    <2>1. DOMAIN graph'.symbols = DOMAIN tree \ run'.parse
      BY <1>2, <1>3, <1>4, <1>5, <1>7 DEF ParseOK
    <2>2. \A g \in DOMAIN graph'.symbols : graph'.symbols[g] = tree[g].content
      BY <1>3, <1>7 DEF ParseOK
    <2>3. run.insert \subseteq run'.parse /\ run'.parse \subseteq DOMAIN tree
      BY <1>2, <1>3, <1>4 DEF ParseOK
    <2> QED
      BY <1>1, <1>3, <1>4, <1>6, <2>1, <2>2, <2>3 DEF ParseOK, DirsOf
  <1>11. ProgressOK'
    BY <1>1, <1>3, <1>4, <1>10 DEF ProgressOK, TreeManifest
  <1> QED
    BY <1>8, <1>9, <1>11 DEF QuietState

\* With nothing left to parse the graph has the tree's nodes and texts.
LEMMA ParsedMatches ==
    ASSUME Typed, ParseOK, run.parse = {}
    PROVE  /\ graph.nodes = DOMAIN tree
           /\ graph.symbols = [f \in DOMAIN tree |-> tree[f].content]
  <1>1. graph.nodes = DOMAIN tree /\ DOMAIN graph.symbols = DOMAIN tree
    BY DEF ParseOK
  <1>2. graph.symbols \in [DOMAIN tree -> Versions]
    BY <1>1, Unpacked
  <1> QED
    BY <1>1, <1>2 DEF ParseOK

LEMMA QuietParseDone ==
    ASSUME QuietInv, ParseDone
    PROVE  QuietState'
  <1>1. /\ run.phase = "parse" /\ run.parse = {} /\ UNCHANGED <<tree, graph, manifest, edits>>
        /\ run' = [run EXCEPT !.phase = IF run.full THEN "link" ELSE "prune"]
    BY DEF ParseDone
  <1>2. /\ ParseOK /\ (run.full = FALSE => run.next = TreeManifest)
        /\ graph.marker = TRUE <=> run.full = FALSE
    BY <1>1 DEF QuietInv, PhasesOK, ProgressOK
  <1>3. /\ run'.full = run.full /\ run'.next = run.next /\ run'.gone = run.gone
        /\ run'.insert = run.insert /\ run'.parse = run.parse
        /\ run.full = TRUE => run'.phase = "link"
        /\ run.full = FALSE => run'.phase = "prune"
    BY <1>1, Unpacked DEF QuietInv, RunType
  <1>4. run.full = TRUE \/ run.full = FALSE
    BY Unpacked DEF QuietInv
  <1>5. PhasesOK' /\ Stamped' /\ LinksFollowSymbols'
    BY <1>1, <1>2, <1>3, <1>4 DEF QuietInv, PhasesOK, Stamped, LinksFollowSymbols
  <1>6. ParseOK'
    BY <1>1, <1>2, <1>3 DEF ParseOK, DirsOf
  <1>7. run.full = TRUE => GraphMatches
    <2>1. run.full = TRUE => graph.dirs = DirsOf(DOMAIN tree)
      BY <1>1, <1>2 DEF ParseOK, DirsOf
    <2> QED
      BY <1>1, <1>2, <2>1, ParsedMatches DEF QuietInv, GraphMatches, DirsOf
  <1>8. ProgressOK'
    BY <1>1, <1>2, <1>3, <1>4, <1>6, <1>7 DEF ProgressOK, TreeManifest, GraphMatches
  <1> QED
    BY <1>5, <1>8 DEF QuietState

LEMMA QuietPrune ==
    ASSUME QuietInv, Prune
    PROVE  QuietState'
  <1>1. /\ run.phase = "prune" /\ UNCHANGED <<tree, manifest, edits>>
        /\ run' = [run EXCEPT !.phase = "link"]
    BY DEF Prune
  <1>2. /\ ParseOK /\ run.parse = {} /\ run.full = FALSE /\ run.next = TreeManifest
        /\ graph.marker = TRUE
    BY <1>1 DEF QuietInv, PhasesOK, ProgressOK
  <1>3. run'.full = FALSE /\ run'.next = run.next /\ run'.phase = "link"
    BY <1>1, <1>2, Unpacked DEF QuietInv, RunType
  <1>4. /\ graph'.marker = TRUE /\ graph'.nodes = graph.nodes
        /\ graph'.symbols = graph.symbols /\ graph'.links = graph.links
        /\ graph'.dirs = IF run.gone = {} THEN graph.dirs
                         ELSE {d \in graph.dirs : \E f \in graph.nodes : d \in Above[f]}
    BY <1>2, Unpacked DEF QuietInv, Prune, GraphType
  <1>5. PhasesOK' /\ Stamped' /\ LinksFollowSymbols'
    BY <1>1, <1>3, <1>4 DEF QuietInv, PhasesOK, Stamped, LinksFollowSymbols
  <1>6. graph.nodes = DOMAIN tree /\ graph.symbols = [f \in DOMAIN tree |-> tree[f].content]
    BY <1>2, ParsedMatches DEF QuietInv
  <1>7. graph'.dirs = DirsOf(DOMAIN tree)
    BY <1>2, <1>4, <1>6 DEF ParseOK, DirsOf
  <1>8. GraphMatches'
    BY <1>1, <1>4, <1>6, <1>7 DEF GraphMatches, DirsOf
  <1>9. ProgressOK'
    BY <1>1, <1>2, <1>3, <1>8 DEF ProgressOK, TreeManifest
  <1> QED
    BY <1>5, <1>9 DEF QuietState

LEMMA QuietLink ==
    ASSUME QuietInv, Link
    PROVE  QuietState'
  <1>1. /\ run.phase = "link" /\ UNCHANGED <<tree, manifest, edits>>
        /\ run' = [run EXCEPT !.phase = IF run.full THEN "mark" ELSE "save"]
        /\ graph' = [graph EXCEPT !.links = @ \cup DerivedLinks] \/ graph' = graph
    BY DEF Link
  <1>2. /\ GraphMatches /\ (run.full = FALSE => run.next = TreeManifest)
        /\ graph.marker = TRUE <=> run.full = FALSE
    BY <1>1 DEF QuietInv, PhasesOK, ProgressOK
  <1>3. /\ run'.full = run.full /\ run'.next = run.next
        /\ run.full = TRUE => run'.phase = "mark"
        /\ run.full = FALSE => run'.phase = "save"
    BY <1>1, Unpacked DEF QuietInv, RunType
  <1>4. run.full = TRUE \/ run.full = FALSE
    BY Unpacked DEF QuietInv
  <1>5. /\ graph'.marker = graph.marker /\ graph'.nodes = graph.nodes
        /\ graph'.symbols = graph.symbols /\ graph'.dirs = graph.dirs
        /\ graph'.links = graph.links \cup DerivedLinks \/ graph'.links = graph.links
    BY <1>1, Unpacked DEF QuietInv, GraphType
  <1>6. PhasesOK' /\ Stamped'
    BY <1>1, <1>2, <1>3, <1>4, <1>5 DEF QuietInv, PhasesOK, Stamped
  <1>7. \A l \in DerivedLinks :
            /\ l[1] \in DOMAIN graph.symbols /\ l[1] \in graph.nodes /\ l[2] \in graph.nodes
            /\ l[2] \in Cites[graph.symbols[l[1]]]
    BY <1>2 DEF DerivedLinks, GraphMatches
  <1>8. LinksFollowSymbols'
    <2> HIDE DEF DerivedLinks
    <2> QED BY <1>5, <1>7 DEF QuietInv, LinksFollowSymbols
  <1>9. GraphMatches'
    BY <1>1, <1>2, <1>5 DEF GraphMatches
  <1>10. ProgressOK'
    BY <1>1, <1>2, <1>3, <1>4, <1>9 DEF ProgressOK, TreeManifest
  <1> QED
    BY <1>6, <1>8, <1>10 DEF QuietState

\* Saving the manifest of the tree, over a graph of the tree.
LEMMA SavedIsTree ==
    ASSUME Typed, Stamped, GraphMatches, manifest' = TreeManifest,
           UNCHANGED <<tree, graph, edits>>
    PROVE  BuiltFromManifest' /\ Stamped'
  <1>1. /\ DOMAIN manifest' = DOMAIN tree
        /\ \A f \in DOMAIN tree : /\ manifest'[f].mtime = tree[f].mtime
                                  /\ manifest'[f].hash = {tree[f].content}
    BY DEF TreeManifest
  <1>2. BuiltFromManifest'
    BY <1>1 DEF BuiltFromManifest, GraphMatches, DirsOf
  <1>3. Stamped'
    BY <1>1 DEF Stamped
  <1> QED
    BY <1>2, <1>3

LEMMA QuietSave ==
    ASSUME QuietInv, SaveManifest \/ WriteFullManifest
    PROVE  QuietState'
  <1>1. /\ run.phase \in {"save", "rehash"} /\ UNCHANGED <<tree, graph, edits>>
        /\ run' = [run EXCEPT !.phase = "meta"]
    BY DEF SaveManifest, WriteFullManifest
  <1>2. run'.phase = "meta" /\ run'.full = run.full
    BY <1>1, Unpacked DEF QuietInv, RunType
  <1>3. GraphMatches /\ graph.marker = TRUE
    BY <1>1 DEF QuietInv, PhasesOK, ProgressOK
  <1>4. manifest' = TreeManifest
    <2>1. CASE SaveManifest
      <3>1. run.phase = "save" /\ manifest' = run.next
        BY <2>1 DEF SaveManifest, Replaced
      <3> QED
        BY <3>1 DEF QuietInv, PhasesOK, ProgressOK
    <2>2. CASE WriteFullManifest
      <3>1. /\ run.phase = "rehash"
            /\ manifest' = [f \in DOMAIN run.found |-> [mtime |-> run.found[f], hash |-> Hash(f)]]
        BY <2>2 DEF WriteFullManifest, Replaced
      <3>2. run.found = Discovered
        BY <3>1 DEF QuietInv, ProgressOK
      <3>3. /\ DOMAIN run.found = DOMAIN tree
            /\ \A f \in DOMAIN tree : run.found[f] = tree[f].mtime /\ Hash(f) = {tree[f].content}
        BY <3>2, ReadsTyped DEF QuietInv, Hash
      <3> QED
        BY <3>1, <3>3 DEF TreeManifest
    <2> QED
      BY <2>1, <2>2
  <1>5. BuiltFromManifest' /\ Stamped'
    BY <1>1, <1>3, <1>4, SavedIsTree DEF QuietInv
  <1>6. PhasesOK' /\ LinksFollowSymbols'
    BY <1>1, <1>2, <1>3 DEF QuietInv, PhasesOK, LinksFollowSymbols
  <1>7. ProgressOK'
    BY <1>1, <1>2, <1>3, <1>5 DEF ProgressOK, GraphMatches
  <1> QED
    BY <1>5, <1>6, <1>7 DEF QuietState

LEMMA QuietMarkers ==
    ASSUME QuietInv, WriteMarkers \/ Restat
    PROVE  QuietState'
  <1>1. run.phase \in {"mark", "restat"} /\ UNCHANGED <<tree, manifest, edits>>
    BY DEF WriteMarkers, Restat
  <1>2. run.full = TRUE /\ GraphMatches /\ (run.phase = "restat" => graph.marker = TRUE)
    BY <1>1 DEF QuietInv, PhasesOK, ProgressOK
  <1>3. /\ graph'.marker = TRUE /\ graph'.nodes = graph.nodes
        /\ graph'.symbols = graph.symbols /\ graph'.dirs = graph.dirs
        /\ graph'.links = graph.links
    BY <1>2, Unpacked DEF QuietInv, WriteMarkers, Restat, GraphType
  <1>4. /\ run'.full = TRUE /\ run'.phase \in {"restat", "rehash"}
        /\ run'.phase = "rehash" => run'.found = Discovered
    BY <1>2, Unpacked DEF QuietInv, WriteMarkers, Restat, RunType
  <1>5. PhasesOK' /\ Stamped' /\ LinksFollowSymbols'
    BY <1>1, <1>3, <1>4 DEF QuietInv, PhasesOK, Stamped, LinksFollowSymbols
  <1>6. GraphMatches'
    BY <1>1, <1>2, <1>3 DEF GraphMatches
  <1>7. ProgressOK'
    BY <1>1, <1>4, <1>6 DEF ProgressOK, Discovered
  <1> QED
    BY <1>5, <1>7 DEF QuietState

LEMMA QuietEnds ==
    ASSUME QuietInv, CrashWhen # "always", WriteMeta \/ FullFails \/ Crash
    PROVE  QuietState'
  <1>1. run' = Idle /\ UNCHANGED <<tree, graph, manifest, edits>>
    BY DEF WriteMeta, FullFails, Crash
  <1>2. run.phase = "meta" \/ graph.marker = FALSE
    BY Unpacked DEF QuietInv, PhasesOK, WriteMeta, FullFails, Crash
  <1>3. graph.marker = TRUE => BuiltFromManifest
    BY <1>2 DEF QuietInv, ProgressOK
  <1> QED
    BY <1>1, <1>3, QuietEnd

\* While the tree holds still during calls, and a call ends only before its marker or
\* after its manifest, every step keeps the invariant.
LEMMA QuietStep ==
    ASSUME EditWhen = "idle", CrashWhen # "always", QuietInv, [Next]_vars
    PROVE  QuietInv'
  <1>1. CASE UNCHANGED vars
    BY <1>1 DEF vars, QuietInv, Typed, Stamped, PhasesOK, LinksFollowSymbols, ProgressOK,
                BuiltFromManifest, Discovered, TreeManifest, PurgeOK, ParseOK, GraphMatches,
                DirsOf
  <1>2. CASE Edit
    BY <1>2, QuietEdit, EditTyped DEF QuietInv, QuietState
  <1>3. CASE Next /\ ~Edit
    <2>1. Typed'
      BY <1>3, StepTyped DEF QuietInv
    <2>2. QuietState'
      <3>1. CASE InsertRefused \/ RefreshFails
        BY <3>1, QuietStartOver DEF InsertRefused, RefreshFails
      <3>2. CASE FullManifestLost
        BY <3>2 DEF FullManifestLost
      <3> QED
        BY <1>3, <3>1, <3>2, QuietIndexCodebase, QuietDiscover, QuietClassify, QuietPurgeFile,
           QuietPurgeDone, QuietCreateGraph, QuietInsertFile, QuietParseFile, QuietParseDone,
           QuietPrune, QuietLink, QuietSave, QuietMarkers, QuietEnds
           DEF Next, Step, Refresh, Rebuild, Either
    <2> QED
      BY <2>1, <2>2 DEF QuietInv, QuietState
  <1> QED
    BY <1>1, <1>2, <1>3

\* The invariant holds of every call history of a tree that holds still during calls.
THEOREM QuietIsInvariant ==
    ASSUME EditWhen = "idle", CrashWhen # "always"
    PROVE  Spec => []QuietInv
  <1>1. Init => QuietInv
    BY QuietInit
  <1>2. QuietInv /\ [Next]_vars => QuietInv'
    BY QuietStep
  <1> QED
    BY <1>1, <1>2, PTL DEF Spec

\* Whatever files and directories there are, however often and in whatever way the tree
\* is edited between calls, and whichever refreshes and rebuilds fail or stop before
\* their marker: a call that has written its manifest leaves the graph of the tree.
THEOREM RefreshedGraphIsTree ==
    ASSUME EditWhen = "idle", CrashWhen # "always"
    PROVE  Spec => []GraphIsTree
  <1>1. QuietInv => GraphIsTree
    BY DEF QuietInv, ProgressOK, GraphIsTree
  <1> QED
    BY <1>1, QuietIsInvariant, PTL

\* In the same histories no light link outlives the text that made it.
THEOREM RefreshedLinksAreSound ==
    ASSUME EditWhen = "idle", CrashWhen # "always"
    PROVE  Spec => []LinksAreSound
  <1>1. QuietInv => LinksAreSound
    <2> SUFFICES ASSUME QuietInv, run.phase = "meta", NEW l \in graph.links
                 PROVE  /\ l[1] \in DOMAIN tree /\ l[2] \in DOMAIN tree
                        /\ l[2] \in Cites[tree[l[1]].content]
      BY DEF LinksAreSound
    <2>1. GraphMatches
      BY DEF QuietInv, ProgressOK
    <2> QED
      BY <2>1 DEF QuietInv, LinksFollowSymbols, GraphMatches
  <1> QED
    BY <1>1, QuietIsInvariant, PTL

\* And what the next refresh will skip is in the graph as it stands on disk, whatever
\* came back or was renamed since: one mtime names one text.
THEOREM QuietUnchangedIsIndexed ==
    ASSUME EditWhen = "idle", CrashWhen # "always"
    PROVE  Spec => []UnchangedIsIndexed
  <1>1. QuietInv => UnchangedIsIndexed
    <2> SUFFICES ASSUME QuietInv, run.phase = "idle", graph.marker,
                        NEW f \in DOMAIN tree \cap DOMAIN manifest,
                        \/ manifest[f].mtime = tree[f].mtime
                        \/ manifest[f].hash = {tree[f].content}
                 PROVE  /\ f \in graph.nodes
                        /\ f \in DOMAIN graph.symbols
                        /\ graph.symbols[f] = tree[f].content
      BY DEF UnchangedIsIndexed
    <2>1. graph.marker = TRUE
      BY Unpacked DEF QuietInv
    <2>2. BuiltFromManifest
      BY <2>1 DEF QuietInv, ProgressOK
    <2>3. manifest[f].hash = {tree[f].content}
      BY DEF QuietInv, Stamped
    <2> QED
      BY <2>2, <2>3 DEF BuiltFromManifest
  <1> QED
    BY <1>1, QuietIsInvariant, PTL

-----------------------------------------------------------------------------
(* A tree that changes under a refresh: EditedInv is inductive.              *)

\* Everything but the types.
EditedState == PhasesOK /\ DatesOK /\ EditedOK

LEMMA EditedInit == Init => EditedInv
  <1> SUFFICES ASSUME Init PROVE EditedInv
    OBVIOUS
  <1>1. Typed /\ PhasesOK
    BY QuietInit DEF QuietInv
  <1>2. PICK S \in SUBSET Files : tree = [f \in S |-> [mtime |-> 0, content |-> 0]]
    BY DEF Init
  <1>3. manifest = Empty /\ edits = 0 /\ run.next = Empty /\ run.found = Empty
    BY DEF Init, Idle
  <1>4. DatesOK
    BY <1>2, <1>3, EmptyFacts DEF DatesOK, Dated
  <1>5. run.phase = "idle" /\ graph.marker = FALSE
    BY DEF Init, Idle, NoGraph
  <1>6. EditedOK
    BY <1>5 DEF EditedOK
  <1> QED
    BY <1>1, <1>4, <1>6 DEF EditedInv

\* What an edit may put in the tree when no version comes back: the file that was there,
\* a text and an mtime never seen, or, between calls, a file from elsewhere that the
\* manifest does not take for its own.
LEMMA EditFacts ==
    ASSUME Typed, Edit, Revert = FALSE, Lookalikes = FALSE
    PROVE  \A h \in DOMAIN tree' :
             \/ h \in DOMAIN tree /\ tree'[h] = tree[h]
             \/ tree'[h].mtime = edits + 1 /\ tree'[h].content = edits + 1
             \/ /\ run.phase = "idle"
                /\ \E k \in DOMAIN tree : tree'[h] = tree[k] /\ ~Lookalike(k, h)
  <1>1. /\ tree \in MapsTo(Stats) /\ edits \in Nat
        /\ \A f \in DOMAIN tree : f \in Files /\ tree[f] \in Stats
    BY MapIs, BoundsAssumption DEF Typed
  <1>2. ASSUME NEW f \in Files, Write(f)
        PROVE  \A h \in DOMAIN tree' :
                 \/ h \in DOMAIN tree /\ tree'[h] = tree[h]
                 \/ tree'[h].mtime = edits + 1 /\ tree'[h].content = edits + 1
    <2> DEFINE stat == [mtime |-> edits + 1, content |-> edits + 1]
    <2>1. tree' = Put(tree, f, stat)
      BY <1>2 DEF Write
    <2>2. stat \in Stats
      BY <1>1, <1>2, BoundsAssumption DEF Stats, Versions, Write, MayEdit
    <2>3. stat.mtime = edits + 1 /\ stat.content = edits + 1
      OBVIOUS
    <2> HIDE DEF stat
    <2>4. /\ DOMAIN Put(tree, f, stat) = DOMAIN tree \cup {f}
          /\ Put(tree, f, stat)[f] = stat
          /\ \A g \in DOMAIN tree \ {f} : Put(tree, f, stat)[g] = tree[g]
      BY <1>1, <2>2, PutFacts
    <2> QED
      BY <2>1, <2>3, <2>4
  <1>3. ASSUME NEW f \in Files, Delete(f)
        PROVE  \A h \in DOMAIN tree' : h \in DOMAIN tree /\ tree'[h] = tree[h]
    <2>1. /\ DOMAIN Without(tree, f) = DOMAIN tree \ {f}
          /\ \A g \in DOMAIN tree \ {f} : Without(tree, f)[g] = tree[g]
      BY <1>1, WithoutFacts
    <2> QED
      BY <1>3, <2>1 DEF Delete
  <1>4. ASSUME NEW f \in Files, NEW g \in Files, Move(f, g)
        PROVE  \A h \in DOMAIN tree' :
                 \/ h \in DOMAIN tree /\ tree'[h] = tree[h]
                 \/ /\ run.phase = "idle"
                    /\ \E k \in DOMAIN tree : tree'[h] = tree[k] /\ ~Lookalike(k, h)
    <2>1. /\ f \in DOMAIN tree /\ tree' = Put(Without(tree, f), g, tree[f])
          /\ run.phase = "idle" /\ ~Lookalike(f, g)
      BY <1>4 DEF Move
    <2>2. /\ Without(tree, f) \in MapsTo(Stats)
          /\ DOMAIN Without(tree, f) = DOMAIN tree \ {f}
          /\ \A h \in DOMAIN tree \ {f} : Without(tree, f)[h] = tree[h]
      BY <1>1, WithoutFacts
    <2>3. /\ DOMAIN tree' = (DOMAIN tree \ {f}) \cup {g}
          /\ tree'[g] = tree[f]
          /\ \A h \in (DOMAIN tree \ {f}) \ {g} : tree'[h] = tree[h]
      <3> DEFINE rest == Without(tree, f)
                 stat == tree[f]
      <3>1. rest \in MapsTo(Stats) /\ stat \in Stats /\ DOMAIN rest = DOMAIN tree \ {f}
            /\ tree' = Put(rest, g, stat)
            /\ \A h \in DOMAIN rest : rest[h] = tree[h]
        BY <1>1, <2>1, <2>2
      <3> HIDE DEF rest, stat
      <3>2. /\ DOMAIN Put(rest, g, stat) = DOMAIN rest \cup {g}
            /\ Put(rest, g, stat)[g] = stat
            /\ \A h \in DOMAIN rest \ {g} : Put(rest, g, stat)[h] = rest[h]
        BY DEF Put
      <3>3. /\ DOMAIN tree' = DOMAIN rest \cup {g}
            /\ tree'[g] = stat
            /\ \A h \in DOMAIN rest \ {g} : tree'[h] = rest[h]
        BY <3>1, <3>2
      <3> QED
        BY <3>1, <3>3 DEF stat
    <2> QED
      BY <2>1, <2>3
  <1> QED
    BY <1>2, <1>3, <1>4 DEF Edit

\* An edit makes no entry on record match that did not match before.
LEMMA EditedEdit ==
    ASSUME EditWhen # "always", Revert = FALSE, Lookalikes = FALSE, EditedInv, Edit
    PROVE  EditedState'
  <1>1. /\ UNCHANGED <<graph, manifest, run>> /\ edits' = edits + 1
        /\ run.phase = "idle" \/ run.full = FALSE
    BY Unpacked DEF Edit, Write, Delete, Move, MayEdit, EditedInv
  <1>2. \A h \in DOMAIN tree' :
             \/ h \in DOMAIN tree /\ tree'[h] = tree[h]
             \/ tree'[h].mtime = edits + 1 /\ tree'[h].content = edits + 1
             \/ /\ run.phase = "idle"
                /\ \E k \in DOMAIN tree : tree'[h] = tree[k] /\ ~Lookalike(k, h)
    BY EditFacts DEF EditedInv
  <1>3. /\ edits \in Nat
        /\ \A f \in DOMAIN tree : tree[f].mtime \in Nat /\ tree[f].content \in Nat
        /\ \A f \in DOMAIN manifest : manifest[f].mtime \in Nat /\ manifest[f].hash \in Hashes
        /\ \A f \in DOMAIN run.next : run.next[f].mtime \in Nat /\ run.next[f].hash \in Hashes
        /\ \A f \in DOMAIN run.found : run.found[f] \in Nat
    <2>1. edits \in Nat
      BY BoundsAssumption DEF EditedInv, Typed
    <2>2. run.next \in MapsTo(Entries) /\ run.found \in MapsTo(Versions)
      BY Unpacked DEF EditedInv, RunType
    <2>3. /\ \A f \in DOMAIN run.next : run.next[f] \in Entries
          /\ \A f \in DOMAIN run.found : run.found[f] \in Versions
      BY <2>2, MapIs
    <2>4. /\ \A f \in DOMAIN tree : tree[f] \in Stats
          /\ \A f \in DOMAIN manifest : manifest[f] \in Entries
      BY Unpacked DEF EditedInv
    <2> QED
      BY <2>1, <2>3, <2>4, BoundsAssumption DEF Stats, Entries, Versions
  <1>4. PhasesOK'
    BY <1>1 DEF EditedInv, PhasesOK
  <1>5. DatesOK'
    <2>1. \A c \in UNION Hashes : c \in Nat
      BY BoundsAssumption DEF Hashes, NoHash, Versions
    <2>2. Dated(manifest)' /\ Dated(run.next)'
      BY <1>1, <1>3, <2>1 DEF EditedInv, DatesOK, Dated
    <2>3. \A f \in DOMAIN run'.found : run'.found[f] <= edits'
      BY <1>1, <1>3 DEF EditedInv, DatesOK
    <2>4. \A h \in DOMAIN tree' : tree'[h].mtime <= edits' /\ tree'[h].content <= edits'
      BY <1>1, <1>2, <1>3 DEF EditedInv, DatesOK
    <2> QED
      BY <2>2, <2>3, <2>4 DEF DatesOK
  <1>6. \A h \in DOMAIN tree' \cap DOMAIN manifest :
            Matches(manifest[h], h)' => h \in DOMAIN tree /\ tree'[h] = tree[h]
    BY <1>1, <1>2, <1>3 DEF EditedInv, DatesOK, Dated, Matches, Lookalike
  <1>7. run.phase # "idle" =>
            \A h \in DOMAIN tree' \cap DOMAIN run.next :
                Matches(run.next[h], h)' => h \in DOMAIN tree /\ tree'[h] = tree[h]
    BY <1>1, <1>2, <1>3 DEF EditedInv, DatesOK, Dated, Matches
  <1>8. EditedOK'
    <2>1. \A h \in DOMAIN tree : tree'[h] = tree[h] /\ Indexed(h) => Indexed(h)'
      BY <1>1 DEF Indexed
    <2>2. run'.phase \in {"idle", "discover", "classify", "meta"} /\ graph'.marker = TRUE
              => RecordsHold'
      BY <1>1, <1>6, <2>1 DEF EditedInv, EditedOK, RecordsHold, Matches
    <2>3. run'.phase \in {"purge", "parse", "prune", "link", "save"} /\ run'.full = FALSE
              => RefreshOwes'
      BY <1>1, <1>7, <2>1 DEF EditedInv, EditedOK, RefreshOwes, Matches
    <2>4. run.phase \notin {"mark", "restat", "rehash"}
      BY <1>1 DEF EditedInv, PhasesOK
    <2>5. /\ ~(run'.phase \in {"parse", "link", "mark", "restat", "rehash"} /\ run'.full = TRUE)
          /\ run'.phase # "rehash"
      BY <1>1, <2>4
    <2>6. /\ run'.phase \in {"prune", "link", "mark", "save", "restat", "rehash"} => run'.parse = {}
          /\ run'.phase = "parse" /\ run'.full = FALSE => run'.purge = {}
      BY <1>1 DEF EditedInv, EditedOK
    <2> QED
      BY <2>2, <2>3, <2>5, <2>6 DEF EditedOK
  <1> QED
    BY <1>4, <1>5, <1>8 DEF EditedState

LEMMA EditedStartOver ==
    ASSUME EditedInv, StartFull, UNCHANGED <<tree, manifest, edits>>
    PROVE  EditedState'
  <1>1. /\ graph' = NoGraph /\ run'.phase = "create" /\ run'.full = TRUE
        /\ run'.next = Empty /\ run'.found = Empty
    BY DEF StartFull, Idle
  <1>2. graph'.marker = FALSE
    BY <1>1 DEF NoGraph
  <1>3. PhasesOK' /\ EditedOK'
    BY <1>1, <1>2 DEF PhasesOK, EditedOK
  <1>4. DatesOK'
    BY <1>1, EmptyFacts DEF EditedInv, DatesOK, Dated
  <1> QED
    BY <1>3, <1>4 DEF EditedState

LEMMA EditedEnd ==
    ASSUME EditedInv, run' = Idle, UNCHANGED <<tree, graph, manifest, edits>>,
           graph.marker = TRUE => RecordsHold
    PROVE  EditedState'
  <1>1. run'.phase = "idle" /\ run'.next = Empty /\ run'.found = Empty
    BY DEF Idle
  <1>2. PhasesOK'
    BY <1>1 DEF PhasesOK
  <1>3. EditedOK'
    BY <1>1 DEF EditedOK, RecordsHold, Matches, Indexed
  <1>4. DatesOK'
    BY <1>1, EmptyFacts DEF EditedInv, DatesOK, Dated
  <1> QED
    BY <1>2, <1>3, <1>4 DEF EditedState

LEMMA EditedIndexCodebase ==
    ASSUME EditedInv, NEW full \in BOOLEAN, IndexCodebase(full)
    PROVE  EditedState'
  <1>1. CASE ~Refreshable(full)
    <2>1. StartFull /\ UNCHANGED <<tree, manifest, edits>>
      BY <1>1 DEF IndexCodebase
    <2> QED
      BY <2>1, EditedStartOver
  <1>2. CASE Refreshable(full)
    <2>1. run' = [Idle EXCEPT !.phase = "discover"] /\ UNCHANGED <<graph, tree, manifest, edits>>
      BY <1>2 DEF IndexCodebase
    <2>2. run'.phase = "discover" /\ run'.full = FALSE /\ run'.next = Empty /\ run'.found = Empty
      BY <2>1 DEF Idle
    <2>3. graph.marker = TRUE
      BY <1>2, Unpacked DEF Refreshable, EditedInv
    <2>4. RecordsHold
      BY <2>3 DEF IndexCodebase, EditedInv, EditedOK
    <2>5. PhasesOK'
      BY <2>1, <2>2, <2>3 DEF PhasesOK
    <2>6. EditedOK'
      BY <2>1, <2>2, <2>4 DEF EditedOK, RecordsHold, Matches, Indexed
    <2>7. DatesOK'
      BY <2>1, <2>2, EmptyFacts DEF EditedInv, DatesOK, Dated
    <2> QED
      BY <2>5, <2>6, <2>7 DEF EditedState
  <1> QED
    BY <1>1, <1>2

\* The walk, of a refresh or after a build.
LEMMA EditedWalk ==
    ASSUME EditedInv, Discover \/ Restat
    PROVE  EditedState'
  <1>1. run.phase \in {"discover", "restat"} /\ UNCHANGED <<graph, tree, manifest, edits>>
    BY DEF Discover, Restat
  <1>2. /\ run.phase = "discover" => run'.phase = "classify"
        /\ run.phase = "restat" => run'.phase = "rehash"
        /\ run'.found = Discovered /\ run'.full = run.full /\ run'.next = run.next
        /\ run'.parse = run.parse /\ run'.insert = run.insert
    BY Unpacked DEF Discover, Restat, EditedInv, RunType
  <1>3. /\ DOMAIN Discovered = DOMAIN tree
        /\ \A f \in DOMAIN tree : Discovered[f] = tree[f].mtime
    BY ReadsTyped DEF EditedInv
  <1>4. PhasesOK'
    BY <1>1, <1>2 DEF EditedInv, PhasesOK
  <1>5. DatesOK'
    BY <1>1, <1>2, <1>3 DEF EditedInv, DatesOK, Dated
  <1>6. run.phase = "discover" => run.full = FALSE /\ graph.marker = TRUE /\ RecordsHold
    BY DEF EditedInv, PhasesOK, EditedOK
  <1>7. run.phase = "restat" => run.full = TRUE /\ RebuildOwes /\ run.parse = {}
    BY DEF EditedInv, PhasesOK, EditedOK
  <1>8. EditedOK'
    BY <1>1, <1>2, <1>6, <1>7
       DEF EditedOK, RecordsHold, RebuildOwes, Matches, Indexed, Discovered
  <1> QED
    BY <1>4, <1>5, <1>8 DEF EditedState

LEMMA EditedClassify ==
    ASSUME EditedInv, Classify
    PROVE  EditedState'
  <1>1. run.phase = "classify" /\ UNCHANGED <<graph, tree, manifest, edits>>
    BY DEF Classify
  <1>2. run.full = FALSE /\ graph.marker = TRUE /\ RecordsHold
    BY <1>1 DEF EditedInv, PhasesOK, EditedOK
  <1>3. /\ run'.phase = "purge" /\ run'.full = FALSE /\ run'.found = run.found
        /\ run'.next = NextManifest
        /\ run'.changed = Changed /\ run'.purge = Changed \cup Gone
        /\ run'.insert = Added /\ run'.parse = Changed \cup Added
    BY <1>2, Unpacked DEF Classify, EditedInv, RunType
  <1>4. /\ DOMAIN NextManifest = DOMAIN run.found
        /\ \A f \in DOMAIN run.found :
               \/ f \in DOMAIN manifest /\ NextManifest[f] = manifest[f]
               \/ /\ NextManifest[f] = [mtime |-> run.found[f], hash |-> Hash(f)]
                  /\ f \in DOMAIN manifest => ~SameStat(f)
    BY DEF NextManifest
  <1>5. PhasesOK'
    BY <1>1, <1>2, <1>3 DEF PhasesOK
  <1>6. DatesOK'
    <2>1. \A f \in DOMAIN run.found : \A c \in Hash(f) : c <= edits
      BY DEF EditedInv, DatesOK, Hash, NoHash
    <2>2. ASSUME NEW f \in DOMAIN run.found
          PROVE  /\ NextManifest[f].mtime <= edits
                 /\ \A c \in NextManifest[f].hash : c <= edits
      <3>1. CASE f \in DOMAIN manifest /\ NextManifest[f] = manifest[f]
        BY <3>1 DEF EditedInv, DatesOK, Dated
      <3>2. CASE NextManifest[f] = [mtime |-> run.found[f], hash |-> Hash(f)]
        <4>1. NextManifest[f].mtime = run.found[f] /\ NextManifest[f].hash = Hash(f)
          BY <3>2
        <4> QED
          BY <2>1, <4>1 DEF EditedInv, DatesOK
      <3> QED
        BY <1>4, <3>1, <3>2
    <2>3. Dated(NextManifest)
      BY <1>4, <2>2 DEF Dated
    <2> QED
      BY <1>1, <1>3, <2>3 DEF EditedInv, DatesOK, Dated
  <1>7. /\ Changed \subseteq DOMAIN run.found \cap DOMAIN manifest
        /\ Gone \cap DOMAIN run.found = {}
        /\ Added = DOMAIN run.found \ DOMAIN manifest
    BY DEF Changed, Gone, Added
  <1>8. \A f \in DOMAIN tree \cap DOMAIN run.found :
            Matches(NextManifest[f], f) => f \in Changed \cup Added \/ Indexed(f)
    <2> SUFFICES ASSUME NEW f \in DOMAIN tree \cap DOMAIN run.found,
                        Matches(NextManifest[f], f), f \notin Changed, f \notin Added
                 PROVE  Indexed(f)
      OBVIOUS
    <2>1. f \in DOMAIN manifest
      BY <1>7
    <2>2. CASE NextManifest[f] = manifest[f]
      BY <1>2, <2>1, <2>2 DEF RecordsHold
    <2>3. CASE ~SameStat(f)
      <3>1. SameContent(f)
        BY <2>1, <2>3 DEF Changed
      <3>2. manifest[f].hash = {tree[f].content}
        BY <3>1 DEF SameContent, Hash
      <3> QED
        BY <1>2, <2>1, <3>2 DEF RecordsHold, Matches
    <2> QED
      BY <1>4, <2>1, <2>2, <2>3
  <1>9. RefreshOwes'
    <2> HIDE DEF NextManifest, Changed, Gone, Added
    <2>1. DOMAIN manifest \subseteq graph.nodes
      BY <1>2 DEF RecordsHold
    <2>2. /\ run'.purge \cap (DOMAIN run'.next \ run'.parse) = {}
          /\ (run'.purge \ run'.changed) \cap DOMAIN run'.next = {}
          /\ run'.insert \subseteq run'.parse
          /\ DOMAIN run'.next \ run'.insert \subseteq graph.nodes
      BY <1>3, <1>4, <1>7, <2>1
    <2>3. \A f \in DOMAIN tree \cap DOMAIN run'.next :
              Matches(run'.next[f], f) => f \in run'.parse \/ Indexed(f)
      BY <1>3, <1>4, <1>8
    <2> QED
      BY <1>1, <2>2, <2>3 DEF RefreshOwes, Matches, Indexed
  <1>10. EditedOK'
    BY <1>3, <1>9 DEF EditedOK
  <1> QED
    BY <1>5, <1>6, <1>10 DEF EditedState

LEMMA EditedPurgeFile ==
    ASSUME EditedInv, PurgeFile
    PROVE  EditedState'
  <1>1. run.phase = "purge" /\ UNCHANGED <<tree, manifest, edits>>
    BY DEF PurgeFile
  <1>2. PICK f \in run.purge : graph' = PurgedGraph(f) /\ run' = [run EXCEPT !.purge = @ \ {f}]
    BY DEF PurgeFile
  <1>3. run.full = FALSE /\ graph.marker = TRUE /\ RefreshOwes
    BY <1>1 DEF EditedInv, PhasesOK, EditedOK
  <1>4. /\ run'.purge = run.purge \ {f} /\ run'.phase = "purge" /\ run'.full = FALSE
        /\ run'.next = run.next /\ run'.changed = run.changed /\ run'.found = run.found
        /\ run'.insert = run.insert /\ run'.parse = run.parse
    BY <1>1, <1>2, <1>3, Unpacked DEF EditedInv, RunType
  <1>5. /\ graph'.marker = graph.marker
        /\ graph'.symbols = Without(graph.symbols, f)
        /\ graph'.nodes = IF f \in run.changed THEN graph.nodes ELSE graph.nodes \ {f}
    BY <1>2, Unpacked, PurgedFacts DEF EditedInv
  <1>6. \A g \in DOMAIN graph.symbols \ {f} :
            g \in DOMAIN graph'.symbols /\ graph'.symbols[g] = graph.symbols[g]
    BY <1>5 DEF Without
  <1>7. PhasesOK' /\ DatesOK'
    BY <1>1, <1>3, <1>4, <1>5 DEF EditedInv, PhasesOK, DatesOK, Dated
  <1>8. \A g \in DOMAIN tree \ {f} : Indexed(g) => Indexed(g)'
    BY <1>1, <1>5, <1>6 DEF Indexed
  <1>9. f \notin DOMAIN run.next \ run.parse /\ (f \in run.changed \/ f \notin DOMAIN run.next)
    BY <1>2, <1>3 DEF RefreshOwes
  <1>10. DOMAIN run.next \ run.insert \subseteq graph'.nodes
    BY <1>3, <1>5, <1>9 DEF RefreshOwes
  <1>11. \A g \in DOMAIN tree \cap DOMAIN run.next :
             Matches(run.next[g], g) => g \in run.parse \/ Indexed(g)'
    BY <1>3, <1>8, <1>9 DEF RefreshOwes
  <1>12. RefreshOwes'
    BY <1>1, <1>3, <1>4, <1>10, <1>11 DEF RefreshOwes, Matches
  <1>13. EditedOK'
    BY <1>4, <1>12 DEF EditedOK
  <1> QED
    BY <1>7, <1>13 DEF EditedState

\* A file that is created anew owes every file of the tree.
LEMMA EditedCreateGraph ==
    ASSUME EditedInv, CreateGraph
    PROVE  EditedState'
  <1>1. run.phase = "create" /\ UNCHANGED <<tree, manifest, edits>>
    BY DEF CreateGraph
  <1>2. run.full = TRUE /\ graph.marker # TRUE
    BY <1>1 DEF EditedInv, PhasesOK
  <1>3. /\ run'.phase = "parse" /\ run'.full = TRUE /\ run'.next = run.next
        /\ run'.found = Discovered
        /\ run'.insert = DOMAIN tree /\ run'.parse = DOMAIN tree
    BY <1>2, Unpacked DEF EditedInv, CreateGraph, RunType
  <1>4. graph'.marker = graph.marker
    BY Unpacked DEF EditedInv, CreateGraph, GraphType
  <1>5. PhasesOK'
    BY <1>2, <1>3, <1>4 DEF PhasesOK
  <1>6. DatesOK'
    <2>1. /\ DOMAIN Discovered = DOMAIN tree
          /\ \A f \in DOMAIN tree : Discovered[f] = tree[f].mtime
      BY ReadsTyped DEF EditedInv
    <2> QED
      BY <1>1, <1>3, <2>1 DEF EditedInv, DatesOK, Dated
  <1>7. RebuildOwes'
    BY <1>1, <1>3 DEF RebuildOwes
  <1>8. EditedOK'
    BY <1>3, <1>7 DEF EditedOK
  <1> QED
    BY <1>5, <1>6, <1>8 DEF EditedState

\* The steps that leave what has been read, and what is in the graph, alone.
LEMMA EditedMovesOn ==
    ASSUME EditedInv, PurgeDone \/ ParseDone \/ Prune \/ Link \/ WriteMarkers
    PROVE  EditedState'
  <1>1. UNCHANGED <<tree, manifest, edits>>
    BY DEF PurgeDone, ParseDone, Prune, Link, WriteMarkers
  <1>2. /\ run'.full = run.full /\ run'.next = run.next /\ run'.found = run.found
        /\ run'.changed = run.changed /\ run'.purge = run.purge
        /\ run'.insert = run.insert /\ run'.parse = run.parse
    BY Unpacked DEF EditedInv, RunType, PurgeDone, ParseDone, Prune, Link, WriteMarkers
  <1>3. /\ graph'.nodes = graph.nodes /\ graph'.symbols = graph.symbols
        /\ run.phase # "mark" => graph'.marker = graph.marker
        /\ run.phase = "mark" => graph'.marker = TRUE
    BY Unpacked DEF EditedInv, GraphType, PurgeDone, ParseDone, Prune, Link, WriteMarkers
  <1>4. run.full = TRUE \/ run.full = FALSE
    BY Unpacked DEF EditedInv
  <1>5. \/ run.phase = "purge" /\ run'.phase = "parse" /\ run.purge = {}
        \/ run.phase = "parse" /\ run.full = TRUE /\ run'.phase = "link" /\ run.parse = {}
        \/ run.phase = "parse" /\ run.full = FALSE /\ run'.phase = "prune" /\ run.parse = {}
        \/ run.phase = "prune" /\ run'.phase = "link"
        \/ run.phase = "link" /\ run.full = TRUE /\ run'.phase = "mark"
        \/ run.phase = "link" /\ run.full = FALSE /\ run'.phase = "save"
        \/ run.phase = "mark" /\ run'.phase = "restat"
    BY <1>4, Unpacked
       DEF EditedInv, RunType, PurgeDone, ParseDone, Prune, Link, WriteMarkers
  <1>6. PhasesOK'
    BY <1>2, <1>3, <1>5 DEF EditedInv, PhasesOK
  <1>7. DatesOK'
    BY <1>1, <1>2 DEF EditedInv, DatesOK, Dated
  <1>8. (RefreshOwes => RefreshOwes') /\ (RebuildOwes => RebuildOwes')
    BY <1>1, <1>2, <1>3 DEF RefreshOwes, RebuildOwes, Matches, Indexed
  <1>9. EditedOK'
    <2>1. run.phase \in {"purge", "prune"} => run.full = FALSE
      BY DEF EditedInv, PhasesOK
    <2>2. run.phase = "mark" => run.full = TRUE
      BY DEF EditedInv, PhasesOK
    <2>3. run.full = FALSE => RefreshOwes'
      BY <1>5, <1>8, <2>2 DEF EditedInv, EditedOK
    <2>4. run.full = TRUE => RebuildOwes'
      BY <1>5, <1>8, <2>1 DEF EditedInv, EditedOK
    <2>5. run'.phase # "parse" => run'.parse = {}
      BY <1>2, <1>5 DEF EditedInv, EditedOK
    <2>6. run'.phase \in {"parse", "prune", "link", "mark", "save", "restat"}
      BY <1>5
    <2>7. run'.phase = "parse" => run'.purge = {}
      BY <1>2, <1>5
    <2> QED
      BY <1>2, <2>3, <2>4, <2>5, <2>6, <2>7 DEF EditedOK
  <1> QED
    BY <1>6, <1>7, <1>9 DEF EditedState

LEMMA EditedInsertFile ==
    ASSUME EditedInv, InsertFile
    PROVE  EditedState'
  <1>1. run.phase = "parse" /\ UNCHANGED <<tree, manifest, edits>>
    BY DEF InsertFile
  <1>2. PICK f \in run.insert \ graph.nodes :
            /\ graph' = [graph EXCEPT !.nodes = @ \cup {f}, !.dirs = @ \cup Above[f]]
            /\ run' = [run EXCEPT !.insert = @ \ {f}]
    BY DEF InsertFile
  <1>3. /\ run'.insert = run.insert \ {f} /\ run'.phase = "parse" /\ run'.full = run.full
        /\ run'.next = run.next /\ run'.found = run.found /\ run'.changed = run.changed
        /\ run'.purge = run.purge /\ run'.parse = run.parse
    BY <1>1, <1>2, Unpacked DEF EditedInv, RunType
  <1>4. /\ graph'.marker = graph.marker /\ graph'.symbols = graph.symbols
        /\ graph'.nodes = graph.nodes \cup {f}
    BY <1>2, Unpacked DEF EditedInv, GraphType
  <1>5. PhasesOK' /\ DatesOK'
    BY <1>1, <1>3, <1>4 DEF EditedInv, PhasesOK, DatesOK, Dated
  <1>6. \A g : Indexed(g) => Indexed(g)'
    BY <1>1, <1>4 DEF Indexed
  <1>7. RefreshOwes => RefreshOwes'
    BY <1>1, <1>3, <1>4, <1>6 DEF RefreshOwes, Matches
  <1>8. RebuildOwes => RebuildOwes'
    BY <1>1, <1>3, <1>4, <1>6 DEF RebuildOwes
  <1>9. EditedOK'
    BY <1>1, <1>3, <1>7, <1>8 DEF EditedInv, EditedOK
  <1> QED
    BY <1>5, <1>9 DEF EditedState

LEMMA EditedParseFile ==
    ASSUME EditedInv, ParseFile
    PROVE  EditedState'
  <1>1. run.phase = "parse" /\ UNCHANGED <<tree, manifest, edits>>
    BY DEF ParseFile
  <1>2. PICK f \in run.parse \ run.insert :
            /\ graph' = IF f \in DOMAIN tree
                        THEN [graph EXCEPT !.symbols = Put(@, f, tree[f].content)]
                        ELSE graph
            /\ run' = [run EXCEPT !.parse = @ \ {f}]
    BY DEF ParseFile
  <1>3. /\ run'.parse = run.parse \ {f} /\ run'.phase = "parse" /\ run'.full = run.full
        /\ run'.next = run.next /\ run'.found = run.found /\ run'.changed = run.changed
        /\ run'.purge = run.purge /\ run'.insert = run.insert
    BY <1>1, <1>2, Unpacked DEF EditedInv, RunType
  <1>4. /\ graph'.marker = graph.marker /\ graph'.nodes = graph.nodes
        /\ f \in DOMAIN tree => graph'.symbols = Put(graph.symbols, f, tree[f].content)
        /\ f \notin DOMAIN tree => graph'.symbols = graph.symbols
    BY <1>2, Unpacked DEF EditedInv, GraphType
  <1>5. PhasesOK' /\ DatesOK'
    BY <1>1, <1>3, <1>4 DEF EditedInv, PhasesOK, DatesOK, Dated
  <1>6. \A g \in DOMAIN tree : Indexed(g) => Indexed(g)'
    BY <1>1, <1>4 DEF Indexed, Put
  <1>7. f \in DOMAIN tree /\ f \in graph.nodes => Indexed(f)'
    BY <1>1, <1>4 DEF Indexed, Put
  <1>8. ASSUME run.full = FALSE PROVE RefreshOwes'
    <2>1. RefreshOwes /\ run.purge = {}
      BY <1>1, <1>8 DEF EditedInv, EditedOK
    <2>2. f \in DOMAIN run.next => f \in graph.nodes
      BY <1>2, <2>1 DEF RefreshOwes
    <2>3. run.insert \subseteq run'.parse
      BY <1>2, <1>3, <2>1 DEF RefreshOwes
    <2>4. \A g \in DOMAIN tree \cap DOMAIN run.next :
              Matches(run.next[g], g) => g \in run'.parse \/ Indexed(g)'
      BY <1>3, <1>6, <1>7, <2>1, <2>2 DEF RefreshOwes
    <2> QED
      BY <1>1, <1>3, <1>4, <2>1, <2>3, <2>4 DEF RefreshOwes, Matches
  <1>9. ASSUME run.full = TRUE PROVE RebuildOwes'
    <2>1. RebuildOwes
      BY <1>1, <1>9 DEF EditedInv, EditedOK
    <2>2. run.insert \subseteq run'.parse
      BY <1>2, <1>3, <2>1 DEF RebuildOwes
    <2>3. \A g \in DOMAIN tree : g \in run'.parse \/ Indexed(g)'
      BY <1>2, <1>3, <1>6, <1>7, <2>1 DEF RebuildOwes
    <2> QED
      BY <1>1, <1>3, <1>4, <2>1, <2>2, <2>3 DEF RebuildOwes
  <1>10. EditedOK'
    BY <1>1, <1>3, <1>8, <1>9 DEF EditedInv, EditedOK
  <1> QED
    BY <1>5, <1>10 DEF EditedState

\* A refresh saves the manifest it computed, a rebuild one read from the tree that
\* waited for it.
LEMMA EditedSave ==
    ASSUME EditedInv, SaveManifest \/ WriteFullManifest
    PROVE  EditedState'
  <1>1. /\ run.phase \in {"save", "rehash"} /\ UNCHANGED <<tree, graph, edits>>
        /\ run' = [run EXCEPT !.phase = "meta"]
    BY DEF SaveManifest, WriteFullManifest
  <1>2. /\ run'.phase = "meta" /\ run'.full = run.full /\ run'.next = run.next
        /\ run'.found = run.found
    BY <1>1, Unpacked DEF EditedInv, RunType
  <1>3. graph.marker = TRUE /\ run.parse = {}
    BY <1>1 DEF EditedInv, PhasesOK, EditedOK
  <1>4. PhasesOK'
    BY <1>1, <1>2, <1>3 DEF PhasesOK
  <1>5. Dated(manifest)' /\ RecordsHold'
    <2>1. CASE SaveManifest
      <3>1. run.phase = "save" /\ manifest' = run.next
        BY <2>1 DEF SaveManifest, Replaced
      <3>2. RefreshOwes
        BY <3>1 DEF EditedInv, PhasesOK, EditedOK
      <3>3. Dated(manifest)'
        BY <1>1, <3>1 DEF EditedInv, DatesOK, Dated
      <3>4. DOMAIN run.next \subseteq graph.nodes
        BY <1>3, <3>2 DEF RefreshOwes
      <3>5. RecordsHold'
        BY <1>1, <1>3, <3>1, <3>2, <3>4 DEF RefreshOwes, RecordsHold, Matches, Indexed
      <3> QED
        BY <3>3, <3>5
    <2>2. CASE WriteFullManifest
      <3>1. /\ run.phase = "rehash"
            /\ manifest' = [f \in DOMAIN run.found |-> [mtime |-> run.found[f], hash |-> Hash(f)]]
        BY <2>2 DEF WriteFullManifest, Replaced
      <3>2. RebuildOwes /\ run.found = Discovered
        BY <3>1 DEF EditedInv, PhasesOK, EditedOK
      <3>3. /\ DOMAIN run.found = DOMAIN tree
            /\ \A f \in DOMAIN tree : run.found[f] = tree[f].mtime /\ Hash(f) = {tree[f].content}
        BY <3>2, ReadsTyped DEF EditedInv, Hash
      <3>4. /\ DOMAIN manifest' = DOMAIN tree
            /\ \A f \in DOMAIN tree : /\ manifest'[f].mtime = tree[f].mtime
                                      /\ manifest'[f].hash = {tree[f].content}
        BY <3>1, <3>3
      <3>5. Dated(manifest)'
        BY <1>1, <3>4 DEF EditedInv, DatesOK, Dated
      <3>6. DOMAIN tree \subseteq graph.nodes /\ \A f \in DOMAIN tree : Indexed(f)
        BY <1>3, <3>2 DEF RebuildOwes
      <3>7. RecordsHold'
        BY <1>1, <3>4, <3>6 DEF RecordsHold, Indexed
      <3> QED
        BY <3>5, <3>7
    <2> QED
      BY <2>1, <2>2
  <1>6. DatesOK'
    BY <1>1, <1>2, <1>5 DEF EditedInv, DatesOK, Dated
  <1>7. EditedOK'
    BY <1>2, <1>5 DEF EditedOK
  <1> QED
    BY <1>4, <1>6, <1>7 DEF EditedState

LEMMA EditedEnds ==
    ASSUME EditedInv, CrashWhen # "always", WriteMeta \/ FullFails \/ Crash
    PROVE  EditedState'
  <1>1. run' = Idle /\ UNCHANGED <<tree, graph, manifest, edits>>
    BY DEF WriteMeta, FullFails, Crash
  <1>2. run.phase = "meta" \/ graph.marker = FALSE
    BY Unpacked DEF EditedInv, PhasesOK, WriteMeta, FullFails, Crash
  <1>3. graph.marker = TRUE => RecordsHold
    BY <1>2 DEF EditedInv, EditedOK
  <1> QED
    BY <1>1, <1>3, EditedEnd

\* While only refreshes see the tree change, no version comes back and no rename puts
\* a file where the manifest would take it for its own, every step keeps the invariant.
LEMMA EditedStep ==
    ASSUME EditWhen # "always", CrashWhen # "always", Revert = FALSE, Lookalikes = FALSE,
           EditedInv, [Next]_vars
    PROVE  EditedInv'
  <1>1. CASE UNCHANGED vars
    BY <1>1 DEF vars, EditedInv, Typed, PhasesOK, DatesOK, Dated, EditedOK, RecordsHold,
                RefreshOwes, RebuildOwes, Matches, Indexed, Discovered
  <1>2. CASE Edit
    BY <1>2, EditedEdit, EditTyped DEF EditedInv, EditedState
  <1>3. CASE Next /\ ~Edit
    <2>1. Typed'
      BY <1>3, StepTyped DEF EditedInv
    <2>2. EditedState'
      <3>1. CASE InsertRefused \/ RefreshFails
        BY <3>1, EditedStartOver DEF InsertRefused, RefreshFails
      <3>2. CASE FullManifestLost
        BY <3>2 DEF FullManifestLost
      <3> QED
        BY <1>3, <3>1, <3>2, EditedIndexCodebase, EditedWalk, EditedClassify,
           EditedPurgeFile, EditedCreateGraph, EditedMovesOn, EditedInsertFile,
           EditedParseFile, EditedSave, EditedEnds
           DEF Next, Step, Refresh, Rebuild, Either
    <2> QED
      BY <2>1, <2>2 DEF EditedInv, EditedState
  <1> QED
    BY <1>1, <1>2, <1>3

\* Whatever is written, created and deleted while a refresh stats, hashes and parses,
\* in whatever order, and whichever passes fail: no file is on record as unchanged that
\* the graph does not hold as it stands.  What a refresh missed the next one finds.
THEOREM EditedUnchangedIsIndexed ==
    ASSUME EditWhen # "always", CrashWhen # "always", Revert = FALSE, Lookalikes = FALSE
    PROVE  Spec => []UnchangedIsIndexed
  <1>1. Init => EditedInv
    BY EditedInit
  <1>2. EditedInv /\ [Next]_vars => EditedInv'
    BY EditedStep
  <1>3. EditedInv => UnchangedIsIndexed
    <2> SUFFICES ASSUME EditedInv, run.phase = "idle", graph.marker
                 PROVE  RecordsHold
      BY DEF UnchangedIsIndexed, RecordsHold, Matches, Indexed
    <2>1. graph.marker = TRUE
      BY Unpacked DEF EditedInv
    <2> QED
      BY <2>1 DEF EditedInv, EditedOK
  <1> QED
    BY <1>1, <1>2, <1>3, PTL DEF Spec
=============================================================================
