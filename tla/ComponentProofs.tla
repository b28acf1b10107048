--------------------------- MODULE ComponentProofs ---------------------------
(***************************************************************************)
(* Four components that carry state from one run of the program to the     *)
(* next: the shared snapshot of a graph, the counts of the co-change       *)
(* miner, the receipts of what an index read, and the settings files of    *)
(* other programs.  A receipt's hypotheses are those of the two findings   *)
(* of the project: HEAD does not move while an index runs, and a full      *)
(* index never loses its manifest.                                         *)
(***************************************************************************)
EXTENDS Sharing, CoChange, Freshness, HostInstall, FiniteSetTheorems, FunctionTheorems, TLAPS

-----------------------------------------------------------------------------
(* The snapshot.                                                             *)

Tree == [SharedFiles -> Texts \cup {0}]
Index == [graph : Tree, manifest : Tree, gaps : SUBSET SharedFiles, there : BOOLEAN]

ShareTyped ==
    /\ tree \in Tree
    /\ commits \in Seq(Tree) /\ Len(commits) >= 1
    /\ known \subseteq 1 .. Len(commits)
    /\ index \in Index /\ archive \in Index
    /\ meta \in 0 .. Len(commits)
    /\ export \in {"no", "archive", "meta"}

\* A graph, its manifest and its coverage report are of one tree.
Coherent(i) == i.manifest = i.graph /\ i.gaps = GapsOf(i.graph)

\* What an export has still to pair, and what the pair means once it is complete.
ExportOK ==
    /\ export # "no" => tree = commits[Len(commits)]
    /\ export = "archive" => index.graph = tree
    /\ export = "meta" => archive.graph = tree
    /\ export # "meta" /\ archive.there = TRUE /\ meta # 0 => archive.graph = commits[meta]

ToldOK ==
    /\ told \in {"filled", "refreshed"} => index.graph = tree
    /\ told = "fresh" => index.graph = commits[Len(commits)]

ShareInv == ShareTyped /\ Coherent(index) /\ Coherent(archive) /\ ExportOK /\ ToldOK

\* A full index is the graph of the tree.
LEMMA FullIndexFacts ==
    ASSUME NEW t \in Tree
    PROVE  /\ full_index(t) \in Index /\ full_index(t).graph = t
           /\ full_index(t).there = TRUE /\ Coherent(full_index(t))
  BY DEF full_index, Index, Coherent, GapsOf

LEMMA NoIndexFacts == NoIndex \in Index /\ NoIndex.there = FALSE /\ Coherent(NoIndex)
  <1>1. NoFile \in Tree /\ \A f \in SharedFiles : NoFile[f] = 0
    BY DEF NoFile, Tree
  <1>2. GapsOf(NoFile) = {}
    BY <1>1, SharingBounds DEF GapsOf
  <1> HIDE DEF NoFile
  <1> QED
    BY <1>1, <1>2 DEF NoIndex, Index, Coherent

\* A change set brings a coherent graph to the tree when each file it names is in the
\* right part, and each file it does not name is already what the tree has.
LEMMA ApplyFacts ==
    ASSUME NEW i \in Index, Coherent(i), NEW cs, NEW t \in Tree,
           \A f \in SharedFiles :
              \/ f \in cs.changed \cup cs.added
              \/ f \notin cs.changed \cup cs.added /\ f \in cs.deleted /\ t[f] = 0
              \/ f \notin cs.changed \cup cs.added /\ f \notin cs.deleted /\ i.graph[f] = t[f]
    PROVE  /\ apply_changes(i, cs, t) \in Index /\ apply_changes(i, cs, t).graph = t
           /\ apply_changes(i, cs, t).there = TRUE /\ Coherent(apply_changes(i, cs, t))
  <1> DEFINE reparsed == cs.changed \cup cs.added
             g == [f \in SharedFiles |-> IF f \in reparsed THEN t[f]
                                ELSE IF f \in cs.deleted THEN 0 ELSE i.graph[f]]
             gaps == merge_coverage(i.gaps, reparsed, t)
  <1>1. apply_changes(i, cs, t) = [graph |-> g, manifest |-> t, gaps |-> gaps, there |-> TRUE]
    BY DEF apply_changes
  <1>2. g = t
    <2>1. \A f \in SharedFiles : g[f] = t[f]
      OBVIOUS
    <2>2. t = [f \in SharedFiles |-> t[f]]
      BY DEF Tree
    <2> QED
      BY <2>1, <2>2
  <1>3. i.gaps = {f \in SharedFiles : i.graph[f] \in Broken}
    BY DEF Coherent, GapsOf
  <1>4. gaps = {f \in SharedFiles : t[f] \in Broken}
    BY <1>3, SharingBounds DEF merge_coverage, GapsOf
  <1> HIDE DEF g, gaps
  <1> QED
    BY <1>1, <1>2, <1>4 DEF Index, Coherent, GapsOf

\* What differs from a coherent graph's manifest is what differs from the graph.
LEMMA ClassifyFacts ==
    ASSUME NEW i \in Index, Coherent(i), NEW t \in Tree
    PROVE  \A f \in SharedFiles :
              LET cs == classify_tree(i.manifest, t) IN
              \/ f \in cs.changed \cup cs.added
              \/ f \notin cs.changed \cup cs.added /\ f \in cs.deleted /\ t[f] = 0
              \/ f \notin cs.changed \cup cs.added /\ f \notin cs.deleted /\ i.graph[f] = t[f]
  BY DEF classify_tree, Coherent

\* What git names, tracked and untracked, is what differs from the graph of the commit,
\* once nothing is ignored and no added file is already in the graph.
LEMMA GitFacts ==
    ASSUME Ignored = {}, tree \in Tree, NEW i \in Index, NEW c, i.graph = c,
           Applies(i, git_changes(c))
    PROVE  \A f \in SharedFiles :
              LET cs == git_changes(c) IN
              \/ f \in cs.changed \cup cs.added
              \/ f \notin cs.changed \cup cs.added /\ f \in cs.deleted /\ tree[f] = 0
              \/ f \notin cs.changed \cup cs.added /\ f \notin cs.deleted /\ i.graph[f] = tree[f]
  <1> DEFINE M == {f \in SharedFiles : git_status(c, f) = "M" /\ tree[f] # 0}
             A == {f \in SharedFiles : git_status(c, f) = "A" /\ tree[f] # 0}
             D == {f \in SharedFiles : git_status(c, f) = "D"}
             U == {f \in SharedFiles \ M : tree[f] # 0 /\ ~Tracked(f)}
  <1>1. parse_diff_line(c, "M") = M /\ parse_diff_line(c, "A") = A /\ parse_diff_line(c, "D") = D
    BY DEF parse_diff_line
  <1>2. /\ git_changes(c).changed = M /\ git_changes(c).added = A \cup U
        /\ git_changes(c).deleted = D
    <2> HIDE DEF A, D, M
    <2>1. collect_tracked_changes(c) = [changed |-> M, added |-> A, deleted |-> D]
      BY <1>1 DEF collect_tracked_changes
    <2> QED
      BY <2>1 DEF git_changes, collect_untracked_adds
  <1>3. \A f \in A \cup U : c[f] = 0
    BY <1>2 DEF Applies
  <1>4. ASSUME NEW f \in SharedFiles
        PROVE  \/ f \in M \cup (A \cup U)
               \/ f \notin M \cup (A \cup U) /\ f \in D /\ tree[f] = 0
               \/ f \notin M \cup (A \cup U) /\ f \notin D /\ c[f] = tree[f]
    <2>1. CASE Tracked(f)
      BY <2>1 DEF git_status
    <2>2. CASE ~Tracked(f)
      BY <1>3, <2>2 DEF git_status
    <2> QED
      BY <2>1, <2>2
  <1> QED
    BY <1>2, <1>4

LEMMA ShareInitInv == ShareInit => ShareInv
  <1> SUFFICES ASSUME ShareInit PROVE ShareInv
    OBVIOUS
  <1> DEFINE first == [f \in SharedFiles |-> IF f \in Ignored THEN 0 ELSE tree[f]]
  <1>1. tree \in Tree /\ first \in Tree
    BY DEF ShareInit, Tree
  <1>2. commits = <<first>>
    BY DEF ShareInit
  <1> HIDE DEF first
  <1>3. commits \in Seq(Tree) /\ Len(commits) = 1
    BY <1>1, <1>2
  <1>4. ShareTyped
    BY <1>1, <1>3, NoIndexFacts DEF ShareInit, ShareTyped
  <1>5. ExportOK /\ ToldOK
    BY NoIndexFacts DEF ShareInit, ExportOK, ToldOK
  <1> QED
    BY <1>4, <1>5, NoIndexFacts DEF ShareInit, ShareInv

\* A clean tree is the tree of HEAD when git ignores nothing.
LEMMA CleanTree ==
    ASSUME ShareTyped, Ignored = {}, Clean
    PROVE  tree = commits[Len(commits)]
  <1>1. commits[Len(commits)] \in Tree
    BY DEF ShareTyped
  <1>2. \A f \in SharedFiles : tree[f] = commits[Len(commits)][f]
    BY DEF Clean, head
  <1> QED
    BY <1>1, <1>2 DEF ShareTyped, Tree

LEMMA ShareInvStep ==
    ASSUME DirtyExports = FALSE, TornExports = FALSE, Ignored = {},
           ShareInv, [ShareNext]_shareVars
    PROVE  ShareInv'
  <1> USE DEF ShareInv
  <1>0. /\ tree \in Tree /\ commits \in Seq(Tree) /\ Len(commits) \in Nat /\ Len(commits) >= 1
        /\ index \in Index /\ archive \in Index /\ meta \in 0 .. Len(commits)
        /\ commits[Len(commits)] \in Tree
        /\ index.there \in BOOLEAN /\ archive.there \in BOOLEAN
    BY DEF ShareTyped, Index
  <1>1. CASE EditTree
    <2>1. /\ export = "no" /\ told' = "nothing" /\ UNCHANGED <<commits, known, index, archive, meta, export>>
      BY <1>1 DEF EditTree, Still
    <2>2. tree' \in Tree
      BY <1>0, <1>1 DEF EditTree, Tree
    <2>3. ShareTyped'
      BY <2>1, <2>2 DEF ShareTyped
    <2>4. ExportOK' /\ ToldOK'
      BY <2>1 DEF ExportOK, ToldOK
    <2> QED
      BY <2>1, <2>3, <2>4 DEF Coherent
  <1>2. CASE Commit
    <2> DEFINE c == [f \in SharedFiles |-> IF f \in Ignored THEN 0 ELSE tree[f]]
    <2>1. /\ export = "no" /\ told' = "nothing" /\ UNCHANGED <<tree, index, archive, meta, export>>
          /\ commits' = Append(commits, c) /\ known' = known \cup {Len(commits) + 1}
      BY <1>2 DEF Commit, Still, head
    <2>2. c \in Tree
      BY <1>0 DEF Tree
    <2> HIDE DEF c
    <2>3. /\ commits' \in Seq(Tree) /\ Len(commits') = Len(commits) + 1
          /\ \A n \in 1 .. Len(commits) : commits'[n] = commits[n]
      BY <1>0, <2>1, <2>2
    <2>4. ShareTyped'
      <3>1. known' \subseteq 1 .. Len(commits') /\ meta' \in 0 .. Len(commits')
        <4> DEFINE n == Len(commits)
        <4>1. /\ n \in Nat /\ known \subseteq 1 .. n /\ meta \in 0 .. n
              /\ known' = known \cup {n + 1} /\ meta' = meta /\ Len(commits') = n + 1
          BY <1>0, <2>1, <2>3 DEF ShareTyped
        <4> HIDE DEF n
        <4>2. 1 .. n \subseteq 1 .. (n + 1) /\ n + 1 \in 1 .. (n + 1)
          BY <4>1
        <4>3. meta \in 0 .. (n + 1)
          BY <4>1
        <4> QED
          BY <4>1, <4>2, <4>3
      <3> QED
        BY <1>0, <2>1, <2>3, <3>1 DEF ShareTyped
    <2>5. ExportOK' /\ ToldOK'
      BY <1>0, <2>1, <2>3 DEF ExportOK, ToldOK
    <2> QED
      BY <2>1, <2>4, <2>5 DEF Coherent
  <1>3. CASE Clone
    <2>1. /\ export = "no" /\ told' = "nothing" /\ UNCHANGED <<commits, archive, meta, export>>
          /\ index' = NoIndex /\ tree' = commits[Len(commits)]
          /\ known' \in {known, {Len(commits)}}
      BY <1>3 DEF Clone, head
    <2>2. ShareTyped'
      BY <1>0, <2>1, NoIndexFacts DEF ShareTyped
    <2>3. ExportOK' /\ ToldOK'
      BY <2>1 DEF ExportOK, ToldOK
    <2> QED
      BY <2>1, <2>2, <2>3, NoIndexFacts DEF Coherent
  <1>4. CASE RefreshIndex \/ Reindex
    <2>1. /\ export = "no" /\ told' \in {"refreshed", "indexed"}
          /\ export' = "no" \/ (export' = "archive" /\ Clean)
          /\ UNCHANGED <<tree, commits, known, archive, meta>>
          /\ index' \in {refreshed, full_index(tree)}
      BY <1>4 DEF RefreshIndex, Reindex, WantExport
    <2>2. refreshed \in Index /\ refreshed.graph = tree /\ Coherent(refreshed)
      <3> DEFINE cs == classify_tree(index.manifest, tree)
      <3>1. refreshed \in {apply_changes(index, cs, tree), full_index(tree)}
        BY DEF refreshed
      <3>2. \A f \in SharedFiles :
              \/ f \in cs.changed \cup cs.added
              \/ f \notin cs.changed \cup cs.added /\ f \in cs.deleted /\ tree[f] = 0
              \/ f \notin cs.changed \cup cs.added /\ f \notin cs.deleted /\ index.graph[f] = tree[f]
        BY <1>0, ClassifyFacts
      <3> HIDE DEF cs
      <3>3. /\ apply_changes(index, cs, tree) \in Index
            /\ apply_changes(index, cs, tree).graph = tree
            /\ Coherent(apply_changes(index, cs, tree))
        <4>1. index \in Index /\ Coherent(index) /\ tree \in Tree
          BY <1>0
        <4> QED
          BY ONLY <3>2, <4>1, ApplyFacts
      <3> QED
        BY <1>0, <3>1, <3>3, FullIndexFacts
    <2>3. index' \in Index /\ index'.graph = tree /\ Coherent(index')
      BY <1>0, <2>1, <2>2, FullIndexFacts
    <2>4. export' # "no" => tree = commits[Len(commits)]
      BY <2>1, CleanTree
    <2>5. ShareTyped'
      BY <1>0, <2>1, <2>3 DEF ShareTyped
    <2>6. ExportOK' /\ ToldOK'
      BY <2>1, <2>3, <2>4 DEF ExportOK, ToldOK
    <2> QED
      BY <2>1, <2>3, <2>5, <2>6 DEF Coherent
  <1>5. CASE ExportArchive
    <2>1. /\ export = "archive" /\ export' = "meta" /\ archive' = index
          /\ UNCHANGED <<tree, commits, known, index, meta, told>>
      BY <1>5 DEF ExportArchive
    <2>2. ShareTyped'
      BY <2>1 DEF ShareTyped
    <2>3. ExportOK' /\ ToldOK'
      BY <2>1 DEF ExportOK, ToldOK
    <2> QED
      BY <2>1, <2>2, <2>3 DEF Coherent
  <1>6. CASE ExportMeta
    <2>1. /\ export = "meta" /\ export' = "no" /\ meta' = Len(commits)
          /\ UNCHANGED <<tree, commits, known, index, archive, told>>
      BY <1>6 DEF ExportMeta, head
    <2>2. ShareTyped'
      BY <1>0, <2>1 DEF ShareTyped
    <2>3. ExportOK' /\ ToldOK'
      BY <2>1 DEF ExportOK, ToldOK
    <2> QED
      BY <2>1, <2>2, <2>3 DEF Coherent
  <1>7. CASE StopExport
    <2>1. /\ export = "archive" /\ export' = "no"
          /\ UNCHANGED <<tree, commits, known, index, archive, meta, told>>
      BY <1>7 DEF StopExport
    <2>2. ShareTyped'
      BY <2>1 DEF ShareTyped
    <2>3. ExportOK' /\ ToldOK'
      BY <2>1 DEF ExportOK, ToldOK
    <2> QED
      BY <2>1, <2>2, <2>3 DEF Coherent
  <1>8. ASSUME NEW accept_stale \in BOOLEAN, attempt_bootstrap(accept_stale)
        PROVE  ShareInv'
    <2>1. /\ export = "no" /\ archive.there = TRUE /\ meta # 0
          /\ UNCHANGED <<tree, commits, known, archive, meta, export>>
      BY <1>0, <1>8 DEF attempt_bootstrap, artifact_exists
    <2>2. archive.graph = commits[meta]
      BY <2>1 DEF ExportOK
    <2>3. /\ index' \in Index /\ Coherent(index')
          /\ ToldOK'
      <3>1. CASE bootstrap_import("fresh") /\ meta = Len(commits)
        <4>1. index' = archive /\ told' = "fresh" /\ index'.graph = commits'[Len(commits')]
          BY <2>1, <2>2, <3>1 DEF bootstrap_import, import_artifact
        <4> QED
          BY <1>0, <4>1 DEF ToldOK
      <3>2. CASE bootstrap_import("accepted_stale")
        <4>1. index' = archive /\ told' = "accepted_stale"
          BY <3>2 DEF bootstrap_import, import_artifact
        <4> QED
          BY <1>0, <4>1 DEF ToldOK
      <3>3. CASE bootstrap_import_and_fill
        <4> DEFINE cs == fill_after_bootstrap
        <4>1. CASE Applies(archive, cs)
          <5>1. index' = apply_changes(archive, cs, tree)
            BY <3>3, <4>1 DEF bootstrap_import_and_fill, import_artifact
          <5>2. \A f \in SharedFiles :
              \/ f \in cs.changed \cup cs.added
              \/ f \notin cs.changed \cup cs.added /\ f \in cs.deleted /\ tree[f] = 0
              \/ f \notin cs.changed \cup cs.added /\ f \notin cs.deleted /\ archive.graph[f] = tree[f]
            <6>1. CASE meta \in known
              <7>1. cs = git_changes(commits[meta])
                BY <6>1 DEF fill_after_bootstrap
              <7> HIDE DEF cs
              <7> QED
                BY <1>0, <2>2, <4>1, <7>1, GitFacts
            <6>2. CASE meta \notin known
              <7>1. cs = classify_tree(archive.manifest, tree)
                BY <6>2 DEF fill_after_bootstrap, import_artifact
              <7> HIDE DEF cs
              <7> QED
                BY <1>0, <7>1, ClassifyFacts
            <6> QED
              BY <6>1, <6>2
          <5> HIDE DEF cs
          <5>3. index' \in Index /\ index'.graph = tree /\ Coherent(index')
            BY <1>0, <5>1, <5>2, ApplyFacts
          <5>4. told' = "filled"
            BY <3>3, <4>1 DEF bootstrap_import_and_fill, import_artifact, cs
          <5> QED
            BY <2>1, <5>3, <5>4 DEF ToldOK
        <4>2. CASE ~Applies(archive, cs)
          <5>1. index' = full_index(tree) /\ told' = "indexed"
            BY <3>3, <4>2 DEF bootstrap_import_and_fill, import_artifact
          <5> QED
            BY <1>0, <5>1, FullIndexFacts DEF ToldOK
        <4> QED
          BY <4>1, <4>2
      <3> QED
        BY <1>8, <3>1, <3>2, <3>3 DEF attempt_bootstrap, artifact_staleness, head
    <2>4. ShareTyped'
      BY <2>1, <2>3 DEF ShareTyped
    <2>5. ExportOK'
      BY <2>1 DEF ExportOK
    <2> QED
      BY <2>1, <2>3, <2>4, <2>5 DEF Coherent
  <1>9. CASE UNCHANGED shareVars
    BY <1>9 DEF shareVars, ShareTyped, Coherent, ExportOK, ToldOK
  <1> QED
    BY <1>1, <1>2, <1>3, <1>4, <1>5, <1>6, <1>7, <1>8, <1>9 DEF ShareNext

\* What the answers say of a bootstrapped graph is so, for all files, texts and histories:
\* a filled or refreshed graph is the graph of the tree, a fresh one the graph of HEAD,
\* and the coverage report names exactly the gaps.  Assumed: exports of a clean tree that
\* is left alone, never torn between archive and sidecar, and no file that git ignores
\* and the walk visits.
THEOREM SnapshotsAreCurrent ==
    ASSUME DirtyExports = FALSE, TornExports = FALSE, Ignored = {}
    PROVE  ShareSpec => []BootstrapIsCurrent
  <1>1. ShareInit => ShareInv
    BY ShareInitInv
  <1>2. ShareInv /\ [ShareNext]_shareVars => ShareInv'
    BY ShareInvStep
  <1>3. ShareInv => BootstrapIsCurrent
    BY DEF ShareInv, ToldOK, Coherent, BootstrapIsCurrent, head
  <1> QED
    BY <1>1, <1>2, <1>3, PTL DEF ShareSpec

-----------------------------------------------------------------------------
(* The co-change miner.                                                      *)

\* The counts of the first n commits of a log.
CountsOf(l, n) ==
    [last |-> n,
     file_changes |-> [f \in Sources |-> Touching(SubSeq(l, 1, n), {f})],
     pairs |-> [p \in Pairs |-> Touching(SubSeq(l, 1, n), p)]]

\* Counts that are those of a prefix of the log.
Exact(state) ==
    state.last \in 0 .. Len(log) /\ state = CountsOf(log, state.last)

\* The saved counts are exact, and so are those a pass extends or is about to save;
\* until the log is read, HEAD is where the pass found it, and no edge is inserted
\* before the DELETE.
MineInv ==
    /\ log \in Seq(SUBSET Sources)
    /\ Exact(mined)
    /\ rewriting \in BOOLEAN
    /\ ~rewriting => couples = rewrite_edges(mined)
    /\ pass = [at |-> pass.at, head |-> pass.head, state |-> pass.state]
    /\ pass = Idle \/ pass.at # "idle"
    /\ pass.at = "read" => pass.head = Len(log)
    /\ pass.at = "insert" => rewriting = TRUE
    /\ pass.at # "idle" => Exact(pass.state)

\* The commits of a log that count for p are those of its first a commits and of the rest.
LEMMA TouchingSplit ==
    ASSUME NEW S, NEW l \in Seq(S), NEW a \in 0 .. Len(l), NEW p
    PROVE  /\ Touching(SubSeq(l, 1, a), p) \in Nat
           /\ Touching(SubSeq(l, a + 1, Len(l)), p) \in Nat
           /\ Touching(SubSeq(l, 1, a), p) + Touching(SubSeq(l, a + 1, Len(l)), p)
                = Touching(SubSeq(l, 1, Len(l)), p)
  <1> DEFINE n == Len(l)
             hit(i) == counted(l[i]) /\ p \subseteq l[i]
             A == {i \in 1 .. a : hit(i)}
             B == {i \in 1 .. (n - a) : hit(a + i)}
             R == {i \in (a + 1) .. n : hit(i)}
             C == {i \in 1 .. n : hit(i)}
  <1>0. n \in Nat /\ a \in Nat /\ a <= n
    OBVIOUS
  <1>1. Touching(SubSeq(l, 1, a), p) = Cardinality(A)
    <2>1. DOMAIN SubSeq(l, 1, a) = 1 .. a /\ \A i \in 1 .. a : SubSeq(l, 1, a)[i] = l[i]
      OBVIOUS
    <2> QED
      BY <2>1 DEF Touching
  <1>2. Touching(SubSeq(l, 1, n), p) = Cardinality(C)
    <2>1. DOMAIN SubSeq(l, 1, n) = 1 .. n /\ \A i \in 1 .. n : SubSeq(l, 1, n)[i] = l[i]
      OBVIOUS
    <2> QED
      BY <2>1 DEF Touching
  <1>3. Touching(SubSeq(l, a + 1, n), p) = Cardinality(B)
    <2>1. /\ DOMAIN SubSeq(l, a + 1, n) = 1 .. (n - a)
          /\ \A i \in 1 .. (n - a) : SubSeq(l, a + 1, n)[i] = l[a + i]
      OBVIOUS
    <2> QED
      BY <2>1 DEF Touching
  <1> HIDE DEF hit
  <1>4. IsFiniteSet(A) /\ IsFiniteSet(B) /\ IsFiniteSet(R)
    <2>1. IsFiniteSet(1 .. a) /\ IsFiniteSet(1 .. (n - a)) /\ IsFiniteSet((a + 1) .. n)
      BY <1>0, FS_Interval
    <2> QED
      BY <2>1, FS_Subset
  <1>5. Cardinality(B) = Cardinality(R)
    <2> DEFINE shift == [i \in B |-> a + i]
    <2>1. shift \in Bijection(B, R)
      <3>1. shift \in [B -> R]
        BY <1>0
      <3>2. \A i, j \in B : shift[i] = shift[j] => i = j
        BY <1>0
      <3>3. \A k \in R : \E i \in B : shift[i] = k
        <4> SUFFICES ASSUME NEW k \in R PROVE \E i \in B : shift[i] = k
          OBVIOUS
        <4>1. k - a \in B /\ a + (k - a) = k
          BY <1>0
        <4> QED
          BY <4>1
      <3> HIDE DEF shift, B, R
      <3> QED
        BY <3>1, <3>2, <3>3, Fun_IsBij
    <2> QED
      BY <1>4, <2>1, FS_Bijection DEF ExistsBijection
  <1>6. C = A \cup R /\ A \cap R = {}
    BY <1>0
  <1> HIDE DEF A, B, R, C
  <1>7. Cardinality(C) = Cardinality(A) + Cardinality(R) - Cardinality({})
    BY <1>4, <1>6, FS_Union
  <1>8. Cardinality(A) \in Nat /\ Cardinality(B) \in Nat
    BY <1>4, FS_CardinalityType
  <1> QED
    BY <1>1, <1>2, <1>3, <1>5, <1>7, <1>8, FS_EmptySet

\* An empty log counts for nothing.
LEMMA NoneCounted ==
    ASSUME NEW S, NEW l \in Seq(S)
    PROVE  CountsOf(l, 0) = NoCounts
  <1>1. \A p : Touching(SubSeq(l, 1, 0), p) = 0
    <2>1. DOMAIN SubSeq(l, 1, 0) = {}
      OBVIOUS
    <2> QED
      BY <2>1, FS_EmptySet DEF Touching
  <1> QED
    BY <1>1 DEF CountsOf, NoCounts

\* The counts of a prefix do not see what is appended.
LEMMA CountsKept ==
    ASSUME NEW S, NEW l \in Seq(S), NEW c \in S, NEW n \in 0 .. Len(l)
    PROVE  CountsOf(Append(l, c), n) = CountsOf(l, n)
  <1>1. SubSeq(Append(l, c), 1, n) = SubSeq(l, 1, n)
    <2> DEFINE new == SubSeq(Append(l, c), 1, n)
               old == SubSeq(l, 1, n)
    <2>1. /\ old \in Seq(S) /\ Len(old) = n /\ \A i \in 1 .. n : old[i] = l[i]
          /\ new \in Seq(S) /\ Len(new) = n /\ \A i \in 1 .. n : new[i] = l[i]
      OBVIOUS
    <2> HIDE DEF new, old
    <2> QED
      BY <2>1
  <1> QED
    BY <1>1 DEF CountsOf

\* What a batch of commits adds to a record of counts.
LEMMA Accumulated ==
    ASSUME NEW a, NEW b, NEW c, NEW cs
    PROVE  accumulate([last |-> a, file_changes |-> b, pairs |-> c], cs) =
              [last |-> a, file_changes |-> [f \in Sources |-> b[f] + Touching(cs, {f})],
               pairs |-> [p \in Pairs |-> c[p] + Touching(cs, p)]]
  <1> DEFINE st == [last |-> a, file_changes |-> b, pairs |-> c]
             x == [f \in Sources |-> b[f] + Touching(cs, {f})]
             y == [p \in Pairs |-> c[p] + Touching(cs, p)]
             T == [last : {a}, file_changes : {b, x}, pairs : {c, y}]
             u == [st EXCEPT !.file_changes = x, !.pairs = y]
  <1>1. accumulate(st, cs) = u
    <2>1. st.file_changes = b /\ st.pairs = c
      OBVIOUS
    <2> HIDE DEF st
    <2> QED
      BY <2>1, Zenon DEF accumulate
  <1>2. u \in T /\ u.last = a /\ u.file_changes = x /\ u.pairs = y
    <2> HIDE DEF x, y
    <2> QED OBVIOUS
  <1>3. \A w \in T : w = [last |-> w.last, file_changes |-> w.file_changes, pairs |-> w.pairs]
    <2> HIDE DEF x, y
    <2> QED OBVIOUS
  <1> HIDE DEF u, T, x, y
  <1>4. u = [last |-> a, file_changes |-> x, pairs |-> y]
    BY <1>2, <1>3
  <1> QED
    BY <1>1, <1>4 DEF x, y

\* Exact counts extended with the commits after them are the counts of the whole log.
LEMMA Extended ==
    ASSUME NEW S, NEW l \in Seq(S), NEW a \in 0 .. Len(l)
    PROVE  [accumulate(CountsOf(l, a), SubSeq(l, a + 1, Len(l))) EXCEPT !.last = Len(l)]
              = CountsOf(l, Len(l))
  <1> DEFINE old(p) == Touching(SubSeq(l, 1, a), p)
             new(p) == Touching(SubSeq(l, a + 1, Len(l)), p)
             all(p) == Touching(SubSeq(l, 1, Len(l)), p)
  <1>1. \A p : old(p) + new(p) = all(p)
    BY TouchingSplit
  <1> DEFINE fs == [f \in Sources |-> old({f})]
             ps == [p \in Pairs |-> old(p)]
             fsAll == [f \in Sources |-> all({f})]
             psAll == [p \in Pairs |-> all(p)]
  <1>2. /\ CountsOf(l, a) = [last |-> a, file_changes |-> fs, pairs |-> ps]
        /\ CountsOf(l, Len(l)) = [last |-> Len(l), file_changes |-> fsAll, pairs |-> psAll]
    BY DEF CountsOf
  <1>3. accumulate([last |-> a, file_changes |-> fs, pairs |-> ps], SubSeq(l, a + 1, Len(l))) =
           [last |-> a, file_changes |-> [f \in Sources |-> fs[f] + new({f})],
                        pairs |-> [p \in Pairs |-> ps[p] + new(p)]]
    <2> HIDE DEF fs, ps
    <2> QED
      BY Accumulated
  <1> HIDE DEF old, new, all
  <1>4. [f \in Sources |-> fs[f] + new({f})] = fsAll /\ [p \in Pairs |-> ps[p] + new(p)] = psAll
    BY <1>1
  <1> HIDE DEF fs, ps, fsAll, psAll
  <1>5. accumulate(CountsOf(l, a), SubSeq(l, a + 1, Len(l))) =
           [last |-> a, file_changes |-> fsAll, pairs |-> psAll]
    BY <1>2, <1>3, <1>4
  <1> QED
    BY <1>2, <1>5

\* Counts of zero earn no edge.
LEMMA NoEdges == rewrite_edges(NoCounts) = {}
  <1> SUFFICES ASSUME NEW p \in Pairs,
                      Min({NoCounts.file_changes[f] : f \in p}) > 0
               PROVE  FALSE
    BY DEF rewrite_edges
  <1>1. p \subseteq Sources /\ p # {}
    BY FS_EmptySet DEF Pairs
  <1>2. {NoCounts.file_changes[f] : f \in p} = {0}
    BY <1>1 DEF NoCounts
  <1>3. Min({0}) = 0
    BY DEF Min
  <1> QED
    BY <1>2, <1>3

\* Each step keeps the counts of the pass and of the sidecar exact.
LEMMA MineInvStep ==
    ASSUME CommitsInPass = FALSE, GitFails = FALSE, SkippedCouples = FALSE,
           MineInv, [MineNext]_mineVars
    PROVE  MineInv'
  <1> USE DEF MineInv
  <1>0. log \in Seq(SUBSET Sources) /\ Len(log) \in Nat
    OBVIOUS
  <1>i. Idle.at = "idle" /\ Idle = [at |-> Idle.at, head |-> Idle.head, state |-> Idle.state]
    BY DEF Idle
  <1>1. CASE NewCommit
    <2>1. PICK c \in SUBSET Sources \ {{}} : log' = Append(log, c)
      BY <1>1 DEF NewCommit
    <2>2. pass = Idle /\ UNCHANGED <<mined, couples, pass, rewriting>>
      BY <1>1 DEF NewCommit
    <2>3. log' \in Seq(SUBSET Sources) /\ Len(log') = Len(log) + 1
      BY <1>0, <2>1
    <2>4. CountsOf(log', mined.last) = CountsOf(log, mined.last)
      BY <1>0, <2>1, CountsKept DEF Exact
    <2>5. Exact(mined)'
      BY <1>0, <2>2, <2>3, <2>4 DEF Exact
    <2> QED
      BY <1>i, <2>2, <2>3, <2>5
  <1>2. ASSUME NEW incremental \in BOOLEAN, mine_begin(incremental)
        PROVE  MineInv'
    <2>1. /\ UNCHANGED <<log, mined, couples, rewriting>>
          /\ pass' = [at |-> "read", head |-> Len(log),
                      state |-> IF incremental THEN mined ELSE NoCounts]
      BY <1>2 DEF mine_begin
    <2>2. /\ pass'.at = "read" /\ pass'.head = Len(log)
          /\ pass'.state = mined \/ pass'.state = NoCounts
      BY <2>1
    <2>3. Exact(NoCounts)
      <3>1. NoCounts.last = 0
        BY DEF NoCounts
      <3> QED
        BY <1>0, <3>1, NoneCounted DEF Exact
    <2>4. Exact(mined)' /\ Exact(pass.state)'
      BY <2>1, <2>2, <2>3 DEF Exact
    <2> QED
      BY <2>1, <2>2, <2>4
  <1>3. CASE mine_read
    <2> DEFINE a == pass.state.last
               cs == SubSeq(log, a + 1, Len(log))
               state == [accumulate(pass.state, cs) EXCEPT !.last = pass.head]
    <2>1. pass.at = "read" /\ read_commit_files = {cs}
      BY <1>3 DEF mine_read, read_commit_files
    <2>2. /\ pass' = [pass EXCEPT !.at = "delete", !.state = state]
          /\ UNCHANGED <<log, mined, couples, rewriting>>
      <3> HIDE DEF cs
      <3> QED BY <1>3, <2>1 DEF mine_read
    <2>3. pass.head = Len(log) /\ a \in 0 .. Len(log) /\ pass.state = CountsOf(log, a)
      BY <2>1 DEF Exact
    <2>4. state = CountsOf(log, Len(log))
      BY <1>0, <2>3, Extended
    <2> HIDE DEF state
    <2>5. /\ pass' = [at |-> "delete", head |-> pass.head, state |-> state]
          /\ pass'.at = "delete" /\ pass'.state = state
      BY <2>2
    <2>6. pass' = [at |-> pass'.at, head |-> pass'.head, state |-> pass'.state]
      BY <2>5
    <2>7. state.last = Len(log)
      BY <2>4 DEF CountsOf
    <2>8. Exact(mined)' /\ Exact(pass.state)'
      BY <1>0, <2>2, <2>4, <2>5, <2>7 DEF Exact
    <2> QED
      BY <2>2, <2>5, <2>6, <2>8
  <1>4. CASE DeleteCouples
    <2>1. /\ pass.at = "delete" /\ pass' = [pass EXCEPT !.at = "insert"]
          /\ rewriting' = TRUE /\ UNCHANGED <<log, mined>>
      BY <1>4 DEF DeleteCouples
    <2>2. /\ pass' = [at |-> "insert", head |-> pass.head, state |-> pass.state]
          /\ pass'.at = "insert" /\ pass'.state = pass.state
      BY <2>1
    <2>3. Exact(mined)' /\ Exact(pass.state)'
      BY <2>1, <2>2 DEF Exact
    <2> QED
      BY <2>1, <2>2, <2>3
  <1>5. CASE InsertCouple
    <2>1. UNCHANGED <<log, mined, pass, rewriting>> /\ pass.at = "insert"
      BY <1>5 DEF InsertCouple
    <2>2. rewriting = TRUE
      BY <2>1
    <2>3. Exact(mined)' /\ Exact(pass.state)'
      BY <2>1 DEF Exact
    <2>4. pass'.at # "idle" /\ pass' = [at |-> pass'.at, head |-> pass'.head, state |-> pass'.state]
      BY <2>1
    <2> QED
      BY <2>1, <2>2, <2>3, <2>4
  <1>6. CASE mine_end
    <2>1. /\ pass.at = "insert" /\ couples = rewrite_edges(pass.state)
          /\ mined' = pass.state /\ pass' = Idle /\ rewriting' = FALSE
          /\ UNCHANGED <<log, couples>>
      BY <1>6 DEF mine_end
    <2>2. Exact(mined)'
      BY <2>1 DEF Exact
    <2>3. couples' = rewrite_edges(mined')
      BY <2>1
    <2> QED
      BY <1>i, <2>1, <2>2, <2>3
  <1>7. CASE MineStops
    <2>1. pass' = Idle /\ UNCHANGED <<log, mined, couples, rewriting>>
      BY <1>7 DEF MineStops
    <2>2. Exact(mined)'
      BY <2>1 DEF Exact
    <2> QED
      BY <1>i, <2>1, <2>2
  <1>8. CASE UNCHANGED mineVars
    <2>1. UNCHANGED <<log, mined, couples, pass, rewriting>>
      BY <1>8 DEF mineVars
    <2>2. Exact(mined)' /\ (pass.at # "idle" => Exact(pass.state)')
      BY <2>1 DEF Exact
    <2> QED
      BY <2>1, <2>2
  <1> QED
    BY <1>1, <1>2, <1>3, <1>4, <1>5, <1>6, <1>7, <1>8 DEF MineNext

\* The saved counts are those of the commits up to the mined one, for every log, every
\* threshold and every mixture of full and incremental passes that may stop anywhere: no
\* commit is counted by two passes or by none.  But for a pass that stopped between its
\* DELETE and its save, two files are coupled exactly when these counts say so.
\* Assumed: HEAD stays where it is while a pass reads the log, the log can be read, and
\* no insert fails.
THEOREM CouplesComeFromLog ==
    ASSUME CommitsInPass = FALSE, GitFails = FALSE, SkippedCouples = FALSE
    PROVE  MineSpec => []CouplesAreEarned
  <1>1. MineInit => MineInv
    <2> SUFFICES ASSUME MineInit PROVE MineInv
      OBVIOUS
    <2>1. log \in Seq(SUBSET Sources) /\ Len(log) = 0 /\ mined = NoCounts
      BY DEF MineInit
    <2>2. Exact(mined)
      <3>1. NoCounts.last = 0
        BY DEF NoCounts
      <3>2. CountsOf(log, 0) = NoCounts
        BY <2>1, NoneCounted
      <3> QED
        BY <2>1, <3>1, <3>2 DEF Exact
    <2>3. couples = rewrite_edges(mined)
      BY NoEdges DEF MineInit
    <2>4. /\ pass = Idle /\ rewriting = FALSE
          /\ pass = [at |-> pass.at, head |-> pass.head, state |-> pass.state]
          /\ pass.at = "idle"
      BY DEF MineInit, Idle
    <2> QED
      BY <2>1, <2>2, <2>3, <2>4 DEF MineInv
  <1>2. MineInv /\ [MineNext]_mineVars => MineInv'
    BY MineInvStep
  <1>3. MineInv => CouplesAreEarned
    <2> SUFFICES ASSUME MineInv PROVE CouplesAreEarned
      OBVIOUS
    <2> DEFINE n == mined.last
               fs == [f \in Sources |-> Touching(SubSeq(log, 1, n), {f})]
               ps == [p \in Pairs |-> Touching(SubSeq(log, 1, n), p)]
               z == [f \in Sources |-> 0]
               zz == [p \in Pairs |-> 0]
    <2>1. mined = CountsOf(log, n) /\ n \in 0 .. Len(log)
      BY DEF MineInv, Exact
    <2>2. \A p : Touching(SubSeq(log, 1, n), p) \in Nat
      BY <2>1, TouchingSplit DEF MineInv
    <2>3. accumulate([last |-> 0, file_changes |-> z, pairs |-> zz], SubSeq(log, 1, n)) =
             [last |-> 0, file_changes |-> [f \in Sources |-> z[f] + Touching(SubSeq(log, 1, n), {f})],
              pairs |-> [p \in Pairs |-> zz[p] + Touching(SubSeq(log, 1, n), p)]]
      <3> HIDE DEF z, zz, n
      <3> QED
        BY Accumulated
    <2>4. /\ [f \in Sources |-> z[f] + Touching(SubSeq(log, 1, n), {f})] = fs
          /\ [p \in Pairs |-> zz[p] + Touching(SubSeq(log, 1, n), p)] = ps
      <3> HIDE DEF n
      <3> QED
        BY <2>2
    <2>5. NoCounts = [last |-> 0, file_changes |-> z, pairs |-> zz]
      BY DEF NoCounts
    <2>6. accumulate(NoCounts, SubSeq(log, 1, n)) =
             [last |-> 0, file_changes |-> fs, pairs |-> ps]
      <3> HIDE DEF z, zz, n, fs, ps
      <3> QED
        BY <2>3, <2>4, <2>5
    <2>7. mined = [last |-> n, file_changes |-> fs, pairs |-> ps]
      <3> HIDE DEF n
      <3> QED
        BY <2>1 DEF CountsOf
    <2> HIDE DEF fs, ps
    <2>8. mined = [accumulate(NoCounts, SubSeq(log, 1, n)) EXCEPT !.last = n]
      BY <2>6, <2>7
    <2> QED
      BY <2>8 DEF CouplesAreEarned, MineInv
  <1> QED
    BY <1>1, <1>2, <1>3, PTL DEF MineSpec

-----------------------------------------------------------------------------
(* The receipts.                                                             *)

\* Stamps of some of the files.
Stamps == UNION {[S -> Nat] : S \in SUBSET Paths}
Passes == [files : Stamps, commit : Revisions]

\* The steps of an index.
Steps == {"build", "walk", "save", "meta"}

\* What is on disk, and what the indexer has read and written of it.
TreeOK ==
    /\ disk \in [Paths -> Nat] /\ HEAD \in Revisions
    /\ moves \in Nat /\ saves \in Nat
    /\ passes \in Seq(Passes) /\ done \in 0 .. Len(passes)

\* Between the walk and the end of an index HEAD is the commit that was read;
\* once the manifest is written it is that of this index.
IndexingOK ==
    /\ indexing \in {NotIndexing} \cup [step : Steps, full : BOOLEAN]
    /\ indexing.step \in {"save", "meta"} =>
          Len(passes) # 0 /\ passes[Len(passes)].commit = HEAD
    /\ indexing.step = "meta" => manifestFile.id = Len(passes)

\* The sidecars: the manifest holds what the pass it names read, and meta.json
\* names the last index that finished and the commit it read.
SidecarsOK ==
    /\ manifestFile.id \in 0 .. Len(passes)
    /\ manifestFile.id # 0 => manifestFile.files = passes[manifestFile.id].files
    /\ metaFile.there => /\ metaFile.manifest = done /\ done # 0
                         /\ metaFile.commit_sha = passes[done].commit

IndexInv == TreeOK /\ IndexingOK /\ SidecarsOK

\* Pass n was the last finished one at some moment of the check.
Current(n) == n \in 1 .. Len(passes) /\ \E s \in moments : s.done = n

Active == {"meta", "manifest", "stat"}

\* What the check has read so far is all about one index.
ReceiptOK ==
    /\ receipt.step \in {"idle", "done"} \cup Active
    /\ receipt.step \in Active => Moment \in moments
    /\ receipt.step = "manifest" =>
          /\ Current(receipt.meta.manifest)
          /\ receipt.meta.commit_sha = passes[receipt.meta.manifest].commit
    /\ receipt.step = "stat" =>
          /\ receipt \in [step : {"stat"}, files : Stamps, left : SUBSET Paths,
                          dirty : Nat, commit_sha : Revisions]
          /\ \E n \in Nat :
                /\ Current(n) /\ receipt.files = passes[n].files
                /\ receipt.commit_sha = passes[n].commit
          /\ receipt.dirty = 0 =>
                \A p \in DOMAIN receipt.files \ receipt.left :
                    \E s \in moments : s.disk[p] = receipt.files[p]
    /\ receipt.step = "done" /\ receipt.state = "fresh" =>
          \E n \in Nat :
            /\ Current(n)
            /\ \A p \in DOMAIN passes[n].files :
                  \E s \in moments : s.disk[p] = passes[n].files[p]
            /\ receipt.git => \E s \in moments : s.HEAD = passes[n].commit

FreshInv == IndexInv /\ ReceiptOK

-----------------------------------------------------------------------------
\* Two revisions none of which has a commit the other lacks are the same.
LEMMA NoDivergence ==
    ASSUME NEW r \in Revisions, NEW h \in Revisions,
           Cardinality(AncestorsOf[r] \ AncestorsOf[h])
             + Cardinality(AncestorsOf[h] \ AncestorsOf[r]) = 0
    PROVE  r = h
<1>1. /\ IsFiniteSet(AncestorsOf[r] \ AncestorsOf[h])
      /\ IsFiniteSet(AncestorsOf[h] \ AncestorsOf[r])
  BY FreshnessBounds, FS_Subset
<1>2. /\ Cardinality(AncestorsOf[r] \ AncestorsOf[h]) \in Nat
      /\ Cardinality(AncestorsOf[h] \ AncestorsOf[r]) \in Nat
  BY <1>1, FS_CardinalityType
<1>3. /\ Cardinality(AncestorsOf[r] \ AncestorsOf[h]) = 0
      /\ Cardinality(AncestorsOf[h] \ AncestorsOf[r]) = 0
  BY <1>2
<1>4. AncestorsOf[r] \ AncestorsOf[h] = {} /\ AncestorsOf[h] \ AncestorsOf[r] = {}
  BY <1>1, <1>3, FS_EmptySet
<1>5. r \in AncestorsOf[h] /\ h \in AncestorsOf[r]
  BY <1>4, FreshnessBounds
<1>6. QED
  BY <1>5, FreshnessBounds

\* An index under way goes from one of its steps to another.
LEMMA NextIndexStep ==
    ASSUME NEW x \in {NotIndexing} \cup [step : Steps, full : BOOLEAN], x.step # "idle",
           NEW st \in Steps
    PROVE  /\ [x EXCEPT !.step = st] \in [step : Steps, full : BOOLEAN]
           /\ [x EXCEPT !.step = st].step = st
<1>1. x \in [step : Steps, full : BOOLEAN]
  BY DEF NotIndexing
<1>2. QED
  BY <1>1

\* No step takes a pass back.
PassesGrow ==
    /\ Len(passes) <= Len(passes')
    /\ \A n \in 1 .. Len(passes) : passes'[n] = passes[n]

\* The steps of the tree and of the indexer.
TreeStep ==
    \/ \E r \in Revisions : Checkout(r)
    \/ \E p \in Paths : Save(p)
    \/ \E full \in BOOLEAN : do_index_codebase(full)
    \/ Build \/ Walk \/ manifest_save \/ manifest_save_fails \/ write_graph_meta \/ StopIndex

LEMMA TreeStepKeepsIndexInv ==
    ASSUME ~MovesInIndex, ~LostManifests, IndexInv, TreeStep
    PROVE  IndexInv' /\ PassesGrow /\ UNCHANGED receipt
<1> USE FreshnessBounds
<1>1. ASSUME NEW r \in Revisions, Checkout(r)
      PROVE  IndexInv' /\ PassesGrow /\ UNCHANGED receipt
  <2>1. TreeOK'
    BY <1>1 DEF IndexInv, TreeOK, Checkout, Clock
  <2>2. indexing.step = "idle" /\ UNCHANGED <<sidecars, indexing, receipt, passes, done>>
    BY <1>1 DEF Checkout
  <2>3. QED
    BY <2>1, <2>2 DEF IndexInv, IndexingOK, SidecarsOK, sidecars, PassesGrow, TreeOK
<1>2. ASSUME NEW p \in Paths, Save(p)
      PROVE  IndexInv' /\ PassesGrow /\ UNCHANGED receipt
  BY <1>2 DEF IndexInv, TreeOK, Save, Clock, IndexingOK, SidecarsOK, sidecars, PassesGrow
<1>3. ASSUME NEW full \in BOOLEAN, do_index_codebase(full)
      PROVE  IndexInv' /\ PassesGrow /\ UNCHANGED receipt
  BY <1>3 DEF IndexInv, TreeOK, do_index_codebase, IndexingOK, SidecarsOK, diskVars, PassesGrow,
              NotIndexing, Steps
<1>4. CASE Build
  <2>1. indexing' \in [step : Steps, full : BOOLEAN] /\ indexing'.step = "walk"
    BY <1>4, NextIndexStep DEF Build, IndexInv, IndexingOK, Steps
  <2>2. QED
    BY <1>4, <2>1 DEF IndexInv, TreeOK, Build, IndexingOK, SidecarsOK, diskVars, PassesGrow
<1>5. CASE Walk
  <2> DEFINE w == [files |-> [p \in {x \in Paths : disk[x] # 0} |-> disk[p]], commit |-> HEAD]
  <2>1. w \in Passes
    <3>1. {x \in Paths : disk[x] # 0} \in SUBSET Paths
      OBVIOUS
    <3>2. w.files \in [{x \in Paths : disk[x] # 0} -> Nat]
      BY DEF IndexInv, TreeOK
    <3>3. w.files \in Stamps
      BY <3>1, <3>2 DEF Stamps
    <3>4. HEAD \in Revisions
      BY DEF IndexInv, TreeOK
    <3>5. QED
      BY <3>3, <3>4 DEF Passes
  <2>2. w.commit = HEAD
    OBVIOUS
  <2>3. passes' = Append(passes, w)
    BY <1>5 DEF Walk
  <2> HIDE DEF w
  <2>4. /\ passes' \in Seq(Passes) /\ Len(passes') = Len(passes) + 1
        /\ passes'[Len(passes')] = w
        /\ PassesGrow
    BY <2>1, <2>3 DEF IndexInv, TreeOK, PassesGrow
  <2>5. TreeOK'
    BY <1>5, <2>4 DEF Walk, diskVars, IndexInv, TreeOK
  <2>6. IndexingOK'
    <3>1. indexing' \in [step : Steps, full : BOOLEAN] /\ indexing'.step = "save"
      BY <1>5, NextIndexStep DEF Walk, IndexInv, IndexingOK, Steps
    <3>2. QED
      BY <1>5, <2>2, <2>4, <3>1 DEF Walk, diskVars, IndexInv, TreeOK, IndexingOK
  <2>7. SidecarsOK'
    BY <1>5, <2>4 DEF Walk, sidecars, IndexInv, TreeOK, SidecarsOK, PassesGrow
  <2>8. QED
    BY <1>5, <2>4, <2>5, <2>6, <2>7 DEF Walk, IndexInv
<1>6. CASE manifest_save
  <2>1. indexing' \in [step : Steps, full : BOOLEAN] /\ indexing'.step = "meta"
    BY <1>6, NextIndexStep DEF manifest_save, IndexInv, IndexingOK, Steps
  <2>2. QED
    BY <1>6, <2>1 DEF IndexInv, TreeOK, manifest_save, IndexingOK, SidecarsOK, diskVars, PassesGrow
<1>7. CASE manifest_save_fails
  BY <1>7 DEF IndexInv, TreeOK, manifest_save_fails, IndexingOK, SidecarsOK, diskVars, PassesGrow,
              NotIndexing, Steps
<1>8. CASE write_graph_meta
  BY <1>8 DEF IndexInv, TreeOK, write_graph_meta, IndexingOK, SidecarsOK, diskVars, PassesGrow,
              NotIndexing, Steps
<1>9. CASE StopIndex
  BY <1>9 DEF IndexInv, TreeOK, StopIndex, IndexingOK, SidecarsOK, sidecars, diskVars, PassesGrow, NotIndexing
<1>10. QED
  BY <1>1, <1>2, <1>3, <1>4, <1>5, <1>6, <1>7, <1>8, <1>9 DEF TreeStep

\* What a check has seen stays seen, whatever the tree and the indexer do.
LEMMA ReceiptStaysOK ==
    ASSUME TreeOK, ReceiptOK, PassesGrow, UNCHANGED receipt, Witnessed
    PROVE  ReceiptOK'
<1>0. passes \in Seq(Passes)
  BY DEF TreeOK
<1>1. CASE receipt.step = "idle"
  BY <1>1 DEF ReceiptOK, Active
<1>2. CASE receipt.step # "idle"
  <2>1. moments \subseteq moments' /\ (receipt.step \in Active => Moment' \in moments')
    BY <1>2 DEF Witnessed, ReceiptOK, Active
  <2>2. \A n : Current(n) => Current(n)' /\ passes'[n] = passes[n]
    BY <1>0, <2>1 DEF Current, PassesGrow
  <2>3. receipt.step = "manifest" =>
          /\ Current(receipt.meta.manifest)'
          /\ receipt.meta.commit_sha = passes'[receipt.meta.manifest].commit
    BY <2>2 DEF ReceiptOK
  <2>4. ASSUME receipt.step = "stat"
        PROVE  /\ \E n \in Nat : /\ Current(n)' /\ receipt.files = passes'[n].files
                                 /\ receipt.commit_sha = passes'[n].commit
               /\ receipt.dirty = 0 =>
                    \A p \in DOMAIN receipt.files \ receipt.left :
                        \E s \in moments' : s.disk[p] = receipt.files[p]
    BY <2>1, <2>2, <2>4 DEF ReceiptOK
  <2>5. ASSUME receipt.step = "done", receipt.state = "fresh"
        PROVE  \E n \in Nat :
                 /\ Current(n)'
                 /\ \A p \in DOMAIN passes'[n].files :
                       \E s \in moments' : s.disk[p] = passes'[n].files[p]
                 /\ receipt.git => \E s \in moments' : s.HEAD = passes'[n].commit
    <3>1. PICK n \in Nat :
            /\ Current(n)
            /\ \A p \in DOMAIN passes[n].files :
                  \E s \in moments : s.disk[p] = passes[n].files[p]
            /\ receipt.git => \E s \in moments : s.HEAD = passes[n].commit
      BY <2>5 DEF ReceiptOK
    <3>2. Current(n)' /\ passes'[n] = passes[n]
      BY <2>2, <3>1
    <3>3. QED
      BY <2>1, <3>1, <3>2
  <2>6. QED
    BY <2>1, <2>3, <2>4, <2>5 DEF ReceiptOK
<1>3. QED
  BY <1>1, <1>2

\* A step of the check changes nothing but the check.
LEMMA CheckKeepsIndexInv ==
    ASSUME IndexInv, CheckStep
    PROVE  IndexInv' /\ Moment' = Moment
BY DEF CheckStep, IndexInv, TreeOK, IndexingOK, SidecarsOK, diskVars, sidecars, Moment

\* The reads of the sidecars.
LEMMA InputsKeepReceiptOK ==
    ASSUME IndexInv, ReceiptOK, CheckStep, Witnessed, admissible_inputs
    PROVE  ReceiptOK'
<1>1. Moment' = Moment /\ UNCHANGED <<passes, manifestFile, metaFile>>
  BY CheckKeepsIndexInv DEF CheckStep, sidecars
<1>2. CASE receipt.step = "idle"
  <2>1. receipt' = [step |-> "meta"] \/ receipt' = Reply("unknown")
    BY <1>2 DEF admissible_inputs
  <2>2. moments' = {Moment}
    BY <1>2, <2>1 DEF Witnessed, Reply
  <2>3. QED
    BY <1>1, <2>1, <2>2 DEF ReceiptOK, Active, Reply
<1>3. CASE receipt.step = "meta"
  <2>1. receipt' = Reply("unknown") \/ (metaFile.there /\ receipt' = [step |-> "manifest", meta |-> metaFile])
    BY <1>3 DEF admissible_inputs
  <2>2. moments' = moments \cup {Moment'}
    BY <1>3, <2>1 DEF Witnessed, Reply
  <2>3. CASE receipt' = Reply("unknown")
    BY <2>3 DEF ReceiptOK, Active, Reply
  <2>4. CASE metaFile.there /\ receipt' = [step |-> "manifest", meta |-> metaFile]
    <3>1. Moment'.done = done
      BY <1>1 DEF Moment
    <3>2. metaFile.manifest \in 1 .. Len(passes) /\ metaFile.manifest = done
          /\ metaFile.commit_sha = passes[done].commit
      BY <2>4 DEF IndexInv, TreeOK, SidecarsOK
    <3>3. Current(metaFile.manifest)'
      BY <1>1, <2>2, <3>1, <3>2 DEF Current
    <3>4. receipt'.step = "manifest" /\ receipt'.meta = metaFile
      BY <2>4
    <3>5. QED
      BY <1>1, <2>2, <3>2, <3>3, <3>4 DEF ReceiptOK, Active, Current
  <2>5. QED
    BY <2>1, <2>3, <2>4
<1>4. CASE receipt.step = "manifest"
  <2> DEFINE n == manifestFile.id
             stat == [step |-> "stat", files |-> manifestFile.files,
                      left |-> DOMAIN manifestFile.files, dirty |-> 0,
                      commit_sha |-> receipt.meta.commit_sha]
  <2>1. \/ receipt' = Reply("unknown")
        \/ n # 0 /\ describes_manifest(receipt.meta, n) /\ receipt' = stat
    BY <1>4 DEF admissible_inputs
  <2>2. moments' = moments \cup {Moment'}
    BY <1>4, <2>1 DEF Witnessed, Reply
  <2>3. CASE receipt' = Reply("unknown")
    BY <2>3 DEF ReceiptOK, Active, Reply
  <2>4. CASE n # 0 /\ describes_manifest(receipt.meta, n) /\ receipt' = stat
    <3>1. Current(n) /\ receipt.meta.commit_sha = passes[n].commit
      BY <1>4, <2>4 DEF ReceiptOK, describes_manifest
    <3>2. manifestFile.files = passes[n].files
      BY <2>4 DEF IndexInv, SidecarsOK
    <3>3. passes[n] \in Passes
      BY <3>1 DEF Current, IndexInv, TreeOK
    <3>4. passes[n].files \in Stamps /\ passes[n].commit \in Revisions
      BY <3>3 DEF Passes
    <3>5. DOMAIN passes[n].files \in SUBSET Paths
      BY <3>4 DEF Stamps
    <3>6. Current(n)' /\ n \in Nat
      BY <1>1, <2>2, <3>1 DEF Current
    <3>7. /\ receipt' \in [step : {"stat"}, files : Stamps, left : SUBSET Paths,
                          dirty : Nat, commit_sha : Revisions]
          /\ receipt'.step = "stat" /\ receipt'.files = passes[n].files
          /\ receipt'.left = DOMAIN receipt'.files /\ receipt'.commit_sha = passes[n].commit
      BY <2>4, <3>1, <3>2, <3>4, <3>5
    <3>8. QED
      BY <1>1, <2>2, <3>6, <3>7 DEF ReceiptOK, Active
  <2>5. QED
    BY <2>1, <2>3, <2>4
<1>5. QED
  BY <1>2, <1>3, <1>4 DEF admissible_inputs

\* One stat: a file that counts as clean had its recorded stamp now.
LEMMA CountKeepsReceiptOK ==
    ASSUME IndexInv, ReceiptOK, CheckStep, Witnessed, count_dirty
    PROVE  ReceiptOK'
<1>1. Moment' = Moment /\ UNCHANGED passes
  BY CheckKeepsIndexInv DEF CheckStep
<1>2. receipt.step = "stat" /\ receipt \in [step : {"stat"}, files : Stamps, left : SUBSET Paths,
                                            dirty : Nat, commit_sha : Revisions]
  BY DEF ReceiptOK, count_dirty
<1>3. PICK p \in receipt.left :
          receipt' = [receipt EXCEPT !.left = @ \ {p},
                                     !.dirty = IF disk[p] = receipt.files[p] THEN @ ELSE @ + 1]
  BY DEF count_dirty
<1>4. /\ receipt' \in [step : {"stat"}, files : Stamps, left : SUBSET Paths,
                       dirty : Nat, commit_sha : Revisions]
      /\ receipt'.step = "stat" /\ receipt'.files = receipt.files
      /\ receipt'.commit_sha = receipt.commit_sha
      /\ receipt'.left = receipt.left \ {p}
      /\ receipt'.dirty = IF disk[p] = receipt.files[p] THEN receipt.dirty ELSE receipt.dirty + 1
  <2> DEFINE l == receipt.left \ {p}
             d == IF disk[p] = receipt.files[p] THEN receipt.dirty ELSE receipt.dirty + 1
  <2>1. l \in SUBSET Paths /\ d \in Nat
    BY <1>2
  <2>2. receipt' = [receipt EXCEPT !.left = l, !.dirty = d]
    BY <1>2, <1>3
  <2> HIDE DEF l, d
  <2>3. /\ receipt' \in [step : {"stat"}, files : Stamps, left : SUBSET Paths,
                         dirty : Nat, commit_sha : Revisions]
        /\ receipt'.step = "stat" /\ receipt'.files = receipt.files
        /\ receipt'.commit_sha = receipt.commit_sha /\ receipt'.left = l /\ receipt'.dirty = d
    BY <1>2, <2>1, <2>2
  <2>4. QED
    BY <2>3 DEF l, d
<1>5. moments' = moments \cup {Moment'} /\ Moment.disk = disk
  BY <1>2, <1>4 DEF Witnessed, Moment
<1>6. ASSUME receipt'.dirty = 0
      PROVE  \A q \in DOMAIN receipt.files \ receipt'.left :
                 \E s \in moments' : s.disk[q] = receipt.files[q]
  <2>1. receipt.dirty = 0 /\ disk[p] = receipt.files[p]
    BY <1>2, <1>4, <1>6
  <2>2. QED
    BY <1>1, <1>2, <1>4, <1>5, <2>1 DEF ReceiptOK
<1>7. PICK n \in Nat : /\ Current(n) /\ receipt.files = passes[n].files
                       /\ receipt.commit_sha = passes[n].commit
  BY <1>2 DEF ReceiptOK
<1>8. Current(n)'
  BY <1>1, <1>5, <1>7 DEF Current
<1>9. QED
  BY <1>1, <1>4, <1>5, <1>6, <1>7, <1>8 DEF ReceiptOK, Active

\* The verdict: "fresh" says that no file differed and HEAD is where it was.
LEMMA VerdictKeepsReceiptOK ==
    ASSUME IndexInv, ReceiptOK, CheckStep, Witnessed, verdict
    PROVE  ReceiptOK'
<1>1. Moment' = Moment /\ UNCHANGED passes
  BY CheckKeepsIndexInv DEF CheckStep
<1>2. /\ receipt.step = "stat" /\ receipt.left = {}
      /\ receipt \in [step : {"stat"}, files : Stamps, left : SUBSET Paths,
                      dirty : Nat, commit_sha : Revisions]
  BY DEF ReceiptOK, verdict
<1>3. PICK d \in {commit_divergence(receipt.commit_sha, HEAD), <<>>} :
          receipt' = IF receipt.files = <<>> /\ d = <<>> THEN Reply("unknown")
                     ELSE [step |-> "done", git |-> d # <<>>,
                           state |-> IF receipt.dirty = 0 /\ ~(d # <<>> /\ d[1].ahead + d[1].behind > 0)
                                     THEN "fresh" ELSE "stale"]
  BY DEF verdict
<1>4. receipt'.step = "done"
  BY <1>3 DEF Reply
<1>5. moments' = moments \cup {Moment'}
  BY <1>2, <1>4 DEF Witnessed
<1>6. ASSUME receipt'.state = "fresh"
      PROVE  \E n \in Nat :
               /\ Current(n)'
               /\ \A p \in DOMAIN passes[n].files :
                     \E s \in moments' : s.disk[p] = passes[n].files[p]
               /\ receipt'.git => \E s \in moments' : s.HEAD = passes[n].commit
  <2>1. /\ receipt.dirty = 0
        /\ ~(d # <<>> /\ d[1].ahead + d[1].behind > 0)
        /\ receipt'.git <=> d # <<>>
    BY <1>3, <1>6 DEF Reply
  <2>2. PICK n \in Nat : /\ Current(n) /\ receipt.files = passes[n].files
                         /\ receipt.commit_sha = passes[n].commit
    BY <1>2 DEF ReceiptOK
  <2>3. Current(n)'
    BY <1>1, <1>5, <2>2 DEF Current
  <2>4. \A p \in DOMAIN passes[n].files : \E s \in moments' : s.disk[p] = passes[n].files[p]
    BY <1>2, <1>5, <2>1, <2>2 DEF ReceiptOK
  <2>5. ASSUME receipt'.git
        PROVE  Moment.HEAD = passes[n].commit
    <3>1. d = commit_divergence(receipt.commit_sha, HEAD) /\ d # <<>>
      BY <1>3, <2>1, <2>5
    <3> DEFINE a == Cardinality(AncestorsOf[receipt.commit_sha] \ AncestorsOf[HEAD])
               b == Cardinality(AncestorsOf[HEAD] \ AncestorsOf[receipt.commit_sha])
    <3>2. d[1].ahead = a /\ d[1].behind = b
      BY <3>1 DEF commit_divergence
    <3>3. receipt.commit_sha \in Revisions /\ HEAD \in Revisions
      BY <1>2 DEF IndexInv, TreeOK
    <3>4. a \in Nat /\ b \in Nat
      BY <3>3, FreshnessBounds, FS_Subset, FS_CardinalityType
    <3>5. a + b = 0
      <4> HIDE DEF a, b
      <4>1. QED
        BY <2>1, <3>1, <3>2, <3>4
    <3>6. receipt.commit_sha = HEAD
      BY <3>3, <3>5, NoDivergence
    <3>7. QED
      BY <2>2, <3>6 DEF Moment
  <2>6. QED
    BY <1>1, <1>5, <2>2, <2>3, <2>4, <2>5
<1>7. QED
  BY <1>1, <1>4, <1>6 DEF ReceiptOK, Active

LEMMA FreshStepKeepsInv ==
    ASSUME ~MovesInIndex, ~LostManifests, FreshInv, [FreshNext]_freshVars
    PROVE  FreshInv'
<1>1. CASE TreeStep /\ Witnessed
  BY <1>1, TreeStepKeepsIndexInv, ReceiptStaysOK DEF FreshInv, IndexInv
<1>2. CASE CheckStep /\ Witnessed
  <2>1. CASE Delivered
    <3>1. receipt'.step = "idle"
      BY <2>1 DEF Delivered, NoCheck
    <3>2. QED
      BY <1>2, <3>1, CheckKeepsIndexInv DEF FreshInv, ReceiptOK, Active
  <2>2. QED
    BY <1>2, <2>1, InputsKeepReceiptOK, CountKeepsReceiptOK, VerdictKeepsReceiptOK,
       CheckKeepsIndexInv DEF FreshInv, CheckStep
<1>3. CASE UNCHANGED freshVars
  BY <1>3 DEF freshVars, diskVars, sidecars, FreshInv, IndexInv, TreeOK, IndexingOK, SidecarsOK,
              ReceiptOK, Current, Moment
<1>4. QED
  BY <1>1, <1>2, <1>3 DEF FreshNext, TreeStep

\* A receipt that says "fresh" is about one index: no interleaving of the reads of
\* graph_freshness::check with a running index, an editor and a checkout mixes two of
\* them, when HEAD stands still while an index runs and a full index does write
\* its manifest.
THEOREM FreshReceiptsAreCurrent ==
    ASSUME ~MovesInIndex, ~LostManifests
    PROVE  FreshInit /\ [][FreshNext]_freshVars => []FreshIsCurrent
<1>1. FreshInit => FreshInv
  BY FreshnessBounds DEF FreshInit, FreshInv, IndexInv, TreeOK, IndexingOK, SidecarsOK, ReceiptOK,
     NotIndexing, NoCheck, Absent, Active
<1>2. FreshInv /\ [FreshNext]_freshVars => FreshInv'
  BY FreshStepKeepsInv
<1>3. FreshInv => FreshIsCurrent
  BY DEF FreshInv, ReceiptOK, FreshIsCurrent, Current
<1>4. QED
  BY <1>1, <1>2, <1>3, PTL

-----------------------------------------------------------------------------
(* Induction.  The provers cannot instantiate the library's theorem, which   *)
(* takes a predicate: here a set stands for it.                              *)

\* Of any numbers one is the least.
LEMMA LeastNumber ==
    ASSUME NEW T, T \subseteq Nat, T # {}
    PROVE  \E x \in T : \A y \in T : x <= y
  <1> DEFINE R == OpToRel(<, Nat)
  <1>1. IsWellFoundedOn(R, Nat)
    BY NatLessThanWellFounded
  <1>2. \A x, y \in Nat : y < x => <<y, x>> \in R
    BY DEF OpToRel
  <1> HIDE DEF R
  <1>3. PICK x \in T : \A y \in T : ~ (<<y, x>> \in R)
    BY <1>1, WFMin, Zenon
  <1>4. ASSUME NEW y \in T PROVE x <= y
    <2>1. x \in Nat /\ y \in Nat
      OBVIOUS
    <2>2. ~ (y < x)
      BY <1>2, <1>3, <2>1, Zenon
    <2> QED BY <2>1, <2>2
  <1> QED BY <1>4

\* A set of numbers that holds 0 and the successor of each of its members is all of them.
LEMMA Counting ==
    ASSUME NEW T, 0 \in T, \A n \in Nat : n \in T => n + 1 \in T
    PROVE  \A n \in Nat : n \in T
  <1> SUFFICES ASSUME NEW n \in Nat, n \notin T PROVE FALSE
    OBVIOUS
  <1> DEFINE Out == {k \in Nat : k \notin T}
  <1>1. PICK x \in Out : \A y \in Out : x <= y
    <2>1. Out \subseteq Nat /\ Out # {}
      OBVIOUS
    <2> HIDE DEF Out
    <2> QED BY <2>1, LeastNumber
  <1>2. x \in Nat /\ x # 0 /\ x \notin T
    BY <1>1
  <1>3. x - 1 \in Nat /\ ~ (x <= x - 1) /\ x = (x - 1) + 1
    BY <1>2
  <1>4. x - 1 \in T
    BY <1>1, <1>3
  <1> QED BY <1>2, <1>3, <1>4

\* Every sequence is empty or one with an element put at its end: what holds of the
\* empty one, and of one more element, holds of all.
LEMMA SequencesGrow ==
    ASSUME NEW S, NEW P, <<>> \in P,
           \A s \in Seq(S) : \A x \in S : s \in P => Append(s, x) \in P
    PROVE  Seq(S) \subseteq P
  <1> DEFINE T == {n \in Nat : \A s \in Seq(S) : Len(s) = n => s \in P}
  <1>1. 0 \in T
    <2>1. \A s \in Seq(S) : Len(s) = 0 => s = <<>>
      OBVIOUS
    <2> QED BY <2>1
  <1>2. ASSUME NEW n \in Nat, n \in T PROVE n + 1 \in T
    <2> SUFFICES ASSUME NEW s \in Seq(S), Len(s) = n + 1 PROVE s \in P
      OBVIOUS
    <2> DEFINE r == SubSeq(s, 1, n)
    <2>1. r \in Seq(S) /\ Len(r) = n /\ s[n + 1] \in S
      OBVIOUS
    <2>2. s = Append(r, s[n + 1])
      OBVIOUS
    <2> HIDE DEF r
    <2>3. r \in P
      BY <1>2, <2>1
    <2> QED BY <2>1, <2>2, <2>3
  <1> HIDE DEF T
  <1>3. \A n \in Nat : n \in T
    BY <1>1, <1>2, Counting
  <1> QED BY <1>3 DEF T

-----------------------------------------------------------------------------
(* The files of other programs.                                              *)

\* The prefixes of s filtered one after another.
Kept(f, n, s, keep) ==
    f = [i \in 0 .. n |->
            IF i = 0 THEN <<>>
            ELSE IF s[i] \in keep THEN Append(f[i - 1], s[i]) ELSE f[i - 1]]

LEMMA KeptExists ==
    ASSUME NEW s, NEW keep
    PROVE  \A n \in Nat : \E f : Kept(f, n, s, keep)
  <1> DEFINE T == {n \in Nat : \E f : Kept(f, n, s, keep)}
  <1>1. 0 \in T
    <2>1. Kept([i \in 0 .. 0 |-> <<>>], 0, s, keep)
      BY DEF Kept
    <2> QED BY <2>1
  <1>2. ASSUME NEW n \in Nat, n \in T PROVE n + 1 \in T
    <2>1. PICK f : Kept(f, n, s, keep)
      BY <1>2
    <2> DEFINE last == IF s[n + 1] \in keep THEN Append(f[n], s[n + 1]) ELSE f[n]
               g == [i \in 0 .. (n + 1) |-> IF i = n + 1 THEN last ELSE f[i]]
    <2>2. ASSUME NEW i \in 0 .. (n + 1)
          PROVE  g[i] = IF i = 0 THEN <<>>
                        ELSE IF s[i] \in keep THEN Append(g[i - 1], s[i]) ELSE g[i - 1]
      <3>1. CASE i = n + 1
        <4>1. g[i] = last /\ i - 1 = n /\ g[n] = f[n]
          BY <3>1
        <4> HIDE DEF g
        <4> QED BY <3>1, <4>1
      <3>2. CASE i # n + 1
        <4>1. i \in 0 .. n /\ g[i] = f[i]
          BY <3>2
        <4>2. i # 0 => g[i - 1] = f[i - 1]
          BY <3>2
        <4>3. f[i] = IF i = 0 THEN <<>>
                     ELSE IF s[i] \in keep THEN Append(f[i - 1], s[i]) ELSE f[i - 1]
          BY <2>1, <4>1 DEF Kept
        <4> HIDE DEF g
        <4> QED BY <4>1, <4>2, <4>3
      <3> QED BY <3>1, <3>2
    <2>3. Kept(g, n + 1, s, keep)
      <3>1. g = [i \in 0 .. (n + 1) |-> g[i]]
        OBVIOUS
      <3> HIDE DEF g
      <3> QED BY <2>2, <3>1 DEF Kept
    <2> QED BY <2>3
  <1> HIDE DEF T
  <1>3. \A n \in Nat : n \in T
    BY <1>1, <1>2, Counting
  <1> QED BY <1>3 DEF T

\* retain is the last of the filtered prefixes, and each of them follows from the one before.
LEMMA RetainUnfolds ==
    ASSUME NEW s, NEW keep, Len(s) \in Nat
    PROVE  \E f : Kept(f, Len(s), s, keep) /\ retain(s, keep) = f[Len(s)]
  <1> DEFINE f == CHOOSE h : Kept(h, Len(s), s, keep)
  <1>1. Kept(f, Len(s), s, keep)
    BY KeptExists
  <1>2. retain(s, keep) = f[Len(s)]
    BY DEF retain, Kept
  <1> QED BY <1>1, <1>2

LEMMA KeptStep ==
    ASSUME NEW s, NEW keep, NEW f, NEW m \in Nat, NEW i \in Nat, i + 1 <= m, Kept(f, m, s, keep)
    PROVE  f[i + 1] = IF s[i + 1] \in keep THEN Append(f[i], s[i + 1]) ELSE f[i]
  <1>1. i + 1 \in 0 .. m /\ i + 1 # 0 /\ (i + 1) - 1 = i
    OBVIOUS
  <1>2. f[i + 1] = IF s[i + 1] \in keep THEN Append(f[(i + 1) - 1], s[i + 1])
                                         ELSE f[(i + 1) - 1]
    BY <1>1, Zenon DEF Kept
  <1> QED BY <1>1, <1>2

\* The filtered prefixes of a sequence and of one with an element more are the same.
LEMMA KeptAgree ==
    ASSUME NEW s, NEW t, NEW keep, NEW f, NEW g, NEW n \in Nat,
           \A i \in 1 .. n : s[i] = t[i], Kept(f, n, s, keep), Kept(g, n + 1, t, keep)
    PROVE  f[n] = g[n]
  <1> DEFINE T == {i \in Nat : i <= n => f[i] = g[i]}
  <1>1. 0 \in T
    BY DEF Kept
  <1>2. ASSUME NEW i \in Nat, i \in T PROVE i + 1 \in T
    <2> SUFFICES ASSUME i + 1 <= n PROVE f[i + 1] = g[i + 1]
      OBVIOUS
    <2>1. f[i] = g[i] /\ s[i + 1] = t[i + 1]
      BY <1>2
    <2>2. f[i + 1] = IF s[i + 1] \in keep THEN Append(f[i], s[i + 1]) ELSE f[i]
      BY KeptStep
    <2>3. g[i + 1] = IF t[i + 1] \in keep THEN Append(g[i], t[i + 1]) ELSE g[i]
      BY KeptStep
    <2> QED BY <2>1, <2>2, <2>3
  <1> HIDE DEF T
  <1>3. n \in T
    BY <1>1, <1>2, Counting
  <1> QED BY <1>3 DEF T

LEMMA RetainEmpty ==
    ASSUME NEW keep PROVE retain(<<>>, keep) = <<>>
  <1>1. PICK f : Kept(f, Len(<<>>), <<>>, keep) /\ retain(<<>>, keep) = f[Len(<<>>)]
    BY RetainUnfolds
  <1> QED BY <1>1 DEF Kept

LEMMA RetainAppend ==
    ASSUME NEW S, NEW s \in Seq(S), NEW x \in S, NEW keep
    PROVE  retain(Append(s, x), keep)
             = IF x \in keep THEN Append(retain(s, keep), x) ELSE retain(s, keep)
  <1> DEFINE t == Append(s, x)
             n == Len(s)
  <1>1. n \in Nat /\ Len(t) = n + 1 /\ t[n + 1] = x /\ \A i \in 1 .. n : s[i] = t[i]
    OBVIOUS
  <1>2. PICK f : Kept(f, n, s, keep) /\ retain(s, keep) = f[n]
    BY <1>1, RetainUnfolds
  <1> HIDE DEF t, n
  <1>3. PICK g : Kept(g, n + 1, t, keep) /\ retain(t, keep) = g[n + 1]
    BY <1>1, RetainUnfolds
  <1>4. f[n] = g[n]
    <2>1. n \in Nat
      BY <1>1
    <2>2. \A i \in 1 .. n : s[i] = t[i]
      BY <1>1
    <2>3. Kept(f, n, s, keep)
      BY <1>2
    <2>4. Kept(g, n + 1, t, keep)
      BY <1>3
    <2> QED BY ONLY <2>1, <2>2, <2>3, <2>4, KeptAgree
  <1>5. g[n + 1] = IF t[n + 1] \in keep THEN Append(g[n], t[n + 1]) ELSE g[n]
    BY <1>1, <1>3, KeptStep
  <1>6. retain(t, keep) = IF x \in keep THEN Append(retain(s, keep), x) ELSE retain(s, keep)
    BY <1>1, <1>2, <1>3, <1>4, <1>5
  <1> QED BY <1>6 DEF t

LEMMA RetainType ==
    ASSUME NEW S, NEW s \in Seq(S), NEW keep
    PROVE  retain(s, keep) \in Seq(S)
  <1> DEFINE P == {q \in Seq(S) : retain(q, keep) \in Seq(S)}
  <1>1. <<>> \in P
    <2>1. <<>> \in Seq(S)
      OBVIOUS
    <2> QED BY <2>1, RetainEmpty
  <1>2. ASSUME NEW q \in Seq(S), NEW x \in S, q \in P PROVE Append(q, x) \in P
    <2>1. retain(Append(q, x), keep)
             = IF x \in keep THEN Append(retain(q, keep), x) ELSE retain(q, keep)
      BY RetainAppend
    <2>2. retain(q, keep) \in Seq(S) /\ Append(q, x) \in Seq(S)
      BY <1>2
    <2>3. retain(Append(q, x), keep) \in Seq(S)
      BY <2>1, <2>2
    <2> QED BY <2>2, <2>3
  <1> HIDE DEF P
  <1>3. s \in P
    BY <1>1, <1>2, SequencesGrow
  <1> QED BY <1>3 DEF P

\* Filtering what a wider filter has left is filtering at once.
LEMMA RetainNarrows ==
    ASSUME NEW S, NEW s \in Seq(S), NEW wide, NEW keep, keep \cap S \subseteq wide
    PROVE  retain(retain(s, wide), keep) = retain(s, keep)
  <1> DEFINE P == {q \in Seq(S) : retain(retain(q, wide), keep) = retain(q, keep)}
  <1>1. <<>> \in P
    <2>1. <<>> \in Seq(S)
      OBVIOUS
    <2> QED BY <2>1, RetainEmpty
  <1>2. ASSUME NEW q \in Seq(S), NEW x \in S, q \in P PROVE Append(q, x) \in P
    <2>1. retain(Append(q, x), wide)
             = IF x \in wide THEN Append(retain(q, wide), x) ELSE retain(q, wide)
      BY RetainAppend
    <2>2. retain(Append(q, x), keep)
             = IF x \in keep THEN Append(retain(q, keep), x) ELSE retain(q, keep)
      BY RetainAppend
    <2>3. retain(Append(retain(q, wide), x), keep)
             = IF x \in keep THEN Append(retain(retain(q, wide), keep), x)
                             ELSE retain(retain(q, wide), keep)
      BY RetainAppend, RetainType
    <2>4. retain(retain(q, wide), keep) = retain(q, keep) /\ Append(q, x) \in Seq(S)
      BY <1>2
    <2>5. retain(retain(Append(q, x), wide), keep) = retain(Append(q, x), keep)
      BY <2>1, <2>2, <2>3, <2>4
    <2> QED BY <2>4, <2>5
  <1> HIDE DEF P
  <1>3. s \in P
    BY <1>1, <1>2, SequencesGrow
  <1> QED BY <1>3 DEF P

Servers == UNION {[D -> Nat] : D \in SUBSET {"own", "other"}}

\* The files the commands meet when every file can be read: a new or blank file holds
\* nothing, and the root of a TOML file is a table.
ConfigFile ==
    {f \in [text : {"absent", "blank", "invalid", "other", "object"},
            cont : {"none", "table", "inline", "bad"}, servers : Servers] :
        f.text \in {"absent", "blank"} => DOMAIN f.servers = {}}

SettingsFile ==
    {f \in [text : {"absent", "blank", "invalid", "other", "object"},
            pre : {"none", "array", "bad"}, blocks : Seq(Seq(Nat))] :
        f.text \in {"absent", "blank"} => f.blocks = <<>>}

HostInv ==
    /\ config \in [Hosts -> ConfigFile]
    /\ \A h \in TomlHosts : config[h].text # "other"
    /\ settings \in SettingsFile
    /\ version \in Versions

\* What one command leaves of a configuration file.
ConfigKept(f, g) ==
    /\ f.text \in {"unreadable", "invalid", "other"} => g = f
    /\ Foreign(g.servers) = Foreign(f.servers)

SettingsKept(f, g) ==
    /\ f.text \in {"unreadable", "invalid", "other"} => g = f
    /\ retain(g.blocks, ForeignBlocks) = retain(f.blocks, ForeignBlocks)

LEMMA PutFacts ==
    ASSUME NEW s \in Servers, NEW v \in Versions
    PROVE  Put(s, v) \in Servers /\ Foreign(Put(s, v)) = Foreign(s)
  <1>1. PICK D \in SUBSET {"own", "other"} : s \in [D -> Nat]
    BY DEF Servers
  <1>2. v \in Nat
    BY DEF Versions
  <1>3. Put(s, v) \in [D \cup {"own"} -> Nat]
    BY <1>1, <1>2 DEF Put
  <1>4. D \cup {"own"} \in SUBSET {"own", "other"}
    OBVIOUS
  <1>5. Put(s, v) \in Servers
    BY <1>3, <1>4 DEF Servers
  <1>6. Foreign(Put(s, v)) = Foreign(s)
    <2>1. (DOMAIN Put(s, v)) \ {"own"} = (DOMAIN s) \ {"own"}
      BY DEF Put
    <2>2. \A n \in (DOMAIN s) \ {"own"} : Put(s, v)[n] = s[n]
      BY DEF Put
    <2> QED BY <2>1, <2>2 DEF Foreign
  <1> QED BY <1>5, <1>6

LEMMA DropFacts ==
    ASSUME NEW s \in Servers
    PROVE  Drop(s) \in Servers /\ Foreign(Drop(s)) = Foreign(s)
  <1>1. PICK D \in SUBSET {"own", "other"} : s \in [D -> Nat]
    BY DEF Servers
  <1>2. Drop(s) \in [D \ {"own"} -> Nat]
    BY <1>1 DEF Drop
  <1>3. D \ {"own"} \in SUBSET {"own", "other"}
    OBVIOUS
  <1>4. Drop(s) \in Servers
    BY <1>2, <1>3 DEF Servers
  <1>5. Foreign(Drop(s)) = Foreign(s)
    <2>1. (DOMAIN Drop(s)) \ {"own"} = (DOMAIN s) \ {"own"}
      BY DEF Drop
    <2>2. \A n \in (DOMAIN s) \ {"own"} : Drop(s)[n] = s[n]
      BY DEF Drop
    <2> QED BY <2>1, <2>2 DEF Foreign
  <1> QED BY <1>4, <1>5

\* A file written over a new one.
LEMMA FreshFacts ==
    ASSUME NEW f \in ConfigFile, NEW v \in Versions, f.text \in {"absent", "blank"}
    PROVE  /\ merge_install_fresh(f, v).is = "write"
           /\ merge_install_fresh(f, v).file \in ConfigFile
           /\ merge_install_fresh(f, v).file.text = "object"
           /\ ConfigKept(f, merge_install_fresh(f, v).file)
  <1> DEFINE own == [n \in {"own"} |-> v]
             new == [text |-> "object", cont |-> "table", servers |-> own]
  <1>1. own \in Servers
    <2>1. own \in [{"own"} -> Nat]
      BY DEF Versions
    <2>2. {"own"} \in SUBSET {"own", "other"}
      OBVIOUS
    <2> HIDE DEF own
    <2> QED BY <2>1, <2>2 DEF Servers
  <1>2. Foreign(own) = Foreign(f.servers)
    <2>1. DOMAIN f.servers = {}
      BY DEF ConfigFile
    <2>2. (DOMAIN own) \ {"own"} = {}
      OBVIOUS
    <2> HIDE DEF own
    <2> QED BY <2>1, <2>2 DEF Foreign
  <1>3. merge_install_fresh(f, v) = [is |-> "write", file |-> new]
    BY DEF merge_install_fresh, Write
  <1> HIDE DEF own
  <1>4. new \in ConfigFile /\ new.text = "object" /\ new.servers = own
    BY <1>1 DEF ConfigFile
  <1> HIDE DEF new
  <1>5. ConfigKept(f, new)
    BY <1>2, <1>4 DEF ConfigKept
  <1> QED BY <1>3, <1>4, <1>5

\* An outcome is safe for a file: nothing is written, or what is written keeps it.
Safe(h, f, outcome) ==
    \/ outcome.is \in {"same", "refuse"}
    \/ /\ outcome.is = "write"
       /\ outcome.file \in ConfigFile
       /\ h \in TomlHosts => outcome.file.text # "other"
       /\ ConfigKept(f, outcome.file)

LEMMA InstallIsSafe ==
    ASSUME NEW h \in Hosts, NEW f \in ConfigFile, NEW v \in Versions,
           h \in TomlHosts => f.text # "other"
    PROVE  Safe(h, f, merge_install(h, f, v))
  <1>1. existing(f) = f.text /\ f.text \in {"absent", "blank", "invalid", "other", "object"}
    BY DEF existing, ConfigFile
  <1>2. CASE f.text \in {"absent", "blank"}
    <2>1. merge_install(h, f, v) = merge_install_fresh(f, v)
      BY <1>1, <1>2 DEF merge_install, merge_install_json, merge_install_toml
    <2> QED BY <1>2, <2>1, FreshFacts DEF Safe
  <1>3. CASE f.text \in {"invalid", "other"}
    <2>1. merge_install(h, f, v) = Refuse
      BY <1>1, <1>3 DEF merge_install, merge_install_json, merge_install_toml
    <2> QED BY <2>1 DEF Safe, Refuse
  <1>4. CASE f.text = "object"
    <2>1. ASSUME NEW c \in {"none", "table", "inline", "bad"}
          PROVE  Safe(h, f, Write([f EXCEPT !.cont = c, !.servers = Put(@, v)]))
      <3> DEFINE g == [f EXCEPT !.cont = c, !.servers = Put(@, v)]
      <3>1. g.text = "object" /\ g.servers = Put(f.servers, v) /\ f.servers \in Servers
        BY <1>4 DEF ConfigFile
      <3>2. g \in ConfigFile
        BY <1>4, <3>1, PutFacts DEF ConfigFile
      <3> HIDE DEF g
      <3>3. ConfigKept(f, g)
        BY <1>4, <3>1, PutFacts DEF ConfigKept
      <3>4. Safe(h, f, Write(g))
        BY <3>1, <3>2, <3>3 DEF Safe, Write
      <3> QED BY <3>4 DEF g
    <2>2. Safe(h, f, Same) /\ Safe(h, f, Refuse)
      BY DEF Safe, Same, Refuse
    <2>3. f.cont \in {"none", "table", "inline", "bad"}
      BY DEF ConfigFile
    <2>4. CASE h \in TomlHosts
      <3> DEFINE c == IF f.cont = "none" THEN "table" ELSE f.cont
      <3>1. \/ merge_install(h, f, v) = Same
            \/ merge_install(h, f, v) = Write([f EXCEPT !.cont = c, !.servers = Put(@, v)])
        BY <1>1, <1>4, <2>4 DEF merge_install, merge_install_toml
      <3>2. c \in {"none", "table", "inline", "bad"}
        BY <2>3
      <3> HIDE DEF c
      <3> QED BY <2>1, <2>2, <3>1, <3>2
    <2>5. CASE h \notin TomlHosts
      <3>1. \/ merge_install(h, f, v) \in {Same, Refuse}
            \/ merge_install(h, f, v)
                 = Write([f EXCEPT !.cont = "table", !.servers = Put(@, v)])
        BY <1>1, <1>4, <2>5 DEF merge_install, merge_install_json
      <3> QED BY <2>1, <2>2, <3>1
    <2> QED BY <2>4, <2>5
  <1> QED BY <1>1, <1>2, <1>3, <1>4

LEMMA UninstallIsSafe ==
    ASSUME NEW h \in Hosts, NEW f \in ConfigFile, f.text # "absent",
           h \in TomlHosts => f.text # "other"
    PROVE  Safe(h, f, merge_uninstall(h, f))
  <1>1. f.text \in {"blank", "invalid", "other", "object"}
    BY DEF ConfigFile
  <1>2. \/ merge_uninstall(h, f) \in {Same, Refuse}
        \/ /\ f.text = "object"
           /\ merge_uninstall(h, f) = Write([f EXCEPT !.servers = Drop(@)])
    BY <1>1 DEF merge_uninstall, merge_uninstall_json, merge_uninstall_toml
  <1>3. Safe(h, f, Same) /\ Safe(h, f, Refuse)
    BY DEF Safe, Same, Refuse
  <1>4. ASSUME f.text = "object"
        PROVE  Safe(h, f, Write([f EXCEPT !.servers = Drop(@)]))
    <2> DEFINE g == [f EXCEPT !.servers = Drop(@)]
    <2>1. g.text = "object" /\ g.servers = Drop(f.servers) /\ f.servers \in Servers
      BY <1>4 DEF ConfigFile
    <2>2. g \in ConfigFile
      BY <1>4, <2>1, DropFacts DEF ConfigFile
    <2> HIDE DEF g
    <2>3. ConfigKept(f, g)
      BY <1>4, <2>1, DropFacts DEF ConfigKept
    <2>4. Safe(h, f, Write(g))
      BY <2>1, <2>2, <2>3 DEF Safe, Write
    <2> QED BY <2>4 DEF g
  <1> QED BY <1>2, <1>3, <1>4

SafeSettings(f, outcome) ==
    \/ outcome.is \in {"same", "refuse"}
    \/ /\ outcome.is = "write"
       /\ outcome.file \in SettingsFile
       /\ SettingsKept(f, outcome.file)

\* A block of ours alone is no block of someone else, and what someone else keeps is
\* never a block of ours alone.
LEMMA BlocksApart ==
    /\ \A v \in Versions : <<v>> \in Seq(Nat) /\ <<v>> \notin ForeignBlocks
    /\ ForeignBlocks \cap Seq(Nat) \subseteq NotOnlyOurs
  <1>1. ASSUME NEW v \in Versions
        PROVE  <<v>> \in Seq(Nat) /\ <<v>> \notin ForeignBlocks
    <2>1. v \in Nat /\ v # Users /\ DOMAIN <<v>> = 1 .. 1 /\ <<v>>[1] = v
      BY DEF Versions, Users
    <2> QED BY <2>1 DEF ForeignBlocks
  <1>2. ForeignBlocks \cap Seq(Nat) \subseteq NotOnlyOurs
    BY DEF ForeignBlocks, NotOnlyOurs, is_our_hook_command, Users, Versions
  <1> QED BY <1>1, <1>2

LEMMA OwnBlockIsOwn ==
    ASSUME NEW bs \in Seq(Seq(Nat)), NEW v \in Versions
    PROVE  /\ Append(bs, <<v>>) \in Seq(Seq(Nat))
           /\ retain(Append(bs, <<v>>), ForeignBlocks) = retain(bs, ForeignBlocks)
  <1> DEFINE S == Seq(Nat)
             b == <<v>>
  <1>1. bs \in Seq(S) /\ b \in S /\ b \notin ForeignBlocks
    BY BlocksApart
  <1> HIDE DEF S, b
  <1>2. Append(bs, b) \in Seq(S)
    BY <1>1
  <1>3. retain(Append(bs, b), ForeignBlocks) = retain(bs, ForeignBlocks)
    BY <1>1, RetainAppend
  <1> QED BY <1>2, <1>3 DEF S, b

LEMMA HookInstallIsSafe ==
    ASSUME NEW f \in SettingsFile, NEW v \in Versions
    PROVE  SafeSettings(f, merge_hook_install(f, v))
  <1>1. existing(f) = f.text /\ f.text \in {"absent", "blank", "invalid", "other", "object"}
    BY DEF existing, SettingsFile
  <1>2. f.blocks \in Seq(Seq(Nat)) /\ <<v>> \in Seq(Nat) /\ <<v>> \notin ForeignBlocks
    BY BlocksApart DEF SettingsFile
  <1>3. SafeSettings(f, Same) /\ SafeSettings(f, Refuse)
    BY DEF SafeSettings, Same, Refuse
  <1>4. CASE f.text \in {"absent", "blank"}
    <2> DEFINE g == [text |-> "object", pre |-> "array", blocks |-> <<<<v>>>>]
    <2>1. merge_hook_install(f, v) = Write(g)
      BY <1>1, <1>4 DEF merge_hook_install
    <2>2. g \in SettingsFile /\ g.blocks = <<<<v>>>>
      BY <1>2 DEF SettingsFile
    <2>3. f.blocks = <<>> /\ <<<<v>>>> = Append(<<>>, <<v>>) /\ <<>> \in Seq(Seq(Nat))
      BY <1>4 DEF SettingsFile
    <2> HIDE DEF g
    <2>4. retain(g.blocks, ForeignBlocks) = retain(f.blocks, ForeignBlocks)
      BY <2>2, <2>3, OwnBlockIsOwn
    <2>5. SettingsKept(f, g)
      BY <1>4, <2>4 DEF SettingsKept
    <2> QED BY <2>1, <2>2, <2>5 DEF SafeSettings, Write
  <1>5. CASE f.text \in {"invalid", "other"}
    <2>1. merge_hook_install(f, v) = Refuse
      BY <1>1, <1>5 DEF merge_hook_install
    <2> QED BY <1>3, <2>1
  <1>6. CASE f.text = "object"
    <2> DEFINE g == [f EXCEPT !.pre = "array", !.blocks = Append(@, <<v>>)]
    <2>1. merge_hook_install(f, v) \in {Same, Refuse} \/ merge_hook_install(f, v) = Write(g)
      BY <1>1, <1>6 DEF merge_hook_install
    <2>2. g.text = "object" /\ g.blocks = Append(f.blocks, <<v>>)
      BY <1>6 DEF SettingsFile
    <2>3. g \in SettingsFile
      <3>1. Append(f.blocks, <<v>>) \in Seq(Seq(Nat))
        BY <1>2, OwnBlockIsOwn
      <3> QED BY <1>6, <3>1 DEF SettingsFile
    <2> HIDE DEF g
    <2>4. retain(g.blocks, ForeignBlocks) = retain(f.blocks, ForeignBlocks)
      BY <1>2, <2>2, OwnBlockIsOwn
    <2>5. SettingsKept(f, g)
      BY <1>6, <2>4 DEF SettingsKept
    <2>6. SafeSettings(f, Write(g))
      BY <2>3, <2>5 DEF SafeSettings, Write
    <2> QED BY <1>3, <2>1, <2>6
  <1> QED BY <1>1, <1>4, <1>5, <1>6

LEMMA HookUninstallIsSafe ==
    ASSUME NEW f \in SettingsFile
    PROVE  SafeSettings(f, merge_hook_uninstall(f))
  <1> DEFINE kept == retain(f.blocks, NotOnlyOurs)
             g == [f EXCEPT !.blocks = kept]
  <1>1. SafeSettings(f, Same) /\ SafeSettings(f, Refuse)
    BY DEF SafeSettings, Same, Refuse
  <1>2. \/ merge_hook_uninstall(f) \in {Same, Refuse}
        \/ f.text = "object" /\ merge_hook_uninstall(f) = Write(g)
    <2>1. CASE f.text # "object"
      BY <2>1 DEF merge_hook_uninstall
    <2>2. CASE f.text = "object" /\ f.pre # "array"
      BY <2>2 DEF merge_hook_uninstall
    <2>3. CASE f.text = "object" /\ f.pre = "array"
      BY <2>3 DEF merge_hook_uninstall
    <2> QED BY <2>1, <2>2, <2>3
  <1>3. f.blocks \in Seq(Seq(Nat))
    BY DEF SettingsFile
  <1>4. kept \in Seq(Seq(Nat))
    BY <1>3, RetainType
  <1>5. retain(kept, ForeignBlocks) = retain(f.blocks, ForeignBlocks)
    BY <1>3, BlocksApart, RetainNarrows
  <1> HIDE DEF kept
  <1>6. ASSUME f.text = "object" PROVE SafeSettings(f, Write(g))
    <2>1. g.text = "object" /\ g.blocks = kept
      BY <1>6 DEF SettingsFile
    <2>2. g \in SettingsFile
      BY <1>4, <1>6 DEF SettingsFile
    <2> HIDE DEF g
    <2>3. SettingsKept(f, g)
      BY <1>5, <1>6, <2>1 DEF SettingsKept
    <2> QED BY <2>2, <2>3 DEF SafeSettings, Write
  <1> HIDE DEF g
  <1> QED BY <1>1, <1>2, <1>6

\* What a command makes of one file.
LEMMA ConfigAfter ==
    ASSUME NEW h \in Hosts, NEW f \in ConfigFile, NEW outcome, NEW o, NEW fate \in Fates,
           Safe(h, f, outcome), h \in TomlHosts => f.text # "other", ~TornWrites
    PROVE  /\ apply(f, outcome, o, fate) \in ConfigFile
           /\ h \in TomlHosts => apply(f, outcome, o, fate).text # "other"
           /\ ConfigKept(f, apply(f, outcome, o, fate))
  BY DEF apply, Fates, Safe, ConfigKept

LEMMA SettingsAfter ==
    ASSUME NEW f \in SettingsFile, NEW outcome, NEW o, NEW fate \in Fates,
           SafeSettings(f, outcome), ~TornWrites
    PROVE  /\ apply(f, outcome, o, fate) \in SettingsFile
           /\ SettingsKept(f, apply(f, outcome, o, fate))
  BY DEF apply, Fates, SafeSettings, SettingsKept

\* What a command makes of every file.
FilesKept ==
    /\ \A h \in Hosts :
          /\ config[h].text \in {"unreadable", "invalid", "other"} => config'[h] = config[h]
          /\ Foreign(config'[h].servers) = Foreign(config[h].servers)
    /\ settings.text \in {"unreadable", "invalid", "other"} => settings' = settings
    /\ retain(settings'.blocks, ForeignBlocks) = retain(settings.blocks, ForeignBlocks)

LEMMA CommandKeeps ==
    ASSUME HostInv, config' = [h \in Hosts |-> config'[h]],
           version' \in Versions,
           \A h \in Hosts : /\ config'[h] \in ConfigFile
                            /\ h \in TomlHosts => config'[h].text # "other"
                            /\ ConfigKept(config[h], config'[h]),
           settings' \in SettingsFile, SettingsKept(settings, settings')
    PROVE  HostInv' /\ FilesKept
  <1>1. config' \in [Hosts -> ConfigFile]
    OBVIOUS
  <1>2. HostInv'
    BY <1>1, HostKinds DEF HostInv
  <1>3. FilesKept
    BY DEF FilesKept, ConfigKept, SettingsKept
  <1> QED BY <1>2, <1>3

LEMMA InstallKeeps ==
    ASSUME HostInv, ~TornWrites, NEW o \in Options, NEW fates \in [Hosts -> Fates],
           NEW hook \in Fates, run_install(o, fates, hook)
    PROVE  HostInv' /\ FilesKept
  <1> DEFINE C(h) == IF selected(h, o)
                     THEN apply(config[h], merge_install(h, config[h], version), o, fates[h])
                     ELSE config[h]
  <1>1. config' = [h \in Hosts |-> C(h)] /\ settings' = HookInstalled(o, hook) /\ version' = version
    BY DEF run_install, Installed
  <1>2. version \in Versions
    BY DEF HostInv
  <1>3. ASSUME NEW h \in Hosts
        PROVE  /\ C(h) \in ConfigFile
               /\ h \in TomlHosts => C(h).text # "other"
               /\ ConfigKept(config[h], C(h))
    <2>1. config[h] \in ConfigFile /\ (h \in TomlHosts => config[h].text # "other")
      BY DEF HostInv
    <2>2. ConfigKept(config[h], config[h])
      BY DEF ConfigKept
    <2>3. Safe(h, config[h], merge_install(h, config[h], version))
      BY <1>2, <2>1, InstallIsSafe
    <2>4. CASE selected(h, o)
      BY <2>1, <2>3, <2>4, ConfigAfter
    <2>5. CASE ~selected(h, o)
      BY <2>1, <2>2, <2>5
    <2> QED BY <2>4, <2>5
  <1>4. HookInstalled(o, hook) \in SettingsFile /\ SettingsKept(settings, HookInstalled(o, hook))
    <2>1. settings \in SettingsFile /\ SettingsKept(settings, settings)
      BY DEF HostInv, SettingsKept
    <2>2. SafeSettings(settings, merge_hook_install(settings, version))
      BY <1>2, <2>1, HookInstallIsSafe
    <2> QED BY <2>1, <2>2, SettingsAfter DEF HookInstalled
  <1>5. version' \in Versions
    BY <1>1, <1>2
  <1> HIDE DEF C
  <1>6. config' = [h \in Hosts |-> config'[h]] /\ \A h \in Hosts : config'[h] = C(h)
    BY <1>1
  <1>7. \A h \in Hosts : /\ config'[h] \in ConfigFile
                         /\ h \in TomlHosts => config'[h].text # "other"
                         /\ ConfigKept(config[h], config'[h])
    BY <1>3, <1>6
  <1>8. settings' \in SettingsFile /\ SettingsKept(settings, settings')
    BY <1>1, <1>4
  <1> QED BY <1>5, <1>6, <1>7, <1>8, CommandKeeps

LEMMA UninstallKeeps ==
    ASSUME HostInv, ~TornWrites, NEW o \in Options, NEW fates \in [Hosts -> Fates],
           NEW hook \in Fates, run_uninstall(o, fates, hook)
    PROVE  HostInv' /\ FilesKept
  <1> DEFINE Chosen(h) == /\ o.only = {} \/ h \in o.only
                          /\ h \notin o.skip
                          /\ config[h].text \notin {"absent", "unreadable"}
             C(h) == IF Chosen(h)
                     THEN apply(config[h], merge_uninstall(h, config[h]), o, fates[h])
                     ELSE config[h]
             S == IF settings.text \in {"absent", "unreadable"}
                  THEN settings
                  ELSE apply(settings, merge_hook_uninstall(settings), o, hook)
  <1>1. config' = [h \in Hosts |-> C(h)] /\ settings' = S /\ version' = version
    BY DEF run_uninstall
  <1>2. version \in Versions
    BY DEF HostInv
  <1>3. ASSUME NEW h \in Hosts
        PROVE  /\ C(h) \in ConfigFile
               /\ h \in TomlHosts => C(h).text # "other"
               /\ ConfigKept(config[h], C(h))
    <2>1. config[h] \in ConfigFile /\ (h \in TomlHosts => config[h].text # "other")
      BY DEF HostInv
    <2>2. ConfigKept(config[h], config[h])
      BY DEF ConfigKept
    <2>3. CASE Chosen(h)
      <3>1. config[h].text # "absent"
        BY <2>3
      <3>2. Safe(h, config[h], merge_uninstall(h, config[h]))
        BY <2>1, <3>1, UninstallIsSafe
      <3> QED BY <2>1, <2>3, <3>2, ConfigAfter
    <2>4. CASE ~Chosen(h)
      BY <2>1, <2>2, <2>4
    <2> QED BY <2>3, <2>4
  <1>4. S \in SettingsFile /\ SettingsKept(settings, S)
    <2>1. settings \in SettingsFile /\ SettingsKept(settings, settings)
      BY DEF HostInv, SettingsKept
    <2>2. SafeSettings(settings, merge_hook_uninstall(settings))
      BY <2>1, HookUninstallIsSafe
    <2> QED BY <2>1, <2>2, SettingsAfter
  <1>5. version' \in Versions
    BY <1>1, <1>2
  <1> HIDE DEF C, S
  <1>6. config' = [h \in Hosts |-> config'[h]] /\ \A h \in Hosts : config'[h] = C(h)
    BY <1>1
  <1>7. \A h \in Hosts : /\ config'[h] \in ConfigFile
                         /\ h \in TomlHosts => config'[h].text # "other"
                         /\ ConfigKept(config[h], config'[h])
    BY <1>3, <1>6
  <1>8. settings' \in SettingsFile /\ SettingsKept(settings, settings')
    BY <1>1, <1>4
  <1> QED BY <1>5, <1>6, <1>7, <1>8, CommandKeeps

LEMMA HostInitHolds ==
    ASSUME HostInit, UnreadableFiles = FALSE
    PROVE  HostInv
  <1>1. FileTexts = {"absent", "blank", "invalid", "object"}
    BY DEF FileTexts
  <1>2. NoServers \in Servers /\ DOMAIN NoServers = {} /\ UsersServer \in Servers
    <2>1. NoServers \in [{} -> Nat] /\ UsersServer \in [{"other"} -> Nat]
      BY DEF NoServers, UsersServer, Users
    <2>2. {} \in SUBSET {"own", "other"} /\ {"other"} \in SUBSET {"own", "other"}
      OBVIOUS
    <2> QED BY <2>1, <2>2 DEF Servers
  <1>3. ASSUME NEW h \in Hosts, NEW f \in ConfigFiles(h)
        PROVE  f \in ConfigFile /\ (h \in TomlHosts => f.text # "other")
    BY <1>1, <1>2 DEF ConfigFiles, ConfigFile
  <1>4. config \in [Hosts -> ConfigFile] /\ \A h \in TomlHosts : config[h].text # "other"
    <2>1. DOMAIN config = Hosts /\ config = [h \in Hosts |-> config[h]]
          /\ \A h \in Hosts : config[h] \in ConfigFiles(h)
      BY DEF HostInit
    <2> QED BY <1>3, <2>1, HostKinds
  <1>5. settings \in SettingsFile
    <2>1. ASSUME NEW t \in {"absent", "blank", "invalid", "object", "other"}
          PROVE  [text |-> t, pre |-> "none", blocks |-> <<>>] \in SettingsFile
      BY DEF SettingsFile
    <2>2. [text |-> "object", pre |-> "bad", blocks |-> <<>>] \in SettingsFile
      BY DEF SettingsFile
    <2>3. ASSUME NEW b \in Seq(Seq(Nat))
          PROVE  [text |-> "object", pre |-> "array", blocks |-> b] \in SettingsFile
      BY DEF SettingsFile
    <2>4. <<<<Users>>>> \in Seq(Seq(Nat)) /\ <<<<Users, Users>>, <<Users>>>> \in Seq(Seq(Nat))
      BY DEF Users
    <2> QED BY <1>1, <2>1, <2>2, <2>3, <2>4 DEF HostInit, SettingsFiles
  <1>6. version \in Versions
    BY DEF HostInit, Versions
  <1> QED BY <1>4, <1>5, <1>6 DEF HostInv

\* No install, uninstall or upgrade, in any order and with any options, touches a file
\* that could not be made sense of, or loses a server or a hook of someone else: for
\* any set of hosts in any initial condition, wherever a command stops between two files,
\* as long as every file can be read and a write that fails has not truncated its file.
THEOREM HostFilesSurvive ==
    ASSUME UnreadableFiles = FALSE, ~TornWrites
    PROVE  HostSpec => FilesAreNotClobbered
  <1>1. HostInit => HostInv
    BY HostInitHolds
  <1>2. HostInv /\ [HostNext]_hostVars => HostInv' /\ [FilesKept]_hostVars
    <2> SUFFICES ASSUME HostInv, [HostNext]_hostVars PROVE HostInv' /\ [FilesKept]_hostVars
      OBVIOUS
    <2>1. CASE UNCHANGED hostVars
      BY <2>1 DEF hostVars, HostInv
    <2>2. ASSUME NEW o \in Options, NEW fates \in [Hosts -> Fates], NEW hook \in Fates,
                 run_install(o, fates, hook)
          PROVE  HostInv' /\ FilesKept
      BY <2>2, InstallKeeps
    <2>3. ASSUME NEW o \in Options, NEW fates \in [Hosts -> Fates], NEW hook \in Fates,
                 run_uninstall(o, fates, hook)
          PROVE  HostInv' /\ FilesKept
      BY <2>3, UninstallKeeps
    <2>4. CASE Upgrade
      BY <2>4 DEF Upgrade, HostInv, FilesKept
    <2> QED BY <2>1, <2>2, <2>3, <2>4 DEF HostNext
  <1> QED BY <1>1, <1>2, PTL DEF HostSpec, FilesAreNotClobbered, FilesKept
=============================================================================
