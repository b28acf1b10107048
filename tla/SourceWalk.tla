----------------------------- MODULE SourceWalk -----------------------------
(***************************************************************************)
(* What the indexer reads, and what it says it did not read                *)
(* (src/indexer/walk.rs, indexer/coverage.rs, incremental/coverage.rs).    *)
(* The walk enters directories and collects files under the caller's       *)
(* options; everything left out is named in the coverage report, which a   *)
(* full index writes, a refresh merges with the previous one, and the      *)
(* language-server pass adds to.  The caps on depth, files and bytes that  *)
(* fail a whole run are left out.                                          *)
(*                                                                         *)
(* A tree is a function from paths, sequences of names, to entries         *)
(*   is      "dir" | "file" | "link"                                       *)
(*   repo    a directory with a .git of its own                            *)
(*   locked  a directory read_dir is denied                                *)
(*   big     over MAX_FILE_BYTES                                           *)
(*   ext     "rs" | "h" | "" (no language)                                 *)
(*   parse   for every language filter "clean" | "partial" | "skipped" |   *)
(*           "quarantined": only the grammar of a .h depends on the filter *)
(*   iac     the gap the infrastructure pass reports: "none" | "partial" | *)
(*           "skipped"                                                     *)
(* and has no entry below a link.  What a pass leaves on the disk for the  *)
(* next one is [manifest, present, report]: the files as it read them, and *)
(* its report if it could be saved.  Options are [scope, filter, exclude]: *)
(* the dependency scope, the language filter ("" when there is none), and  *)
(* the entries of exclude_dirs, each [sep, parts] with the names it is     *)
(* made of and whether it was written with a separator.  What Cargo says   *)
(* is [known, outside, gated], the Rust files outside its targets and the  *)
(* ones the default features leave out.                                    *)
(***************************************************************************)
EXTENDS Naturals, Sequences, FiniteSets, SequencesExt

\* A case README.md describes in which the report is not what its comments say.
CONSTANT
    Oversized  \* whether the report answers for a file over the size cap

Filters == {"", "rust", "c", "cpp", "objc"}

Vcs == ".git"
ArtifactDirs == {".ai-architect"}
DependencyDirNames == {"target", "vendor"}

---------------------------------------------------------------------------
(* The walk                                                                *)

descends_into_dependencies(scope) == scope # "none"

should_skip(name, scope) ==
    \/ name = Vcs
    \/ name \in ArtifactDirs
    \/ ~descends_into_dependencies(scope) /\ name \in DependencyDirNames

prune_reason(name) ==
    CASE name = Vcs -> "vcs"
      [] name \in ArtifactDirs -> "tool_artifact"
      [] OTHER -> "dependency_or_build_dir"

\* An entry of exclude_dirs is a bare name, which matches anywhere, or with a
\* separator a path from the root, normalised by dropping its "." parts.
ExcludeSet(entries) ==
    [names |-> {e.parts[1] : e \in {x \in entries : ~x.sep}},
     paths |-> {SelectSeq(e.parts, LAMBDA p : p # ".") : e \in {x \in entries : x.sep}}]

matches(ex, path) == Last(path) \in ex.names \/ path \in ex.paths

\* A `.h` belongs to every C-like walk.
filter_keeps(filter, ext) ==
    IF ext = "h" THEN filter \in {"c", "cpp", "objc"} ELSE filter = "rust" /\ ext = "rs"

\* What the walk does with an entry it meets: the checks in their order.
visit_entry(T, O, path) ==
    LET e == T[path] IN
    IF e.is = "dir" /\ e.repo THEN "nested_repository"
    ELSE IF should_skip(Last(path), O.scope) THEN "pruned"
    ELSE IF e.is = "link" THEN "ignored"
    ELSE IF e.is = "dir"
         THEN IF matches(ExcludeSet(O.exclude), path) THEN "excluded"
              ELSE IF e.locked THEN "unreadable" ELSE "entered"
    ELSE IF e.big THEN "ignored"
    ELSE IF O.filter = "" \/ filter_keeps(O.filter, e.ext) THEN "kept" ELSE "filtered"

Above(path) == {SubSeq(path, 1, n) : n \in 1..(Len(path) - 1)}

\* The entries met are those below directories that were all entered.
collect_source_files(T, O) ==
    LET fate == [p \in DOMAIN T |-> visit_entry(T, O, p)]
        met == {p \in DOMAIN T : \A a \in Above(p) : fate[a] = "entered"}
        of(what) == {p \in met : fate[p] = what}
    IN  [files |-> of("kept"),
         excluded_dirs |-> of("excluded"),
         unreadable_dirs |-> of("unreadable"),
         pruned_dirs |-> [p \in of("pruned") \cup of("nested_repository") |->
                            IF fate[p] = "pruned" THEN prune_reason(Last(p)) ELSE fate[p]]]

---------------------------------------------------------------------------
(* Collecting a report.  `files` maps a path to the kind of its gap.       *)

NoGaps == [p \in {} |-> ""]

\* The entries of both, those of the first where they meet.
Over(first, second) ==
    [p \in (DOMAIN first) \cup (DOMAIN second) |->
        IF p \in DOMAIN first THEN first[p] ELSE second[p]]

\* BTreeMap::insert for the kinds of a parse, entry().or_insert for the kinds
\* an analysis of Cargo's or of the language server's adds.
insert_all(files, ps, kind) == Over([p \in ps |-> kind], files)

\* Mutant: a weaker kind replaces the stronger one.
insert_over(files, ps, kind) == insert_all(files, ps, kind)
or_insert_all(files, ps, kind) == Over(files, [p \in ps |-> kind])

\* Both callers record the walk's own gaps before any file's.
record_walk(walk) ==
    insert_all(insert_all(NoGaps, walk.excluded_dirs, "skipped"), walk.unreadable_dirs, "skipped")

record_outcome(files, T, filter, ps) ==
    insert_all(insert_all(insert_all(files,
        {p \in ps : T[p].parse[filter] = "partial"}, "parse_partial"),
        {p \in ps : T[p].parse[filter] = "skipped"}, "skipped"),
        {p \in ps : T[p].parse[filter] = "quarantined"}, "quarantined")

fold_iac_gaps(files, T, ps) ==
    insert_all(insert_all(files,
        {p \in ps : T[p].iac = "partial"}, "parse_partial"),
        {p \in ps : T[p].iac = "skipped"}, "skipped")

\* Only when Cargo answered, and only for Rust files.
record_cargo_attributions(files, T, ps, cargo) ==
    LET rust == {p \in ps : cargo.known /\ T[p].ext = "rs"}
    IN  or_insert_all(or_insert_all(files, rust \cap cargo.outside, "outside_build_targets"),
                      rust \cap cargo.gated, "feature_gated")

index_walked(T, filter, walk, cargo) ==
    [files |-> record_cargo_attributions(
                  fold_iac_gaps(record_outcome(record_walk(walk), T, filter, walk.files),
                                T, walk.files),
                  T, walk.files, cargo),
     pruned_dirs |-> walk.pruned_dirs,
     files_indexed |-> Cardinality({p \in walk.files : T[p].parse[filter] \in {"clean", "partial"}})]

index_full(T, O, cargo) == index_walked(T, O.filter, collect_source_files(T, O), cargo)

NoReport == [files |-> NoGaps, pruned_dirs |-> NoGaps, files_indexed |-> 0]

next_manifest(T, walk) == [p \in walk.files |-> T[p]]

\* The manifest, then the report, whose save may fail or never be reached.
persist_full_index_sidecars(T, O, cargo, lost) ==
    [manifest |-> next_manifest(T, collect_source_files(T, O)),
     present |-> "index" \notin lost,
     report |-> IF "index" \in lost THEN NoReport ELSE index_full(T, O, cargo)]

---------------------------------------------------------------------------
(* A refresh, from the report and the manifest of the last one             *)

counts(files, kind) == Cardinality({p \in DOMAIN files : files[p] = kind})

\* The kinds that another file can change are never carried forward.
Recomputed == {"outside_build_targets", "unlinked_file", "feature_gated"}

merge_coverage(prior, gaps, reparsed, current) ==
    Over(gaps, [p \in {q \in DOMAIN prior.files : /\ q \in current \ reparsed
                                                  /\ prior.files[q] \notin Recomputed} |->
                prior.files[p]])

\* Cargo's findings over the whole tree, since another file may change them.
overlay_cargo_attributions(files, T, ps, cargo) == record_cargo_attributions(files, T, ps, cargo)

refresh_merged(T, walk, cargo, merged) ==
    LET lost == counts(merged, "skipped") + counts(merged, "quarantined")
    IN  [files |-> overlay_cargo_attributions(merged, T, walk.files, cargo),
         pruned_dirs |-> walk.pruned_dirs,
         files_indexed |-> IF lost > Cardinality(walk.files) THEN 0
                           ELSE Cardinality(walk.files) - lost]

refresh_reparsed(prior, T, filter, walk, cargo, reparsed) ==
    refresh_merged(T, walk, cargo,
        merge_coverage(prior,
            Over(record_walk(walk),
                 fold_iac_gaps(record_outcome(NoGaps, T, filter, reparsed), T, reparsed)),
            reparsed, walk.files))

classify(manifest, T, walk) ==
    {p \in walk.files : p \notin DOMAIN manifest \/ manifest[p] # T[p]}

refresh_walked(disk, T, filter, walk, cargo) ==
    refresh_reparsed(disk.report, T, filter, walk, cargo, classify(disk.manifest, T, walk))

\* The manifest first, then the report; a report that cannot be saved leaves the old one.
index_incremental(disk, T, O, cargo, lost) ==
    LET walk == collect_source_files(T, O)
    IN  [manifest |-> next_manifest(T, walk),
         present |-> disk.present \/ "refresh" \notin lost,
         report |-> IF "refresh" \in lost THEN disk.report
                    ELSE refresh_walked(disk, T, O.filter, walk, cargo)]

\* lsp_resolve: the files rust-analyzer calls unlinked.
merge_unlinked(report, unlinked) ==
    [report EXCEPT !.files = or_insert_all(@, unlinked, "unlinked_file")]

\* It never invents a report.
merge_into_sidecar(disk, unlinked) ==
    IF disk.present THEN [disk EXCEPT !.report = merge_unlinked(@, unlinked)] ELSE disk

Kinds == {"parse_partial", "skipped", "quarantined"} \cup Recomputed

\* What a caller is told: every bucket counted in full and listed to the cap.
coverage_summary(report, cap) ==
    [k \in Kinds |->
        [count |-> counts(report.files, k),
         listed |-> LET own == {p \in DOMAIN report.files : report.files[p] = k}
                    IN  IF Cardinality(own) > cap THEN cap ELSE Cardinality(own)]]

---------------------------------------------------------------------------
(* Correctness                                                             *)

Named(report, path) ==
    \E p \in Above(path) \cup {path} : p \in DOMAIN report.files \cup DOMAIN report.pruned_dirs

\* A regular file the caller's filter keeps; links and filtered files are left out on
\* purpose and never named, and neither is a file over the size cap.
Wanted(T, O, p) ==
    /\ T[p].is = "file" /\ (T[p].big => Oversized)
    /\ O.filter = "" \/ filter_keeps(O.filter, T[p].ext)

ReportIsHonest(T, O, disk, full, said) ==
    /\ disk.report.files = full.files
    /\ disk.report.pruned_dirs = full.pruned_dirs
    /\ \A p \in DOMAIN T : Wanted(T, O, p) => p \in DOMAIN disk.manifest \/ Named(disk.report, p)
    /\ \A p \in DOMAIN disk.manifest : T[p].parse[O.filter] \in {"skipped", "quarantined"}
          => disk.report.files[p] = T[p].parse[O.filter]
    /\ said["parse_partial"].count + said["skipped"].count + said["quarantined"].count
          + said["outside_build_targets"].count + said["unlinked_file"].count
          + said["feature_gated"].count = Cardinality(DOMAIN disk.report.files)

RefreshIsHonest(T, O, disk, full) ==
    ReportIsHonest(T, O, disk, full, coverage_summary(disk.report, 1))

\* What a full pass over the tree of w, the language server's findings and a refresh over
\* the tree of q leave.
Refreshed(w, q) ==
    index_incremental(
        merge_into_sidecar(persist_full_index_sidecars(w.T, w.O, w.c, q.lost), q.u),
        q.T, q.O, q.c, q.lost)

\* Property.  A refresh under the filter of the pass before, whose report was saved,
\* reports what a full index of the tree would, though it read only what changed, a
\* directory became excluded, locked or a repository since, Cargo answered differently
\* or the language server had added its own findings; every regular file under the size
\* cap that the filter keeps is in the graph, or it or a directory above it is named; a
\* file whose parse failed keeps that kind whatever Cargo says of it; and the counts of
\* the buckets add up to the report, listed or not.
CoverageIsHonest(w, q) ==
    RefreshIsHonest(q.T, q.O, Refreshed(w, q), index_full(q.T, q.O, q.c))
===========================================================================
