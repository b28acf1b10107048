---------------------------- MODULE CargoScope ----------------------------
(***************************************************************************)
(* What Cargo says of every indexed Rust file: whether a target compiles   *)
(* it, under which features, from which kind of target, and whether the    *)
(* default build keeps it.  Four walks of the same module tree answer, one *)
(* per question (src/indexer/cargo_attribution.rs, cargo_targets.rs,       *)
(* feature_gated.rs, file_scope.rs, target_context.rs, cfg_active.rs).     *)
(*                                                                         *)
(* A package W is a record:                                                *)
(*   manifest  whether a Cargo.toml sits at the root                       *)
(*   metadata  whether `cargo metadata` succeeds                           *)
(*   disk      the Rust files on disk, indexed those the walk collected    *)
(*   packages  a set of [features : name -> set of entries, targets : set  *)
(*             of [entry, kind]], what `cargo metadata` prints             *)
(*   dirs      file -> the directories that hold it, the root left out     *)
(*   home      file -> its own directory, "" for the root                  *)
(*   decls     file -> the sequence of its `mod name;` declarations, each  *)
(*             [name, parsed, cfg, at, alts]: cfg a set of leaves (meant   *)
(*             as `all`), at the files the name or a `#[path]` may stand   *)
(*             for, in order, alts a sequence of [pred, parsed,            *)
(*             at], one per `cfg_attr(pred, path = ..)`, pred a leaf       *)
(* A leaf is [feature, key, value]: a feature or an option, and whether it *)
(* is required on or off (`not(..)`).                                      *)
(***************************************************************************)
EXTENDS Naturals, Sequences, FiniteSets, SequencesExt

\* What the pairs of R reach from the set S.
RECURSIVE Reached(_, _)
Reached(R, S) ==
    LET next == S \cup {p[2] : p \in {q \in R : q[1] \in S}}
    IN  IF next = S THEN S ELSE Reached(R, next)

---------------------------------------------------------------------------
(* Predicates, read in three values                                        *)

True == 2
Unknown == 1
False == 0

NEVER_SET_BY_A_PLAIN_BUILD == {"kani", "miri", "doc", "doctest"}

\* What a build says of one leaf.  `eval` decides features alone, `eval_in`
\* the default profile, which also knows the options no plain build sets.
leaf_truth(leaf, features, options) ==
    LET said == IF leaf.feature THEN IF leaf.key \in features THEN True ELSE False
                ELSE IF leaf.key \in options THEN False ELSE Unknown
    IN  IF leaf.value THEN said ELSE 2 - said

fold(gate, features, options) ==
    IF \E l \in gate : leaf_truth(l, features, options) = False THEN False
    ELSE IF \E l \in gate : leaf_truth(l, features, options) = Unknown THEN Unknown
    ELSE True

eval(gate, features) == fold(gate, features, {})

eval_in(gate, features) == fold(gate, features, NEVER_SET_BY_A_PLAIN_BUILD)

\* Only a positive bare option, as it is or as a member of an `all`.
requires_option(decl, key) ==
    decl.parsed /\ \E l \in decl.cfg : ~l.feature /\ l.key = key /\ l.value

---------------------------------------------------------------------------
(* cargo metadata                                                          *)

\* The feature an entry of `[features]` turns on: an entry is
\* [name, form], form one of "plain", "dep", "dep/feature", "dep?/feature".
enabled_feature(e) == IF e.form \in {"dep", "dep?/feature"} THEN {} ELSE {e.name}

default_closure(features) ==
    LET turns == {<<f, g>> \in (DOMAIN features) \X (DOMAIN features) :
                      \E e \in features[f] : g \in enabled_feature(e)}
    IN  IF "default" \notin DOMAIN features THEN {}
        ELSE Reached(turns, {"default"})

\* Crate roots, target files and target directories: the directory of an
\* entry at the root of the tree does not become a target directory.
crate_roots(W) ==
    UNION {{[entry |-> t.entry, kind |-> t.kind, features |-> default_closure(p.features)] :
                t \in p.targets} : p \in W.packages}

target_files(W) == {c.entry : c \in crate_roots(W)}

target_dirs(W) == {W.home[f] : f \in target_files(W) \cap DOMAIN W.home} \ {""}

in_target_dir(W, f) == W.dirs[f] \cap target_dirs(W) # {}

---------------------------------------------------------------------------
(* Declarations and the files they name                                    *)

\* One declaration per `cfg_attr(.., path = ..)`, then the declaration
\* itself under the negation of all of them.
alternatives(decl) ==
    LET alts == decl.alts
        others == {[alts[i].pred EXCEPT !.value = ~@] : i \in DOMAIN alts}
    IN  [i \in DOMAIN alts |->
            [decl EXCEPT !.cfg = @ \cup {alts[i].pred}, !.parsed = @ /\ alts[i].parsed,
                         !.at = alts[i].at, !.alts = <<>>]]
        \o << [decl EXCEPT !.cfg = @ \cup others, !.alts = <<>>,
                           !.parsed = @ /\ \A i \in DOMAIN alts : alts[i].parsed] >>

\* The first file the declaration may stand for that exists, "" for none.
module_file(decl, exists) ==
    IF \E i \in DOMAIN decl.at : decl.at[i] \in exists
    THEN decl.at[CHOOSE i \in DOMAIN decl.at :
                    /\ decl.at[i] \in exists
                    /\ \A j \in 1..(i - 1) : decl.at[j] \notin exists]
    ELSE ""

\* The declarations of a file that resolve, each with its file.
declared_children(W, file, exists) ==
    LET all == FlattenSeq([i \in DOMAIN W.decls[file] |-> alternatives(W.decls[file][i])])
        named == [i \in DOMAIN all |-> [decl |-> all[i], target |-> module_file(all[i], exists)]]
    IN  SelectSeq(named, LAMBDA c : c.target # "")

\* The tree the four analyses walk: the indexed files, the crate roots whose
\* entry is one, and the children of every file in declaration order.
ModuleTree(W) ==
    [files |-> W.indexed, roots |-> {c \in crate_roots(W) : c.entry \in W.indexed},
     children |-> [f \in W.indexed |-> declared_children(W, f, W.indexed)]]

\* The files some declaration of f names, of those that Follow(decl) keeps.
Declared(kids, f, Follow(_)) == {c.target : c \in {k \in ToSet(kids[f]) : Follow(k.decl)}}

Pairs(kids, Follow(_)) == UNION {{<<f, g>> : g \in Declared(kids, f, Follow)} : f \in DOMAIN kids}

Always(decl) == TRUE

---------------------------------------------------------------------------
(* cargo_targets: outside every target                                     *)

\* Every file on disk some crate root reaches, through any declaration.
reached_on_disk(W) ==
    Reached(Pairs([f \in W.disk |-> declared_children(W, f, W.disk)], Always),
            target_files(W) \cap W.disk)

with_module_files(W) == {f \in reached_on_disk(W) : ~in_target_dir(W, f)}

\* The indexed files of which the map knows that no target holds them.
is_outside_targets(W) ==
    LET compiled == target_files(W) \cup with_module_files(W)
    IN  {f \in W.indexed : f \notin compiled /\ ~in_target_dir(W, f)}

---------------------------------------------------------------------------
(* feature_gated: which features reach a file                              *)

gate(decl, features) == IF decl.parsed THEN eval(decl.cfg, features) ELSE Unknown

\* The files one crate root compiles: every declaration its default features
\* do not refute is followed.  `seeds` are the targets of the refuted ones.
walk_live(M, root) ==
    LET follows(decl) == gate(decl, root.features) # False
        refuted(decl) == gate(decl, root.features) = False
        live == Reached(Pairs(M.children, follows), {root.entry})
    IN  [live |-> live, features |-> root.features,
         seeds |-> UNION {Declared(M.children, f, refuted) : f \in live}]

\* Mutant: a path that is live does not save a file.
propagate_gated_anyway(M, walks) == UNION {x.seeds : x \in walks}

\* Everything a refuted declaration reaches, unless another path is live.
propagate_gated(M, walks) ==
    LET dead == M.files \ UNION {x.live : x \in walks}
        kids == [f \in dead |-> SelectSeq(M.children[f], LAMBDA c : c.target \in dead)]
    IN  Reached(Pairs(kids, Always), UNION {x.seeds : x \in walks} \cap dead)

\* What is known of the features of every file: compiled out, the one set
\* every crate root that reaches it enables, a disagreement, or nothing.
file_features(M) ==
    LET walks == {walk_live(M, r) : r \in M.roots}
        gated == propagate_gated(M, walks)
        sets(f) == {x.features : x \in {y \in walks : f \in y.live}}
    IN  [f \in M.files |->
            IF f \in gated THEN [is |-> "compiled_out", on |-> {}]
            ELSE IF sets(f) = {} THEN [is |-> "none", on |-> {}]
            ELSE IF Cardinality(sets(f)) = 1
                 THEN [is |-> "enabled", on |-> CHOOSE s \in sets(f) : TRUE]
            ELSE [is |-> "disagree", on |-> {}]]

---------------------------------------------------------------------------
(* file_scope: the gate and the module path of a file                      *)

\* The way into the file a declaration names: the names on the path, the
\* gates met, and whether all of them parsed.
way_child(way, c) ==
    [file |-> c.target, path |-> Append(way.path, c.decl.name),
     cfg |-> way.cfg \cup c.decl.cfg, parsed |-> way.parsed /\ c.decl.parsed]

reach(way, features) ==
    [path |-> way.path, gate |-> way.cfg, parsed |-> way.parsed,
     truth |-> IF way.parsed THEN eval_in(way.cfg, features) ELSE Unknown]

\* The walk of one crate root: the last way pushed is taken first, and a
\* second way into a file under the module path of the first is dropped.
RECURSIVE descend(_, _, _)
descend(M, root, st) ==
    IF st.pending = <<>> THEN st.reaches
    ELSE LET way == Last(st.pending)
             rest == Front(st.pending)
             kids == [i \in DOMAIN M.children[way.file] |-> way_child(way, M.children[way.file][i])]
         IN  descend(M, root,
                IF <<way.file, way.path>> \in st.seen THEN [st EXCEPT !.pending = rest]
                ELSE [pending |-> rest \o kids, seen |-> st.seen \cup {<<way.file, way.path>>},
                      reaches |-> st.reaches \cup {<<way.file, reach(way, root.features)>>}])

\* The best of all ways is the verdict of a file; one no crate root reaches
\* has none.  (The module path and the gate, kept for a file with one way in,
\* are read by the resolver: see RustPaths.)
scope(ways, compiled_out) ==
    IF ways = {} THEN "none"
    ELSE IF compiled_out \/ \A x \in ways : x.truth = False THEN "inactive"
    ELSE IF \E x \in ways : x.truth = True THEN "active"
    ELSE "unknown"

file_scope(M, known) ==
    LET start(r) == [file |-> r.entry, path |-> <<r.entry>>, cfg |-> {}, parsed |-> TRUE]
        reaches == UNION {descend(M, r, [pending |-> <<start(r)>>, seen |-> {}, reaches |-> {}]) :
                          r \in M.roots}
    IN  [f \in M.files |-> scope({x[2] : x \in {y \in reaches : y[1] = f}},
                                 known[f].is = "compiled_out")]

---------------------------------------------------------------------------
(* cfg_active: a `#[cfg]` twin of a file                                    *)

decide(gates, known) ==
    CASE known.is \in {"none", "disagree"} -> "unknown"
      [] known.is = "compiled_out" -> "inactive"
      [] known.is = "enabled" ->
            LET t == eval_in(gates, known.on)
            IN  IF t = True THEN "active" ELSE IF t = False THEN "inactive" ELSE "unknown"

\* The verdict of a twin: its file's own is read first.
write(active, known, gates) ==
    IF active = "inactive" THEN "inactive" ELSE decide(gates, known)

---------------------------------------------------------------------------
(* target_context: production, test, bench, example or proof               *)

below(class, decl) ==
    IF requires_option(decl, "test") THEN "test"
    ELSE IF requires_option(decl, "kani") THEN "proof"
    ELSE class

Classes == {"production", "test", "bench", "example", "proof"}

\* The classes of the paths that reach every file.
classes(M) ==
    LET steps == UNION {{<<<<f, k>>, <<c.target, below(k, c.decl)>>>> :
                            k \in Classes, c \in ToSet(M.children[f])} : f \in M.files}
    IN  Reached(steps, {<<r.entry, r.kind>> : r \in M.roots})

decide_context(found) ==
    IF "production" \in found THEN "production"
    ELSE IF Cardinality(found) = 1 THEN CHOOSE k \in found : TRUE
    ELSE ""

\* The crate roots whose tree holds the file: its `crate` names each of them.
owners(M, f) == {r.entry : r \in {c \in M.roots : f \in Reached(Pairs(M.children, Always), {c.entry})}}

---------------------------------------------------------------------------
(* One attribution                                                         *)

status(W) ==
    IF ~W.manifest \/ W.indexed = {} THEN "not_applicable"
    ELSE IF ~W.metadata THEN "unknown"
    ELSE "known"

contexts(M, reached) ==
    [f \in M.files |-> decide_context({x[2] : x \in {y \in reached : y[1] = f}})]

attributed_tree(W, M, known) ==
    [status |-> "known", outside |-> is_outside_targets(W), features |-> known,
     active |-> file_scope(M, known), context |-> contexts(M, classes(M)),
     owners |-> [f \in M.files |-> owners(M, f)]]

attributed(W) == attributed_tree(W, ModuleTree(W), file_features(ModuleTree(W)))

\* Nothing is said without a map.
attribute(W) ==
    IF status(W) = "known" THEN attributed(W)
    ELSE [status |-> status(W), outside |-> {},
          features |-> [f \in W.indexed |-> [is |-> "none", on |-> {}]],
          active |-> [f \in W.indexed |-> "none"], context |-> [f \in W.indexed |-> ""],
          owners |-> [f \in W.indexed |-> {}]]

---------------------------------------------------------------------------
(* Correctness                                                             *)

\* What a target compiles for certain, or may: some chain of declarations
\* from its entry holds, or is not refuted, under its package's default
\* profile.
Compiled(M, root, least) ==
    LET holds(decl) == least <= IF decl.parsed THEN eval_in(decl.cfg, root.features) ELSE Unknown
    IN  Reached(Pairs(M.children, holds), {root.entry})

\* The files a library or binary reaches without asking for `test` or `kani`.
Ships(M) ==
    LET plain(decl) == ~requires_option(decl, "test") /\ ~requires_option(decl, "kani")
    IN  Reached(Pairs(M.children, plain),
                {r.entry : r \in {c \in M.roots : c.kind = "production"}})

Fast == {[feature |-> TRUE, key |-> "fast", value |-> TRUE]}

SaidOfFile(M, said, may, must, ships, f) ==
    LET out == \/ f \in said.outside \/ said.active[f] = "inactive"
               \/ said.features[f].is = "compiled_out"
    IN  /\ out => f \notin may
        /\ said.active[f] = "active" => f \in must
        /\ said.context[f] = "production" <=> f \in ships
        /\ f \in said.outside => said.owners[f] = {}
        /\ \A r \in M.roots : f \in Compiled(M, r, True) =>
                write(said.active[f], said.features[f], Fast)
                    \in {"unknown", IF "fast" \in r.features THEN "active" ELSE "inactive"}

SaidOfTree(M, said, may, must, ships) ==
    \A f \in M.files : SaidOfFile(M, said, may, must, ships, f)

VerdictsHold(W, M, said) ==
    IF said.status = "known"
    THEN SaidOfTree(M, said, UNION {Compiled(M, r, Unknown) : r \in M.roots},
                    UNION {Compiled(M, r, True) : r \in M.roots}, Ships(M))
    ELSE /\ said.outside = {}
         /\ \A f \in W.indexed : write(said.active[f], said.features[f], Fast) = "unknown"

\* Property.  What the attribution says of a file is true of the default
\* build: a file outside every target, behind a refuted feature or inactive
\* is compiled by no target of the package, an active one by some; a file is
\* `production` exactly when a library or binary reaches it without asking
\* for `test` or `kani`; a twin it calls active is compiled wherever its file
\* is, and a map that was not read says nothing.
CargoVerdictsHold(W) == VerdictsHold(W, ModuleTree(W), attribute(W))
===========================================================================
