-------------------------------- MODULE Diffs --------------------------------
(***************************************************************************)
(* The three tools that compare: verify_semantic_diff over two graphs      *)
(* (src/src/semantic_diff.rs), detect_changes over a unified diff          *)
(* (src/src/git_diff.rs) and the version spine of index_history            *)
(* (src/src/history/mod.rs).  Pure operators.                              *)
(***************************************************************************)
EXTENDS Integers, Sequences, FiniteSets, SequencesExt, Relation

-----------------------------------------------------------------------------
(* Two graphs.  A graph is [nodes, edges, unresolved]: a node is a label    *)
(* and a qualified name, an edge a kind and its two nodes, and unresolved   *)
(* the number of imports without a target.                                  *)
DIFFABLE_LABELS == {"Function", "Method", "Struct", "Enum", "Trait", "Module",
                    "Constant", "TypeAlias"}
label_declares_qualified_name ==
    DIFFABLE_LABELS \cup {"Variant", "Version", "IacResource", "IacModule"}

collect_nodes(G) == {n \in G.nodes : n.label \in DIFFABLE_LABELS}
collect_edges(G) ==
    {<<e.from.name, e.kind, e.to.name>> :
        e \in {x \in G.edges : {x.from.label, x.to.label}
                                  \subseteq label_declares_qualified_name}}

Names(nodes) == {n.name : n \in nodes}
diff_nodes(before, after) == [added |-> after \ before, removed |-> before \ after]
diff_edges(before, after) == [added |-> after \ before, removed |-> before \ after]
compute_dangling(nodes, edges) == {e \in edges : e[3] \notin Names(nodes)}

\* Tarjan's algorithm, one step of its work stack at a time.  The frontier of
\* a node is the set of neighbours it has still to look at; which one comes
\* first does not matter to what is found.
Unseen == -1
build_adjacency(nodes, edges) ==
    [v \in Names(nodes) |-> {w \in Names(nodes) \ {v} : \E e \in edges : e[1] = v /\ e[3] = w}]

visit(s, v, adj) ==
    [s EXCEPT !.index[v] = s.counter, !.lowlink[v] = s.counter,
              !.counter = @ + 1, !.stack = Append(@, v),
              !.work = Append(@, [node |-> v, left |-> adj[v]])]

pop_scc(s, v) ==
    LET k == CHOOSE i \in DOMAIN s.stack : s.stack[i] = v
    IN [s EXCEPT !.stack = SubSeq(@, 1, k - 1),
                 !.result = @ \cup {ToSet(SubSeq(s.stack, k, Len(s.stack)))}]

Lower(s, v, k) == [s EXCEPT !.lowlink[v] = IF k < @ THEN k ELSE @]

\* Variant: a node that left the stack still lowers the one that sees it.
meet_any(s, v, w) == Lower(s, v, s.index[w])
meet(s, v, w) == IF w \in ToSet(s.stack) THEN Lower(s, v, s.index[w]) ELSE s

dfs_step(s, adj) ==
    LET top == Last(s.work)
        v   == top.node
    IN IF top.left # {}
       THEN LET w == CHOOSE x \in top.left : TRUE
                t == [s EXCEPT !.work[Len(s.work)].left = @ \ {w}]
            IN IF s.index[w] = Unseen THEN visit(t, w, adj) ELSE meet(t, v, w)
       ELSE LET t == [s EXCEPT !.work = Front(@)]
                u == IF s.lowlink[v] = s.index[v] THEN pop_scc(t, v) ELSE t
            IN IF u.work = <<>> THEN u ELSE Lower(u, Last(u.work).node, s.lowlink[v])

RECURSIVE dfs_iterative(_, _)
dfs_iterative(s, adj) == IF s.work = <<>> THEN s ELSE dfs_iterative(dfs_step(s, adj), adj)

RECURSIVE tarjan_from(_, _)
tarjan_from(s, adj) ==
    LET roots == {v \in DOMAIN adj : s.index[v] = Unseen}
    IN IF roots = {} THEN s.result
       ELSE tarjan_from(dfs_iterative(visit(s, CHOOSE v \in roots : TRUE, adj), adj), adj)

tarjan_scc(adj) == tarjan_from([index |-> [v \in DOMAIN adj |-> Unseen],
                                lowlink |-> [v \in DOMAIN adj |-> Unseen],
                                counter |-> 0, stack |-> <<>>, work |-> <<>>,
                                result |-> {}], adj)

strongly_connected_cycles(nodes, edges) ==
    {c \in tarjan_scc(build_adjacency(nodes, edges)) : Cardinality(c) >= 2}
      \cup {{v} : v \in {x \in Names(nodes) : \E e \in edges : e[1] = x /\ e[3] = x}}

\* The score in tenths: 1.0 for a dangling edge, 0.5 for a new cycle, 0.1 for
\* a new unresolved import up to 5.0, and 10.0 at most.
AtMost(n, cap) == IF n < cap THEN n ELSE cap
regression_score(s) ==
    AtMost(10 * s.dangling + 5 * s.new_cycles
             + AtMost(IF s.unresolved_delta > 0 THEN s.unresolved_delta ELSE 0, 50), 100)

classify_verdict(score) == IF score < 10 THEN "clean"
                           ELSE IF score < 50 THEN "concerning" ELSE "regression"

verdict_for_summary(s, score) ==
    IF s.unresolved_delta > 0 /\ score < 10 THEN "concerning" ELSE classify_verdict(score)

diff(before, after) ==
    LET bn == collect_nodes(before)  be == collect_edges(before)
        an == collect_nodes(after)   ae == collect_edges(after)
        summary == [nodes |-> diff_nodes(bn, an), edges |-> diff_edges(be, ae),
                    dangling |-> Cardinality(compute_dangling(an, ae)),
                    unresolved_delta |-> after.unresolved - before.unresolved,
                    new_cycles |-> Cardinality(strongly_connected_cycles(an, ae)
                                                 \ strongly_connected_cycles(bn, be))]
    IN [summary |-> summary,
        verdict |-> verdict_for_summary(summary, regression_score(summary))]

-----------------------------------------------------------------------------
(* A unified diff is a sequence of lines, [is, at]: what the line is, and   *)
(* the path or the first line number it carries.                            *)
NoHunk == [out |-> <<>>, file |-> "", lines |-> <<>>, at |-> 0, new |-> FALSE, deleted |-> FALSE]

flush(s) == IF s.file = "" THEN s.out
            ELSE Append(s.out, [file_path |-> s.file, changed_lines |-> s.lines,
                                is_new |-> s.new, is_deleted |-> s.deleted])

parse_hunk_line(s, l) ==
    CASE l.is = "added"   -> [s EXCEPT !.lines = Append(@, s.at), !.at = @ + 1]
      [] l.is = "removed" -> [s EXCEPT !.lines = Append(@, s.at)]
      [] OTHER            -> [s EXCEPT !.at = @ + 1]

parse_line(s, l) ==
    CASE l.is = "diff"       -> [NoHunk EXCEPT !.out = flush(s), !.at = s.at,
                                               !.lines = IF s.file = "" THEN s.lines ELSE <<>>]
      [] l.is = "--- a/"     -> IF s.file = "" THEN [s EXCEPT !.file = l.at] ELSE s
      [] l.is = "--- null"   -> [s EXCEPT !.new = TRUE]
      [] l.is = "+++ b/"     -> [s EXCEPT !.file = l.at]
      [] l.is = "+++ null"   -> [s EXCEPT !.deleted = TRUE]
      [] l.is = "@@"         -> [s EXCEPT !.at = l.at]
      [] OTHER               -> parse_hunk_line(s, l)

parse_unified_diff(lines) == flush(FoldLeft(parse_line, NoHunk, lines))

\* The symbols of the graph are [file, by, label, name, first, last]; by is what
\* defines the symbol, or the type of a method: the file, or a module in it.
\* Only what a Defines_File table leads to is found: there is none for methods,
\* the query that fails is skipped, and no query goes through a module.
Defines_File == {"Function", "Struct", "Enum", "Trait"}
SYMBOL_LABELS_WITH_LINES == Defines_File \cup {"Method"}

Overlap(x, hunk) == {i \in DOMAIN hunk.changed_lines :
                        hunk.changed_lines[i] \in x.first .. x.last}
map_lines_to_symbols(symbols, hunk) ==
    {x \in symbols : /\ x.file = hunk.file_path /\ x.by = "File"
                     /\ x.label \in SYMBOL_LABELS_WITH_LINES \cap Defines_File
                     /\ Overlap(x, hunk) # {} \/ hunk.is_new \/ hunk.is_deleted}

build_analysis(symbols, lines) ==
    LET hunks == parse_unified_diff(lines)
    IN UNION {map_lines_to_symbols(symbols, hunks[i]) : i \in DOMAIN hunks}

\* history reaches the methods through their containers, and attributes the
\* change to the file as well.
file_symbol_ranges(symbols, f) ==
    {x \in symbols : x.file = f /\ x.by = "File" /\ x.label \in SYMBOL_LABELS_WITH_LINES}
overlapping(ranges, hunk) == {x.name : x \in {y \in ranges :
                                  Overlap(y, hunk) # {} \/ hunk.is_new \/ hunk.is_deleted}}
changed_entities(symbols, known_files, hunks) ==
    UNION {{hunks[i].file_path} \cup
             overlapping(file_symbol_ranges(symbols, hunks[i].file_path), hunks[i]) :
           i \in {j \in DOMAIN hunks : hunks[j].file_path \in known_files}}

\* The commits, newest first, each [sha, parents, changed]: the spine is built
\* from the oldest one on, and a merge adds nothing to it.
add_versions(c, commit) ==
    IF commit.parents > 1 THEN c
    ELSE [last |-> [e \in DOMAIN c.last |->
                       IF e \in commit.changed THEN commit.sha ELSE c.last[e]],
          versions |-> c.versions \cup {<<e, commit.sha>> : e \in commit.changed},
          prev |-> c.prev \cup {<<e, commit.sha, c.last[e]>> :
                                 e \in {x \in commit.changed : c.last[x] # 0}}]

collect_versions(commits, entities) ==
    FoldLeft(add_versions, [last |-> [e \in entities |-> 0], versions |-> {}, prev |-> {}],
             Reverse(commits))

-----------------------------------------------------------------------------
\* What the code is compared with.

\* A cycle of a graph: the nodes that reach each other, or one that names itself.
Cycles(nodes, edges) ==
    LET N == Names(nodes)
        R == TransitiveClosure([x, y \in N |-> \E e \in edges : e[1] = x /\ e[3] = y], N)
    IN {{w \in N : w = v \/ (R[v, w] /\ R[w, v])} : v \in {x \in N : R[x, x]}}
       \cup {{v} : v \in {x \in N : \E e \in edges : e[1] = x /\ e[3] = x}}

\* git's rendering of a script: for each file its path, what happens to it,
\* the first line of its hunk and the lines of the hunk.
Line(is, at) == [is |-> is, at |-> at]
Rendered(d) ==
    <<Line("diff", 0), Line("index", 0),
      IF d.change = "new" THEN Line("--- null", 0) ELSE Line("--- a/", d.path),
      IF d.change = "deleted" THEN Line("+++ null", 0) ELSE Line("+++ b/", d.path),
      Line("@@", d.start)>> \o [i \in DOMAIN d.body |-> Line(d.body[i], 0)]
Render(script) == FlattenSeq([i \in DOMAIN script |-> Rendered(script[i])])

\* The line of the new file that the i-th line of a hunk is, or stands before.
At(d, i) == d.start + Cardinality({j \in 1 .. i - 1 : d.body[j] # "removed"})
Touched(d) == {At(d, i) : i \in {j \in DOMAIN d.body : d.body[j] # "context"}}

(* The cycles the diff counts as new are the strongly connected parts of    *)
(* the later graph that the earlier one has not, Tarjan's walk finding each *)
(* once and whole; and a graph compared with itself is clean.  The second   *)
(* holds of graphs whose edges join DIFFABLE_LABELS: the target of another  *)
(* edge, an enum's to its variant, is dangling in every graph that has it.  *)
NewCyclesAreCounted(before, after) ==
    LET CyclesOf(G) == Cycles(collect_nodes(G), collect_edges(G))
        found == diff(before, after)
    IN /\ found.summary.new_cycles = Cardinality(CyclesOf(after) \ CyclesOf(before))
       /\ before = after => found.verdict = "clean"

(* detect_changes and the history of a commit name a symbol exactly when a  *)
(* line the diff adds lies in it, or a removed one stood where it now has a *)
(* line, or its file is new or gone; the history names the files as well,   *)
(* and nothing outside the graph's files.  It is claimed of the symbols a   *)
(* File node leads to, which leaves out what an inline module defines, and  *)
(* for detect_changes the methods; with all, of every symbol.               *)
Changed(symbols, script) ==
    {x \in symbols : \E i \in DOMAIN script :
        /\ script[i].path = x.file
        /\ \/ script[i].change # "modified"
           \/ Touched(script[i]) \cap (x.first .. x.last) # {}}
LedTo(x) == x.by = "File"
DefinedBy(x) == x.by = "File" /\ x.label \in Defines_File
ChangedIsNamed(symbols, known_files, script, all) ==
    LET changed == Changed(symbols, script)
    IN /\ build_analysis(symbols, Render(script))
            = {x \in changed : all \/ DefinedBy(x)}
       /\ changed_entities(symbols, known_files, parse_unified_diff(Render(script)))
            = ({script[i].path : i \in DOMAIN script} \cap known_files)
                \cup {x.name : x \in {y \in changed : y.file \in known_files /\ (all \/ LedTo(y))}}

(* The spine of an entity is one chain through all its versions: every      *)
(* version but the oldest has exactly one previous version, made by the     *)
(* commit that changed the entity last before it.                           *)
VersionsChain(commits, entities) ==
    LET c == collect_versions(commits, entities)
        Pos(sha) == CHOOSE i \in DOMAIN commits : commits[i].sha = sha
    IN \A v \in c.versions :
         LET older == {w \in c.versions : w[1] = v[1] /\ Pos(w[2]) > Pos(v[2])}
         IN {p[3] : p \in {q \in c.prev : q[1] = v[1] /\ q[2] = v[2]}}
              = {w[2] : w \in {x \in older : \A y \in older : Pos(x[2]) <= Pos(y[2])}}
=============================================================================
