----------------------------- MODULE Clustering -----------------------------
(***************************************************************************)
(* cluster_graph: communities by Louvain (Blondel 2008) and the repair     *)
(* that splits disconnected ones, then processes: entry points and the     *)
(* breadth-first chain of calls from each.                                 *)
(*                                                                         *)
(* A graph is [n, w]: nodes 1..n in the order the ids are read and w[i, j] *)
(* the summed weight of the edges between i and j, both ways; w[i, i] is   *)
(* the degree a condensed community keeps inside.  The resolution gamma is *)
(* 1 and gains are compared multiplied by 2m, so they are integers.        *)
(***************************************************************************)
EXTENDS Integers, FiniteSets, Sequences, FiniteSetsExt, SequencesExt

EdgeWeight == [Calls |-> 3, Implements |-> 2, Extends |-> 2, Imports |-> 1, Uses |-> 1,
               HasMethod |-> 5, Defines |-> 5, Contains |-> 5, MemberOf |-> 0]

\* The adjacency of a set of typed edges [from, to, rel]: each adds its weight
\* in both directions, and a call of itself adds it to the node twice.
collect_weighted_edges(n, edges) ==
    [ij \in (1..n) \X (1..n) |->
        MapThenSumSet(LAMBDA e : EdgeWeight[e.rel],
                      {e \in edges : <<e.from, e.to>> = ij})
      + MapThenSumSet(LAMBDA e : EdgeWeight[e.rel],
                      {e \in edges : <<e.to, e.from>> = ij})]

degree(G, i) == MapThenSumSet(LAMBDA j : G.w[i, j], 1..G.n)

\* 2m: the sum of the degrees.
two_m(G) == MapThenSumSet(LAMBDA i : degree(G, i), 1..G.n)

-----------------------------------------------------------------------------
(* Phase one: each node moves to the neighbouring community of best gain.  *)

\* The gain of node i in community c, i itself taken out of its own first.
gain(G, M, comm, i, c) ==
    LET others == [j \in (1..G.n) \ {i} |-> comm[j]]
        inside == {j \in DOMAIN others : others[j] = c}
    IN  MapThenSumSet(LAMBDA j : G.w[i, j], inside) * M
        - MapThenSumSet(LAMBDA j : degree(G, j), inside) * degree(G, i)

\* The node stays unless a candidate gains strictly more; ties go to the first
\* candidate in order of community number.
best_move(G, M, comm, i) ==
    LET cands == {comm[j] : j \in {k \in 1..G.n : k # i /\ G.w[i, k] > 0}}
        best  == Max({gain(G, M, comm, i, c) : c \in cands \cup {comm[i]}})
    IN  IF gain(G, M, comm, i, comm[i]) = best THEN comm[i]
        ELSE Min({c \in cands : gain(G, M, comm, i, c) = best})

RECURSIVE sweep(_, _, _, _)
sweep(G, M, comm, i) ==
    IF i > G.n THEN comm
    ELSE sweep(G, M, [comm EXCEPT ![i] = best_move(G, M, comm, i)], i + 1)

RECURSIVE local_moves(_, _, _, _)
local_moves(G, M, comm, passes) ==
    LET next == sweep(G, M, comm, 1)
    IN  IF passes = 0 \/ next = comm THEN comm ELSE local_moves(G, M, next, passes - 1)

\* Communities renumbered 1, 2, ... in the order of their first node.
renumber_communities(comm) ==
    LET first(c) == Min({i \in DOMAIN comm : comm[i] = c})
        firsts   == {first(comm[i]) : i \in DOMAIN comm}
    IN  [i \in DOMAIN comm |-> Cardinality({f \in firsts : f <= first(comm[i])})]

MaxPasses == 100

one_level(G, M) == renumber_communities(local_moves(G, M, [i \in 1..G.n |-> i], MaxPasses))

num_comms(comm) == Max(Range(comm))

\* Phase two: the graph whose nodes are the communities.
aggregate_graph(G, comm) ==
    [n |-> num_comms(comm),
     w |-> [cd \in (1..num_comms(comm)) \X (1..num_comms(comm)) |->
              MapThenSumSet(LAMBDA ij : G.w[ij],
                {ij \in DOMAIN G.w : <<comm[ij[1]], comm[ij[2]]>> = cd})]]

RECURSIVE levels(_, _, _)
levels(G, M, node_to_comm) ==
    LET comm == one_level(G, M)
        next == [i \in DOMAIN node_to_comm |-> comm[node_to_comm[i]]]
    IN  IF num_comms(comm) = G.n THEN next
        ELSE levels(aggregate_graph(G, comm), M, next)

\* M is 2m of the graph as read, at every level.
louvain(G) ==
    LET own == [i \in 1..G.n |-> i]
    IN  IF two_m(G) = 0 THEN own ELSE levels(G, two_m(G), own)

-----------------------------------------------------------------------------
(* The repair: a community that is not connected is split.                 *)

RECURSIVE grow(_, _, _)
grow(G, members, S) ==
    LET next == S \cup {j \in members : \E i \in S : G.w[i, j] > 0}
    IN  IF next = S THEN S ELSE grow(G, members, next)

\* The components of a community in the order of their first member.
connected_components_within(G, members) ==
    LET comps == {grow(G, members, {i}) : i \in members}
    IN  SetToSortSeq(comps, LAMBDA a, b : Min(a) < Min(b))

RECURSIVE repair(_, _, _, _)
repair(G, comm, c, last) ==
    IF c > last THEN comm
    ELSE LET comps == connected_components_within(G, {i \in DOMAIN comm : comm[i] = c})
             next_comm == num_comms(comm)
             place(i) == CHOOSE k \in DOMAIN comps : i \in comps[k]
         IN  repair(G, [i \in DOMAIN comm |->
                          IF comm[i] = c /\ place(i) > 1 THEN next_comm + place(i) - 1
                          ELSE comm[i]], c + 1, last)

\* Mutant: every later component gets the one new number.
repair_together(G, comm) ==
    renumber_communities([i \in DOMAIN comm |->
        LET members == {j \in DOMAIN comm : comm[j] = comm[i]}
        IN  IF i \in connected_components_within(G, members)[1] THEN comm[i]
            ELSE num_comms(comm) + comm[i]])

repair_c2(G, comm) == renumber_communities(repair(G, comm, 1, num_comms(comm)))

\* The partition cluster_graph writes.
cluster_graph(G) == repair_c2(G, louvain(G))

\* The membership rows: files carry containment but have no membership table.
persist_communities(G, label, comm) ==
    {<<i, comm[i]>> : i \in {j \in 1..G.n : label[j] # "File"}}

-----------------------------------------------------------------------------
(* Processes.                                                              *)

\* The rules in order; a function is the entry of the first that fits it.
EntryRules == <<"proof", "test", "main", "handler", "lib_entry">>

\* shapes: the rules the function's name, language and visibility fit.
entry_kind(shapes) ==
    LET hits == {k \in DOMAIN EntryRules : EntryRules[k] \in shapes}
    IN  IF hits = {} THEN "" ELSE EntryRules[Min(hits)]

detect_entry_points(fns, shapes) == {f \in fns : entry_kind(shapes[f]) # ""}

\* Depth of each node reached by calls, to at most maxDepth calls.
RECURSIVE bfs(_, _, _, _)
bfs(calls, maxDepth, depths, queue) ==
    IF queue = <<>> THEN depths
    ELSE LET node  == Head(queue)
             fresh == IF depths[node] >= maxDepth THEN {}
                      ELSE {t \in {e[2] : e \in {x \in calls : x[1] = node}} :
                                t \notin DOMAIN depths}
         IN  bfs(calls, maxDepth,
                 [x \in DOMAIN depths \cup fresh |->
                    IF x \in fresh THEN depths[node] + 1 ELSE depths[x]],
                 Tail(queue) \o SetToSeq(fresh))

bfs_from_entry(calls, maxDepth, start) ==
    bfs(calls, maxDepth, [x \in {start} |-> 0], <<start>>)

\* The ParticipatesIn rows of a process: its functions and methods with their
\* place in the chain.
trace_one_process(calls, maxDepth, known, start) ==
    LET depths == bfs_from_entry(calls, maxDepth, start)
    IN  {<<x, depths[x]>> : x \in DOMAIN depths \cap known}

-----------------------------------------------------------------------------
(* Properties.                                                             *)

\* Two symbols are written into one community exactly when the partition put
\* them together and they are connected inside it, files counted as links: any
\* partition, Louvain's or another, is split into connected parts and no
\* further (community_repair.rs, Traag 2019).
RepairSplits(G, label, comm) ==
    LET rows == persist_communities(G, label, repair_c2(G, comm))
        class(i) == {j \in DOMAIN comm : comm[j] = comm[i]}
    IN  \A i, j \in {k \in 1..G.n : label[k] # "File"} :
            (\E c \in 1..G.n : {<<i, c>>, <<j, c>>} \subseteq rows)
              <=> j \in grow(G, class(i), {i})

\* (2m)^2 times Newman's modularity: over all pairs in one community.
Modularity(G, comm) ==
    MapThenSumSet(LAMBDA ij : G.w[ij] * two_m(G) - degree(G, ij[1]) * degree(G, ij[2]),
                  {ij \in DOMAIN G.w : comm[ij[1]] = comm[ij[2]]})

\* The partition written is never worse than no communities: condensing keeps
\* every degree, so each level optimises the modularity of the graph itself,
\* and the repair only cuts where no edge is.
LouvainImproves(G) ==
    Modularity(G, cluster_graph(G)) >= Modularity(G, [i \in 1..G.n |-> i])

\* Set of the nodes k calls away.
RECURSIVE after(_, _, _)
after(calls, start, k) ==
    IF k = 0 THEN {start}
    ELSE {e[2] : e \in {x \in calls : x[1] \in after(calls, start, k - 1)}}

\* The process of every entry point lists exactly the functions the entry
\* reaches within the bound, each at the length of its shortest chain of calls,
\* cycles included.
ChainsAreShortest(fns, shapes, calls, maxDepth) ==
    \A f \in detect_entry_points(fns, shapes) :
        LET reached(k) == UNION {after(calls, f, j) : j \in 0..k}
        IN  trace_one_process(calls, maxDepth, fns, f)
              = {<<x, Min({k \in 0..maxDepth : x \in reached(k)})>> :
                    x \in reached(maxDepth) \cap fns}
=============================================================================
