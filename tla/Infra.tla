------------------------------- MODULE Infra -------------------------------
(***************************************************************************)
(* The infrastructure-as-code pass (src/indexer/iac): Dockerfiles, K8s     *)
(* manifests and Kustomize overlays become nodes of their file, and their  *)
(* references edges to files, images and other overlays.  The pass runs at *)
(* the end of a full index over every file, and of an incremental refresh  *)
(* over the re-parsed files alone, between the purge of their nodes and    *)
(* the relink of the edges that came into them.                            *)
(*                                                                         *)
(* A tree is a function from the files present to their text, a record     *)
(*   is        "dockerfile" | "kustomization" | "yaml" | "other"           *)
(*   readable  within the parse cap and UTF-8                              *)
(*   images    the images of a Dockerfile's FROM lines                     *)
(*   paths     the COPY sources or kustomize references, each the sequence *)
(*             of the files it may stand for: itself, then as a directory  *)
(*             the overlay in it                                           *)
(*   docs      the documents of a YAML file: [api, kind, name, ns, images, *)
(*             templated, refs], api whether it has an apiVersion, kind "" *)
(*             when it has none, refs a set of [kind, name]                *)
(* `dir` gives each file the base name of its directory, which is what an  *)
(* image's bare name is compared with.  In each tree at most one file      *)
(* declares a resource of a given kind, name and namespace, and at most    *)
(* one Dockerfile has a given directory name: between two the indexes keep *)
(* the one the store happened to return last.                              *)
(***************************************************************************)
EXTENDS Naturals, Sequences, FiniteSets, SequencesExt

File(f) == [label |-> "File", file |-> f, n |-> 0]
Resource(f, n) == [label |-> "IacResource", file |-> f, n |-> n]
Module(f) == [label |-> "IacModule", file |-> f, n |-> 0]
Image(f, n, ref) == [label |-> "IacImage", file |-> f, n |-> n, ref |-> ref]

Edge(a, b, method) == [from |-> a, to |-> b, method |-> method]

---------------------------------------------------------------------------
(* Reading one file                                                        *)

norm_ns(ns) == IF ns = "" THEN "default" ELSE ns

\* A YAML file is a manifest when it declares an apiVersion and a kind.
looks_like_manifest(text) ==
    /\ \E i \in DOMAIN text.docs : text.docs[i].api
    /\ \E i \in DOMAIN text.docs : text.docs[i].kind # ""

\* The documents kept: a document without a kind yields nothing.
scan(text) == SelectSeq(text.docs, LAMBDA d : d.kind # "")

\* The documents that are gaps: a template, one with no name or no kind.  (A
\* template without a kind is one only if "kind:" is somewhere inside it.)
gap_ranges(text) ==
    {i \in DOMAIN text.docs :
        LET d == text.docs[i]
        IN  IF d.kind = "" THEN ~d.templated ELSE d.templated \/ d.name = ""}

\* What the pass says of one file to the coverage report.
gap(text) ==
    CASE text.is = "dockerfile" /\ ~text.readable -> "skipped"
      [] text.is = "dockerfile" /\ text.readable -> IF text.images = {} THEN "partial" ELSE "none"
      [] text.is = "kustomization" -> IF text.readable THEN "none" ELSE "skipped"
      [] text.is = "yaml" ->
            IF text.readable /\ looks_like_manifest(text) /\ gap_ranges(text) # {}
            THEN "partial" ELSE "none"
      [] text.is = "other" -> "none"

\* The parsed file: its resources, numbered as their ids are.
IsDockerfile(text) == text.is = "dockerfile" /\ text.readable /\ text.images # {}
IsOverlay(text) == text.is = "kustomization" /\ text.readable
Docs(text) == IF text.is = "yaml" /\ text.readable /\ looks_like_manifest(text)
              THEN scan(text) ELSE <<>>

---------------------------------------------------------------------------
(* Nodes and the edges inside a file                                       *)

emit_dockerfile_nodes(f, text) ==
    [nodes |-> {Resource(f, 0)} \cup {Image(f, 0, i) : i \in text.images},
     edges |-> {Edge(File(f), Resource(f, 0), "iac-direct")}
               \cup {Edge(Resource(f, 0), Image(f, 0, i), "iac-image-decl") : i \in text.images}]

emit_manifest_nodes(f, text) ==
    LET docs == Docs(text)
        images(n) == {Image(f, n, i) : i \in docs[n].images}
    IN  [nodes |-> UNION {{Resource(f, n)} \cup images(n) : n \in DOMAIN docs},
         edges |-> {Edge(File(f), Resource(f, n), "iac-direct") : n \in DOMAIN docs}
                   \cup UNION {{Edge(Resource(f, n), m, "iac-image-decl") : m \in images(n)} :
                                n \in DOMAIN docs}]

emit_module_node(f) ==
    [nodes |-> {Module(f)}, edges |-> {Edge(File(f), Module(f), "iac-direct")}]

emit_nodes(f, text) ==
    IF IsDockerfile(text) THEN emit_dockerfile_nodes(f, text)
    ELSE IF IsOverlay(text) THEN emit_module_node(f)
    ELSE emit_manifest_nodes(f, text)

---------------------------------------------------------------------------
(* References to other files                                               *)

\* The indexes are built from the nodes of the graph, so a re-parsed file
\* resolves against the files left alone.  `texts` gives the rows of the
\* resources in the graph: those of the files whose nodes are there.
ResolutionIndexes(texts, graph, dir) ==
    [dockerfile |-> [d \in {dir[f] : f \in DOMAIN texts} |->
                        {f \in DOMAIN texts : dir[f] = d /\ IsDockerfile(texts[f])
                                              /\ Resource(f, 0) \in graph.nodes}],
     resource |-> UNION {{<<Docs(texts[f])[n], f>> :
                            n \in {k \in DOMAIN Docs(texts[f]) :
                                    /\ Resource(f, k) \in graph.nodes
                                    /\ Docs(texts[f])[k].name # ""}} :
                         f \in DOMAIN texts},
     modules |-> {f \in DOMAIN texts : Module(f) \in graph.nodes}]

\* The first file of the tree a reference may stand for, if any.
resolve_path(spec, files) ==
    {spec[i] : i \in {k \in DOMAIN spec : /\ spec[k] \in files
                                          /\ \A j \in 1..(k - 1) : spec[j] \notin files}}

Targets(text, files) == UNION {resolve_path(s, files) : s \in text.paths}

copy_edges(f, text, files) ==
    {Edge(Resource(f, 0), File(p), "iac-copy-source") :
        p \in IF IsDockerfile(text) THEN Targets(text, files) ELSE {}}

\* An image builds from the Dockerfile whose directory carries its name; a
\* reference names a resource by kind and name in the namespace of its own
\* document, and reaches the file that declares it.
manifest_edges(f, text, idx) ==
    UNION {{Edge(Resource(f, n), File(g), "iac-image-build") :
                g \in UNION {idx.dockerfile[i] : i \in Docs(text)[n].images \cap DOMAIN idx.dockerfile}}
           \cup {Edge(Resource(f, n), File(x[2]), "iac-name-match") :
                    x \in {y \in idx.resource :
                             /\ [kind |-> y[1].kind, name |-> y[1].name] \in Docs(text)[n].refs
                             /\ norm_ns(y[1].ns) = norm_ns(Docs(text)[n].ns)}} :
           n \in DOMAIN Docs(text)}

\* A reference to another overlay reaches its module, any other its file.
overlay_edges(f, text, idx, files) ==
    {IF p \in idx.modules /\ p # f THEN Edge(Module(f), Module(p), "kustomize-base")
     ELSE Edge(Module(f), File(p), "kustomize-ref") :
        p \in IF IsOverlay(text) THEN Targets(text, files) ELSE {}}

emit_reference_edges(f, text, idx, files) ==
    copy_edges(f, text, files) \cup manifest_edges(f, text, idx)
        \cup overlay_edges(f, text, idx, files)

\* The first phase of a pass: the nodes of the files it is given, and their own edges.
Emitted(sources, tree, graph) ==
    LET own == [f \in sources |-> emit_nodes(f, tree[f])]
    IN  [nodes |-> graph.nodes \cup UNION {own[f].nodes : f \in sources},
         edges |-> graph.edges \cup UNION {own[f].edges : f \in sources}]

\* Nodes first, then the references, against every file of the tree.
run_iac_pass_for(sources, tree, graph, dir) ==
    LET noded == Emitted(sources, tree, graph)
        idx == ResolutionIndexes(tree, noded, dir)
    IN  [noded EXCEPT !.edges = @ \cup
            UNION {emit_reference_edges(f, tree[f], idx, DOMAIN tree) : f \in sources}]

\* A statement of either phase may fail; what was written stays.  A failure is taken at
\* the first statement of a phase.
iac_pass(sources, tree, graph, dir, failed) ==
    CASE failed = "nodes" -> graph
      [] failed = "references" -> Emitted(sources, tree, graph)
      [] failed = "none" -> run_iac_pass_for(sources, tree, graph, dir)

---------------------------------------------------------------------------
(* The two callers                                                         *)

full_index(tree, dir) ==
    run_iac_pass_for(DOMAIN tree, tree,
                     [nodes |-> {File(f) : f \in DOMAIN tree}, edges |-> {}], dir)

Owned(f, n) == n.file = f /\ n.label # "File"

\* `DETACH DELETE`: a node goes with every edge that touches it.
purge(graph, gone) ==
    [nodes |-> graph.nodes \ gone,
     edges |-> {e \in graph.edges : {e.from, e.to} \cap gone = {}}]

\* The edges into the nodes of a changed file from files left alone.
snapshot_inbound_edges(graph, changed, reparsed) ==
    {e \in graph.edges : /\ e.to.label # "File" /\ e.to.file \in changed
                         /\ e.from.file \notin reparsed}

\* Mutant: nothing is relinked.
relink_nothing(graph, saved) == graph

relink_inbound_edges(graph, saved) ==
    [graph EXCEPT !.edges = @ \cup {e \in saved : {e.from, e.to} \subseteq graph.nodes}]

\* An incremental refresh from the tree `old` to the tree `new`.  A pass that failed is
\* logged, and the refresh goes on.
apply_changes(graph, old, new, dir, failed) ==
    LET deleted == DOMAIN old \ DOMAIN new
        changed == {f \in DOMAIN old \cap DOMAIN new : old[f] # new[f]}
        added == DOMAIN new \ DOMAIN old
        reparsed == changed \cup added
        saved == snapshot_inbound_edges(graph, changed, reparsed)
        gone == {n \in graph.nodes : n.file \in deleted \/ (n.file \in changed /\ n.label # "File")}
        purged == purge(graph, gone)
        filed == [purged EXCEPT !.nodes = @ \cup {File(f) : f \in added}]
    IN  relink_inbound_edges(iac_pass(reparsed, new, filed, dir, failed), saved)

---------------------------------------------------------------------------
(* Correctness                                                             *)

OutOf(graph, f) == {e \in graph.edges : e.from.file = f}

\* Property.  A refresh whose pass did not fail leaves the nodes of a full index of
\* the new tree; a file it re-parsed has the references that index gives it; a file it left
\* alone loses a reference only with the node that reference reached, though
\* that node was purged and written again; and a Dockerfile or an overlay
\* has nodes exactly when the coverage report has no gap for it.
\* (src/indexer/iac/mod.rs, "an unchanged referencer's edge is not
\* collaterally dropped when a referenced file is reparsed").
InfraRefreshIsExact(old, new, dir, failed) ==
    LET before == full_index(old, dir)
        after == apply_changes(before, old, new, dir, failed)
        fresh == full_index(new, dir)
    IN  /\ after.nodes = fresh.nodes
        /\ \A f \in DOMAIN new :
              IF f \in DOMAIN old /\ old[f] = new[f]
              THEN OutOf(after, f) = {e \in OutOf(before, f) : e.to \in after.nodes}
              ELSE OutOf(after, f) = OutOf(fresh, f)
        /\ \A e \in after.edges : {e.from, e.to} \subseteq after.nodes
        /\ \A f \in DOMAIN new :
              new[f].is \in {"dockerfile", "kustomization"} =>
                  (gap(new[f]) = "none") = (\E n \in after.nodes : Owned(f, n))
===========================================================================
