------------------------------- MODULE Search -------------------------------
(***************************************************************************)
(* search_codebase: the two indexes built beside a graph, the two          *)
(* retrievers, their fusion, the join with the graph, the cut, the pages,  *)
(* the grouping by process and the search of sibling graphs.               *)
(*                                                                         *)
(* A node is [key, label]: key stands for the qualified name (a path for a *)
(* File) and its natural order for the order of the strings.  A world W    *)
(* holds                                                                   *)
(*   nodes     the nodes of the graph                                      *)
(*   texts     the doc files whose text can be read, as nodes              *)
(*   small     the keys in a community of fewer than 20 members            *)
(*   procs     per key, the sequence of the processes it takes part in     *)
(*   lexical, semantic   the two indexes on disk, each [on, docs]; on says *)
(*             whether the index exists                                    *)
(*   bodies    whether the lexical index has the body field                *)
(*   bm25, tfidf   the documents that match the query, best first, as the  *)
(*             two scoring libraries order them                            *)
(*   terms     the query's words, each a function from key to the way it   *)
(*             matches the node's names                                    *)
(* and the options O hold limit, filter ("" for none) and min_score.       *)
(***************************************************************************)
EXTENDS Naturals, FiniteSets, Sequences, SequencesExt, FiniteSetsExt

\* The ceiling on the depth of a fetch: 4000 in the code, less where it is to be reached.
CONSTANT MAX_FETCH_LIMIT

\* In the order the lookups probe.
SEARCHABLE_LABELS == <<"Function", "Method", "Struct", "Enum", "Trait",
                       "Module", "Constant", "TypeAlias">>

OVERFETCH_FACTOR == 3
MIXED_CORPUS_HEADROOM == 2

\* Scores are counted in millionths.
Unit == 1000000

\* The elements of S in the order Less, which is total.
Sorted(S, Less(_, _)) ==
    LET place == [x \in S |-> 1 + Cardinality({y \in S : Less(y, x)})]
    IN  [i \in 1..Cardinality(S) |-> CHOOSE x \in S : place[x] = i]

-----------------------------------------------------------------------------
(* Building the indexes.                                                   *)

index_symbol_docs(nodes) ==
    {n \in nodes : n.label \in ToSet(SEARCHABLE_LABELS)}

\* A doc file whose text cannot be read, or is empty or too large, has no
\* document.
index_file_docs(nodes, texts) == {n \in nodes : n.label = "File"} \cap texts

\* The lexical index is removed and written anew; the semantic one is left
\* as it was when the graph has no symbol.
build_search_index(W) ==
    LET docs == index_symbol_docs(W.nodes)
    IN  [W EXCEPT
          !.lexical = [on |-> TRUE,
                       docs |-> docs \cup index_file_docs(W.nodes, W.texts)],
          !.bodies = TRUE,
          !.semantic = IF docs = {} THEN @ ELSE [on |-> TRUE, docs |-> docs]]

-----------------------------------------------------------------------------
(* Retrieval.                                                              *)

\* The n best documents of an index for the query.
query_index(index, order, n) ==
    LET hits == SelectSeq(order, LAMBDA d : d \in index.docs)
    IN  SubSeq(hits, 1, IF n < Len(hits) THEN n ELSE Len(hits))

base_fetch_limit(O) == O.limit * OVERFETCH_FACTOR * MIXED_CORPUS_HEADROOM

passes_label_filter(d, O) == O.filter \in {"", d.label}

\* Mutant: one fetch at the base depth.
retrieve_once(index, order, O) ==
    LET kept == SelectSeq(query_index(index, order, base_fetch_limit(O)),
                          LAMBDA d : passes_label_filter(d, O))
    IN  [i \in DOMAIN kept |-> kept[i].key]

\* The depth doubles until enough documents pass the filter, the index has
\* no more, or the ceiling is reached.
retrieve_ranked(index, order, O) ==
    LET Fetched(n) == query_index(index, order, n)
        Kept(n) == SelectSeq(Fetched(n), LAMBDA d : passes_label_filter(d, O))
        Depth(k) == IF k = 0 THEN base_fetch_limit(O)
                    ELSE Min({base_fetch_limit(O) * 2^k, MAX_FETCH_LIMIT})
        enough == {k \in 0..10 :
                       \/ Len(Kept(Depth(k))) >= O.limit * OVERFETCH_FACTOR
                       \/ Len(Fetched(Depth(k))) < Depth(k)
                       \/ Depth(k) >= MAX_FETCH_LIMIT}
        kept == Kept(Depth(Min(enough)))
    IN  [i \in DOMAIN kept |-> kept[i].key]

-----------------------------------------------------------------------------
(* Ranking.                                                                *)

\* Descending score, then ascending key, then (the sort is stable) the order
\* in which the labels were read: the one order the cursor pages.
Probe(label) ==
    Min({9} \cup {i \in DOMAIN SEARCHABLE_LABELS : SEARCHABLE_LABELS[i] = label})

Before(a, b) ==
    \/ a.score > b.score
    \/ a.score = b.score /\ a.key < b.key
    \/ a.score = b.score /\ a.key = b.key /\ Probe(a.label) < Probe(b.label)

truncate(hits, limit) == SubSeq(hits, 1, Min({limit, Len(hits)}))

sort_and_truncate(hits, limit) == truncate(Sorted(hits, Before), limit)

\* Reciprocal rank fusion: a key earns 1/(60 + rank) for each place it has.
fuse(rankings, limit) ==
    LET places == {<<r, i>> \in (DOMAIN rankings) \X
                       (1..Max({0} \cup {Len(rankings[r]) :
                                            r \in DOMAIN rankings})) :
                       i <= Len(rankings[r])}
        keys == {rankings[p[1]][p[2]] : p \in places}
        Score(k) == MapThenSumSet(
                        LAMBDA p : Unit \div (60 + p[2]),
                        {p \in places : rankings[p[1]][p[2]] = k})
    IN  sort_and_truncate({[key |-> k, score |-> Score(k), label |-> ""] :
                               k \in keys}, limit)

HYBRID_WEIGHTS == [small |-> 2000, process |-> 1000]
SUBSTRING_WEIGHTS == [small |-> 100000, process |-> 50000]

boost_for(W, key, clustered, weights) ==
    (IF clustered /\ key \in W.small THEN weights.small ELSE 0)
    + weights.process * Min({Len(W.procs[key]), 3})

\* The first label, of those the filter lets through, that holds the key.
enrich_symbol_hit(W, hit, O) ==
    LET held == SelectSeq(SEARCHABLE_LABELS,
                          LAMBDA l : /\ O.filter \in {"", l}
                                     /\ [key |-> hit.key, label |-> l]
                                            \in W.nodes)
    IN  IF held = <<>>
        THEN {}
        ELSE {[key |-> hit.key, label |-> Head(held),
               procs |-> W.procs[hit.key],
               score |-> hit.score
                         + boost_for(W, hit.key, TRUE, HYBRID_WEIGHTS)]}

\* File.path and File.id are one string, so the exact lookup decides.
enrich_file_hit(W, hit, O) ==
    IF /\ O.filter \in {"", "File"}
       /\ [key |-> hit.key, label |-> "File"] \in W.nodes
    THEN {[key |-> hit.key, label |-> "File", procs |-> <<>>,
           score |-> hit.score
                     + boost_for(W, hit.key, FALSE, HYBRID_WEIGHTS)]}
    ELSE {}

\* A hit neither table holds any more, or one under min_score, is dropped.
enrich_from_graph(W, hit, O) ==
    LET symbol == enrich_symbol_hit(W, hit, O)
        found == IF symbol /= {} THEN symbol ELSE enrich_file_hit(W, hit, O)
    IN  {r \in found : r.score >= O.min_score}

bm25_ranking(W, O) ==
    IF W.lexical.on THEN retrieve_ranked(W.lexical, W.bm25, O) ELSE <<>>

vector_ranking(W, O) ==
    IF W.semantic.on THEN retrieve_ranked(W.semantic, W.tfidf, O) ELSE <<>>

enriched(W, fused, O) ==
    UNION {enrich_from_graph(W, fused[i], O) : i \in DOMAIN fused}

search_hybrid(W, O) ==
    sort_and_truncate(
        enriched(W, fuse(<<bm25_ranking(W, O), vector_ranking(W, O)>>,
                         2 * O.limit), O),
        O.limit)

\* How well one word matches a node's name, else its qualified name; the
\* shorter of two lengths is taken to be half the longer.
term_score(how) ==
    CASE how = "exact" -> Unit
      [] how = "name"  -> 850000
      [] how = "path"  -> 750000
      [] how = "none"  -> 0

score_candidate(W, key) ==
    LET ways == {W.terms[i][key] : i \in DOMAIN W.terms}
        best == Max({term_score(w) : w \in ways})
        bonus == IF Len(W.terms) > 1 /\ "none" \notin ways THEN 100000 ELSE 0
    IN  IF best = 0
        THEN 0
        ELSE Min({Unit, best + bonus
                        + boost_for(W, key, TRUE, SUBSTRING_WEIGHTS)})

\* Every node of every label is scored, so a key two labels hold counts
\* twice.
search_substring(W, O) ==
    sort_and_truncate(
        {r \in {[key |-> n.key, label |-> n.label, procs |-> W.procs[n.key],
                 score |-> score_candidate(W, n.key)] :
                    n \in {m \in index_symbol_docs(W.nodes) :
                               O.filter \in {"", m.label}}} :
            r.score >= O.min_score},
        O.limit)

-----------------------------------------------------------------------------
(* The tool.                                                               *)

\* Only a lexical index that has file bodies can answer for files.
reject_unservable_file_filter(W, O) ==
    O.filter = "File" /\ ~(W.lexical.on /\ W.bodies)

\* [ok, hits]
search_graph(W, O) ==
    CASE reject_unservable_file_filter(W, O) -> [ok |-> FALSE, hits |-> <<>>]
      [] ~reject_unservable_file_filter(W, O) /\ W.terms = <<>>
             -> [ok |-> TRUE, hits |-> <<>>]
      [] OTHER
             -> [ok |-> TRUE,
                 hits |-> IF W.lexical.on \/ W.semantic.on
                          THEN search_hybrid(W, O)
                          ELSE search_substring(W, O)]

\* One page of items from an offset, under a budget for the sum of their
\* sizes that the first item may exceed.  next is 0 when nothing is left.
bound_values_paged(items, size, offset, budget) ==
    LET start == Min({offset, Len(items)})
        Used(n) == MapThenSumSet(LAMBDA i : size[items[i].key],
                                 (start + 1)..(start + n))
        fits == {n \in 0..(Len(items) - start) : n <= 1 \/ Used(n) <= budget}
        stop == start + Max(fits)
    IN  [items |-> SubSeq(items, start + 1, stop),
         total |-> Len(items),
         next |-> IF stop < Len(items) THEN stop ELSE 0]

page_search_results(hits, size, offset, budget) ==
    bound_values_paged(hits, size, offset, budget)

NO_PROCESS_GROUP == "(no process)"

\* The groups of a page, [name, keys]: the largest first and the hits in no
\* process last.  rank orders the names.
group_hits_by_process(hits, rank) ==
    LET In(h) == IF h.procs = <<>> THEN {NO_PROCESS_GROUP} ELSE ToSet(h.procs)
        names == UNION {In(hits[i]) : i \in DOMAIN hits}
        Members(g) == {hits[i].key : i \in {j \in DOMAIN hits : g \in In(hits[j])}}
        First(k) == Min({i \in DOMAIN hits : hits[i].key = k})
        Earlier(a, b) ==
            \/ b = NO_PROCESS_GROUP /\ a /= NO_PROCESS_GROUP
            \/ /\ a /= NO_PROCESS_GROUP
               /\ \/ Cardinality(Members(a)) > Cardinality(Members(b))
                  \/ /\ Cardinality(Members(a)) = Cardinality(Members(b))
                     /\ rank[a] < rank[b]
        order == Sorted(names, Earlier)
    IN  [i \in DOMAIN order |->
            [name |-> order[i],
             keys |-> Sorted(Members(order[i]),
                                   LAMBDA x, y : First(x) < First(y))]]

\* Built from the page, so no group names a hit outside it.
search_process_groups(page, rank) == group_hits_by_process(page.items, rank)

\* Of the sibling graphs [repo, exists, opens, world] a caller names, the ones
\* that exist and are not the graph asked.
from_arg(named, own) == {g \in named : g.repo /= own /\ g.exists}

\* The hits of every sibling that opens and can answer, repo by repo.
federated_search(siblings, O) ==
    LET asked == [O EXCEPT !.filter = "", !.min_score = 10000]
        repos == Sorted({g \in siblings : g.opens},
                              LAMBDA a, b : a.repo < b.repo)
    IN  FlattenSeq([i \in DOMAIN repos |->
            LET hits == search_graph(repos[i].world, asked).hits
            IN  [j \in DOMAIN hits |->
                    [repo |-> repos[i].repo, key |-> hits[j].key]]])

\* One answer of the tool.
page_answer(ok, page, rank) ==
    [ok |-> ok, results |-> page.items, total |-> page.total,
     next |-> page.next, by_process |-> search_process_groups(page, rank)]

answer(found, offset, size, budget, rank) ==
    page_answer(found.ok,
                page_search_results(found.hits, size, offset, budget), rank)

do_search_codebase(W, O, offset, size, budget, rank) ==
    answer(search_graph(W, O), offset, size, budget, rank)
-----------------------------------------------------------------------------
(* Properties.                                                             *)

\* The nodes the retrievers find for the query, under the filter.
Wanted(W, O) ==
    LET found == IF W.lexical.on \/ W.semantic.on
                 THEN (IF W.lexical.on THEN ToSet(W.bm25) ELSE {})
                      \cup (IF W.semantic.on THEN ToSet(W.tfidf) ELSE {})
                 ELSE {n \in W.nodes :
                           \E i \in DOMAIN W.terms : W.terms[i][n.key] /= "none"}
    IN  {n \in found \cap W.nodes :
            W.terms /= <<>> /\ passes_label_filter(n, O)}

\* The keys of the pages read by following next from the start.
RECURSIVE PagedFrom(_, _, _, _, _, _)
PagedFrom(W, O, offset, size, budget, rank) ==
    LET page == do_search_codebase(W, O, offset, size, budget, rank)
    IN  page.results \o
        (IF page.next = 0
         THEN <<>>
         ELSE PagedFrom(W, O, page.next, size, budget, rank))

\* What a search without indexes promises of every match; one with indexes when the
\* last place of the answer scores min_score in one ranking alone, and a fetch under a
\* filter can read every match of an index.
FindsAll(W, O) ==
    \/ ~W.lexical.on /\ ~W.semantic.on
    \/ /\ O.min_score <= Unit \div (60 + O.limit)
       /\ \/ O.filter = ""
          \/ Len(W.bm25) <= MAX_FETCH_LIMIT /\ Len(W.tfidf) <= MAX_FETCH_LIMIT

HitsAreMatches(W, O, found, wanted) ==
    LET keys == {n.key : n \in wanted}
        most == Min({O.limit, IF W.lexical.on \/ W.semantic.on
                              THEN Cardinality(keys) ELSE Cardinality(wanted)})
        shown == {[key |-> found.hits[i].key, label |-> found.hits[i].label] :
                     i \in DOMAIN found.hits}
    IN  /\ shown \subseteq W.nodes /\ {n.key : n \in shown} \subseteq keys
        /\ Cardinality(shown) = Len(found.hits)
        /\ Len(found.hits) <= most
        /\ FindsAll(W, O) => Len(found.hits) = most

HitsAreGrouped(page) ==
    \A i \in DOMAIN page.results :
        LET h == page.results[i]
        IN  {g.name : g \in {x \in ToSet(page.by_process) : h.key \in ToSet(x.keys)}}
                = IF h.procs = <<>> THEN {NO_PROCESS_GROUP} ELSE ToSet(h.procs)

\* A sibling that does not open, or is this graph again, takes nothing from
\* the answer and adds nothing to it.
SiblingsAnswer(W, O) ==
    LET Sibling(repo, exists, opens) ==
            [repo |-> repo, exists |-> exists, opens |-> opens, world |-> W]
        named == {Sibling(0, TRUE, TRUE), Sibling(1, FALSE, TRUE),
                  Sibling(2, TRUE, FALSE), Sibling(3, TRUE, TRUE)}
        hits  == federated_search(from_arg(named, 0), O)
    IN  /\ \A i \in DOMAIN hits : hits[i].repo = 3
        /\ (hits = <<>>) <=> (Wanted(W, [O EXCEPT !.filter = ""]) = {})

FoundIsComplete(W, O, found, size, budget, rank) ==
    found.ok =>
        /\ HitsAreMatches(W, O, found, Wanted(W, O))
        /\ PagedFrom(W, O, 0, size, budget, rank) = found.hits
        /\ HitsAreGrouped(do_search_codebase(W, O, 0, size, budget, rank))
        /\ SiblingsAnswer(W, O)

CompleteOver(W, O, size, budget, rank) ==
    FoundIsComplete(W, O, search_graph(W, O), size, budget, rank)

\* Over indexes built from the graph as it is, a search returns as many hits
\* as there are matches, up to the limit: neither the depth of the fetch, the
\* cut after the fusion nor the label filter hides a rare kind of symbol
\* behind common ones.  It may return fewer only where the code says so: past
\* the ceiling of a fetch under a filter, and where min_score is more than a
\* hit that one ranking alone has at the last place can score (the tool's
\* min_score, 0.01, is that from a limit of 41 on).  Every hit is a match, no
\* key comes twice (only without indexes are two labels of one key two hits),
\* a page and the pages after it give the whole answer, and each hit of a page
\* stands under every process it takes part in.  The siblings that can answer do.
SearchIsComplete(W, O, size, budget, rank) ==
    CompleteOver(IF W.lexical.on THEN build_search_index(W) ELSE W, O, size, budget, rank)
=============================================================================
