------------------------------ MODULE TypeEdges ------------------------------
(***************************************************************************)
(* The resolver's passes over names that are not calls: imports, declared  *)
(* and derived traits, base types, and the types that fields, results and  *)
(* constructions name (src/resolver/imports.rs, implements.rs, extends.rs, *)
(* uses.rs), their tally (phases.rs), and the buffer that writes each edge *)
(* once (mod.rs).                                                          *)
(*                                                                         *)
(* A symbol is [file, mods, name, text, label]: text is the last segment   *)
(* of its id, which is the name unless a #[cfg] gate is part of the id.  A *)
(* name as written in the source is [text, last, sep]: the whole, its last *)
(* segment, and the separator, "" for a single segment.  W is a record     *)
(*   rows        label -> its symbols, in the order the query returns them *)
(*   imports     <<[id, file, path, glob, external]>>                      *)
(*   bases, implements   symbol -> <<names>>                               *)
(*   blocks      <<[receiver, trait]>>, one per method of an impl block,   *)
(*               the receiver as a qualified name                          *)
(*   fields      <<[id, types]>>, types the words of the annotation        *)
(*   callables   <<[id, label, result, built]>>, words too                 *)
(*   sep         the language's path separator                             *)
(*   derives     derive name -> <<standard traits>>, Nothing when the      *)
(*               language derives none                                     *)
(*   upper, primitives   words that start with a capital, words of types   *)
(*               that are never symbols                                    *)
(*   tails       as in CallResolution                                      *)
(***************************************************************************)
EXTENDS CallResolution, Functions

IndexedLabels == <<"Function", "Method", "Struct", "Enum", "Trait", "Constant", "TypeAlias",
                   "Module", "File">>
TypeLike == {"Struct", "Enum", "Trait", "TypeAlias"}

\* The sequences of ss one after the other, and the elements of s that are in S.
Concat(ss) ==
    LET upto[i \in 0 .. Len(ss)] == IF i = 0 THEN <<>> ELSE upto[i - 1] \o ss[i]
    IN  upto[Len(ss)]
Among(s, S) ==
    LET upto[i \in 0 .. Len(s)] ==
            IF i = 0 THEN <<>> ELSE IF s[i] \in S THEN Append(upto[i - 1], s[i]) ELSE upto[i - 1]
    IN  upto[Len(s)]

\* The index lists the symbols table by table.
symbols(W) == Concat([i \in 1 .. Len(IndexedLabels) |-> W.rows[IndexedLabels[i]]])

qualified_name(e) == <<e.file>> \o e.mods \o <<e.text>>
plain_name(e) == <<e.file>> \o e.mods \o <<e.name>>

named(W, name) ==
    LET all == symbols(W) IN Among(all, {e \in Range(all) : e.name = name})
by_qn(W, qn) == {e \in Range(symbols(W)) : qualified_name(e) = qn}
by_parent_module(W, module) ==
    LET all == symbols(W)
    IN  Among(all, {e \in Range(all) : e.label # "File" /\ <<e.file>> \o e.mods = module})

\* The relationship tables of these passes that the schema has.
RelTables ==
    {<<"Imports", "File", l>> : l \in Range(IndexedLabels)}
    \cup {<<"Implements", l, t>> : l \in {"Struct", "Enum"}, t \in {"Trait", "StdlibSymbol"}}
    \cup {<<"Extends", l, l>> : l \in {"Trait", "Struct", "Enum"}}
    \cup {<<"Uses", l, t>> : l \in {"Function", "Method", "Field"}, t \in TypeLike}

StdSymbol(name) ==
    [file |-> name, mods |-> <<>>, name |-> name, text |-> name, label |-> "StdlibSymbol"]
Edge(table, from, to) == [table |-> table, from |-> from, to |-> to]

\* One of several symbols of one name and label told apart by their gates.
is_twin_member(t, cands) ==
    /\ t.text # t.name
    /\ \E o \in Range(cands) : o # t /\ o.label = t.label /\ plain_name(o) = plain_name(t)

Labelled(cands, labels) == Among(cands, {e \in Range(cands) : e.label \in labels})

FirstOf(cands, labels) ==
    LET fit == Labelled(cands, labels) IN IF fit = <<>> THEN <<>> ELSE <<fit[1]>>

-----------------------------------------------------------------------------
\* What a phase counts and stages.

Tally(resolved, total, unresolved, adds) ==
    [resolved |-> resolved, total |-> total, unresolved |-> unresolved, adds |-> adds]
Plus(a, b) == Tally(a.resolved + b.resolved, a.total + b.total,
                    a.unresolved \o b.unresolved, a.adds \o b.adds)
Sum(tallies) ==
    LET upto[i \in 0 .. Len(tallies)] ==
            IF i = 0 THEN Tally(0, 0, <<>>, <<>>) ELSE Plus(upto[i - 1], tallies[i])
    IN  upto[Len(tallies)]

Found(adds) == Tally(1, 1, <<>>, adds)
Missing(kind, from, why) == Tally(0, 1, <<[kind |-> kind, from |-> from, why |-> why]>>, <<>>)

External == "external crate"

\* A base with no target is external when an import of the file says so.
unresolved_base_reason(W, of, lookup) ==
    IF \E i \in Range(W.imports) : i.file = of.file /\ i.external /\ last(i.path) = lookup
    THEN External ELSE "no_target_in_corpus"

\* A name split at a separator; import_last_segment takes the language's.
last_segment(n, sep) == IF n.sep \in {"", sep} THEN n.last ELSE n.text
import_last_segment(W, n) == last_segment(n, W.sep)

-----------------------------------------------------------------------------
\* Imports.

resolve_glob_import(W, i) ==
    LET mod == by_parent_module(W, i.path)
        adds == [k \in DOMAIN mod |->
                   Edge(<<"Imports", "File", mod[k].label>>, <<i.file>>, mod[k])]
    IN Tally(Len(adds), Len(adds), <<>>, adds)

\* The path is the only evidence between namesakes.
resolve_single_import(W, i) ==
    LET cands == Range(named(W, last(i.path)))
        res == policy(W, cands, [c \in cands |-> qualified_name(c)], {i.path}, <<i.file>>, <<>>)
        table == <<"Imports", "File", res.target.label>>
    IN IF res.is # "resolved" THEN Missing("Imports", i.id, "no target")
       ELSE IF table \notin RelTables THEN Missing("Imports", i.id, "no table")
       ELSE Found(<<Edge(table, <<i.file>>, res.target)>>)

resolve_one_import(W, i) ==
    IF i.external THEN Missing("Imports", i.id, External)
    ELSE IF i.glob THEN resolve_glob_import(W, i) ELSE resolve_single_import(W, i)

resolve_imports(W) == Sum([k \in DOMAIN W.imports |-> resolve_one_import(W, W.imports[k])])

\* The Import rows flagged as resolved.
mark_nodes_resolved(W) == {i \in Range(W.imports) : resolve_one_import(W, i).resolved > 0}

-----------------------------------------------------------------------------
\* Implemented traits: declared and derived, then impl blocks.

resolve_one_implements(W, e, n) ==
    LET lookup == import_last_segment(W, n)
        cands == named(W, lookup)
        local == FirstOf(cands, {"Trait"})
        missing == Missing("Implements", qualified_name(e), unresolved_base_reason(W, e, lookup))
        std == [k \in DOMAIN W.derives[n.text] |->
                  Edge(<<"Implements", e.label, "StdlibSymbol">>, qualified_name(e),
                       StdSymbol(W.derives[n.text][k]))]
    IN IF local # <<>>
       THEN IF is_twin_member(local[1], cands) THEN missing
            ELSE Found(<<Edge(<<"Implements", e.label, "Trait">>, qualified_name(e), local[1])>>)
       ELSE IF n.text \notin DOMAIN W.derives \/ std = <<>> THEN missing
       ELSE Found(std)

\* A block of a type that is not in the graph counts for nothing.
resolve_one_block(W, b) ==
    LET owners == {e \in by_qn(W, b.receiver) : e.label \in {"Struct", "Enum"}}
        owner == CHOOSE e \in owners : TRUE
        cands == named(W, last_segment(b.trait, "::"))
        local == FirstOf(cands, {"Trait"})
    IN IF owners = {} THEN Tally(0, 0, <<>>, <<>>)
       ELSE IF local = <<>> \/ is_twin_member(local[1], cands)
       THEN Missing("Implements", b.receiver, "no_target_in_corpus")
       ELSE Found(<<Edge(<<"Implements", owner.label, "Trait">>, b.receiver, local[1])>>)

resolve_impl_trait_blocks(W) ==
    Sum([k \in DOMAIN W.blocks |-> resolve_one_block(W, W.blocks[k])])

\* The listed in a list of each symbol of a label, each beside its symbol.
Declared(W, label, lists) ==
    Concat([k \in 1 .. Len(W.rows[label]) |->
              LET e == W.rows[label][k] IN [j \in 1 .. Len(lists[e]) |-> <<e, lists[e][j]>>]])

resolve_implements(W) ==
    LET listed == Declared(W, "Struct", W.implements) \o Declared(W, "Enum", W.implements)
    IN Plus(Sum([k \in DOMAIN listed |-> resolve_one_implements(W, listed[k][1], listed[k][2])]),
            resolve_impl_trait_blocks(W))

-----------------------------------------------------------------------------
\* Base types: a namesake of the child's own label, or else the first one.

resolve_one_extends_base(W, e, n) ==
    LET lookup == last_segment(n, ".")
        cands == named(W, lookup)
        own == FirstOf(cands, {e.label})
        target == IF own # <<>> THEN own[1] ELSE cands[1]
        table == <<"Extends", e.label, target.label>>
    IN IF cands = <<>> THEN Missing("Extends", qualified_name(e), unresolved_base_reason(W, e, lookup))
       ELSE IF table \notin RelTables THEN Missing("Extends", qualified_name(e), "no_rel_table")
       ELSE Found(<<Edge(table, qualified_name(e), target)>>)

resolve_extends(W) ==
    LET listed == Declared(W, "Struct", W.bases) \o Declared(W, "Enum", W.bases)
                    \o Declared(W, "Trait", W.bases)
    IN Sum([k \in DOMAIN listed |-> resolve_one_extends_base(W, listed[k][1], listed[k][2])])

-----------------------------------------------------------------------------
\* Types named by fields, results and constructions.

extract_type_identifiers(W, words) ==
    Among(words, W.upper \ W.primitives)

\* (mutant) the first of several, a twin or not.
find_type_target_any(W, name) == FirstOf(named(W, name), TypeLike)

\* The only type of the name, or the first of several unless it is a twin.
find_type_target(W, name) ==
    LET cands == named(W, name)
        types == Labelled(cands, TypeLike)
    IN IF Len(types) > 1 /\ is_twin_member(types[1], cands) THEN <<>>
       ELSE FirstOf(cands, TypeLike)

\* resolve_one_field_type_use and resolve_one_callable_type_use.
resolve_one_type_use(W, label, id, name) ==
    LET target == find_type_target(W, name)
        table == <<"Uses", label, target[1].label>>
    IN IF target = <<>> THEN Missing("Uses", id, "type not found")
       ELSE IF table \notin RelTables THEN Missing("Uses", id, "no table")
       ELSE Found(<<Edge(table, id, target[1])>>)

UsesOf(W, label, id, types) ==
    Sum([j \in DOMAIN types |-> resolve_one_type_use(W, label, id, types[j])])

resolve_field_type_uses(W) ==
    Sum([k \in DOMAIN W.fields |->
           UsesOf(W, "Field", W.fields[k].id, extract_type_identifiers(W, W.fields[k].types))])

UsesOfCallable(W, f) ==
    UsesOf(W, f.label, f.id, extract_type_identifiers(W, f.result)
                               \o extract_type_identifiers(W, f.built))

resolve_callable_type_uses(W) ==
    LET both == Labelled(W.callables, {"Function"}) \o Labelled(W.callables, {"Method"})
    IN Sum([k \in DOMAIN both |-> UsesOfCallable(W, both[k])])

resolve_uses(W) == Plus(resolve_field_type_uses(W), resolve_callable_type_uses(W))

-----------------------------------------------------------------------------
\* The pass: every phase adds to one buffer, written at the end.

\* An edge already in the store, or staged before, is not staged again.
add(persisted, staged, e) == IF e \in persisted \cup Range(staged) THEN staged ELSE Append(staged, e)
add_all(persisted, edges) ==
    LET upto[i \in 0 .. Len(edges)] ==
            IF i = 0 THEN <<>> ELSE add(persisted, upto[i - 1], edges[i])
    IN  upto[Len(edges)]

run_phases(W) == <<resolve_imports(W), resolve_implements(W), resolve_extends(W), resolve_uses(W)>>

into_result(tallies) ==
    LET all == Sum(tallies)
    IN [total_edges |-> all.resolved, total_refs |-> all.total, unresolved |-> all.unresolved]

\* The rows of the store after a pass over a store with rows before it.
resolve_graph(W, before) ==
    LET tallies == run_phases(W)
    IN [rows |-> before \o add_all(Range(before), Sum(tallies).adds), result |-> into_result(tallies)]

-----------------------------------------------------------------------------
IsSettled(W, kinds, first, again) ==
    /\ first.result.total_edges + Len(first.result.unresolved) = first.result.total_refs
    /\ again = first
    /\ \A i, j \in DOMAIN first.rows : first.rows[i] = first.rows[j] => i = j
    /\ \A i \in mark_nodes_resolved(W) :
          \E e \in Range(first.rows) :
              /\ e.table[1] = "Imports" /\ e.from = <<i.file>>
              /\ IF i.glob THEN <<e.to.file>> \o e.to.mods = i.path ELSE e.to.name = last(i.path)
    /\ \A e \in Range(first.rows) :
          e.table[1] \in kinds => ~is_twin_member(e.to, named(W, e.to.name))

\* Every reference is counted once, as an edge or as unresolved; a second pass over
\* what the first one wrote finds the same and writes nothing; no edge is stored
\* twice; no edge of one of these kinds leads to a symbol that the first pass chose
\* among twins: which twin a build compiles is not the first in the file.
PassIsSettled(W, kinds) ==
    LET first == resolve_graph(W, <<>>)
    IN  IsSettled(W, kinds, first, resolve_graph(W, first.rows))
=============================================================================
