------------------------------ MODULE CppScope ------------------------------
(***************************************************************************)
(* Which symbols a C or C++ call can name: the translation units its files *)
(* form (includes.rs), the classes a receiver stands for (member_calls.rs) *)
(* and the candidates that are definitions it may reach (declarations.rs). *)
(*                                                                         *)
(* The facts are one record G:                                             *)
(*   paths    file -> the include paths it writes; a path is a sequence of *)
(*            segments, "..": up one directory, "<computed>": a macro      *)
(*   place    file -> its path from the root of the repository             *)
(*   source   the files that are a translation unit of their own           *)
(*   bases    class -> the names its definition gives for its bases        *)
(*   aliases  the typedefs: [path, file, target]                           *)
(* A candidate is [id, file, owner, label, internal, body] where owner is  *)
(* the path of its class or namespace and body one of "body", "prototype", *)
(* "macro". A class path is a sequence; a name written in the source may   *)
(* be any end of one.                                                      *)
(***************************************************************************)
EXTENDS Naturals, Sequences, FiniteSets, Relation

Ends(path, end) ==
    Len(path) >= Len(end) /\ SubSeq(path, Len(path) - Len(end) + 1, Len(path)) = end

-----------------------------------------------------------------------------
\* Include resolution.

Computed == <<"<computed>">>

dir(path) == SubSeq(path, 1, Len(path) - 1)

\* `d/path` with ".." folded; the empty path when ".." leaves the repository.
normalize(d, path) ==
    LET fold[i \in 0..Len(path)] ==
            IF i = 0 THEN [ok |-> TRUE, at |-> d]
            ELSE LET p == fold[i - 1]
                 IN IF path[i] = ".."
                    THEN [ok |-> p.ok /\ p.at # <<>>,
                          at |-> IF p.at = <<>> THEN p.at ELSE dir(p.at)]
                    ELSE [p EXCEPT !.at = Append(@, path[i])]
    IN IF fold[Len(path)].ok THEN fold[Len(path)].at ELSE <<>>

\* The files an include can name: the one relative to its file, else every file
\* whose path ends in what was written after the leading "..".
resolve_include(G, f, path) ==
    LET relative == normalize(dir(G.place[f]), path)
        ups == CHOOSE n \in 0..Len(path) : /\ \A i \in 1..n : path[i] = ".."
                                           /\ n < Len(path) => path[n + 1] # ".."
        tail == SubSeq(path, ups + 1, Len(path))
        exact == {g \in DOMAIN G.place : relative # <<>> /\ G.place[g] = relative}
    IN IF exact # {} THEN exact
       ELSE {g \in DOMAIN G.place : tail # <<>> /\ Ends(G.place[g], tail)}

direct(G, f) == UNION {resolve_include(G, f, p) : p \in G.paths[f] \ {Computed}} \ {f}

has_opaque(G) == \E f \in DOMAIN G.place : Computed \in G.paths[f]

\* What a file reaches along the edges of each file, itself included.
walk(edges, from) ==
    LET reach[n \in 0..Cardinality(DOMAIN edges)] ==
            IF n = 0 THEN {from}
            ELSE reach[n - 1] \cup UNION {edges[f] : f \in reach[n - 1]}
    IN reach[Cardinality(DOMAIN edges)]

includes(G) == [f \in DOMAIN G.place |-> direct(G, f)]
includers(G) == [f \in DOMAIN G.place |-> {h \in DOMAIN G.place : f \in direct(G, h)}]

reaches(G, from, to) == to \in walk(includes(G), from)

units_of(G, f) == walk(includers(G), f)

share_a_unit(G, f, g) == has_opaque(G) \/ units_of(G, f) \cap units_of(G, g) # {}

\* A declaration is seen in its own file, from a header everywhere, and in every
\* file that may be compiled with it.
sees(G, from, declared) ==
    declared = from \/ declared \notin G.source \/ share_a_unit(G, declared, from)

-----------------------------------------------------------------------------
\* The class a name stands for, with every class its methods may come from.

alias_targets(G, name, from) ==
    LET named == {a \in G.aliases : Ends(a.path, name) /\ sees(G, from, a.file)}
        local == {a \in named : a.file = from}
    IN {a.target : a \in IF local # {} THEN local ELSE named}

family(G, name, from) ==
    LET step(S) == S \cup UNION {alias_targets(G, n, from) : n \in S}
                     \cup UNION {G.bases[c] : c \in {d \in DOMAIN G.bases : \E n \in S : Ends(d, n)}}
        bound == Cardinality(DOMAIN G.bases) + Cardinality(G.aliases)
        reach[n \in 0..bound] == IF n = 0 THEN {name} \ {<<>>} ELSE step(reach[n - 1])
    IN reach[bound]

holds(fam, class) == \E n \in fam : Ends(class, n)

is_method(c) == c.label = "Method"

is_constructor(c, callee) == is_method(c) /\ c.owner # <<>> /\ c.owner[Len(c.owner)] = callee

methods_of(fam, cands) == {c \in cands : is_method(c) /\ c.owner # <<>> /\ holds(fam, c.owner)}

\* The caller's own class and its bases; none for a free function.
caller_family(G, site) ==
    IF site.caller_label = "Method" /\ site.caller_owner # <<>>
    THEN family(G, site.caller_owner, site.file) ELSE {}

unqualified(G, site, cands) ==
    LET own == methods_of(caller_family(G, site), cands)
    IN IF own # {} THEN own
       ELSE {c \in cands : ~is_method(c) \/ is_constructor(c, site.callee)}

qualified(G, site, cands) ==
    LET fam == family(G, site.hint, site.file)
    IN {c \in cands :
          IF is_method(c) THEN c.owner # <<>> /\ holds(fam, c.owner)
          ELSE IF c.owner = <<>> THEN site.hint = <<>>
          ELSE site.hint # <<>> /\ Ends(c.owner, site.hint)}

\* A site left open before any lookup: a call through a pointer, or a C++ member
\* call on a receiver of no known type. "" for every other site.
open_call(site) ==
    CASE site.shape = "indirect" \/ (site.language = "c" /\ site.shape = "member") -> "pointer_call"
      [] /\ site.language = "cpp" /\ site.shape = "member"
         /\ site.via \notin {"cpp_this", "cpp_declared"} -> "no_receiver_type"
      [] OTHER -> ""

\* The candidates the receiver or the scope of a C++ call allows.
Scoped(site) == /\ site.language = "cpp" /\ site.shape # ""
                /\ \/ site.via \in {"cpp_this", "cpp_declared", "cpp_qualifier"}
                   \/ site.shape = "direct"

scope(G, site, cands) ==
    CASE site.via = "cpp_this" -> methods_of(caller_family(G, site), cands)
      [] site.via = "cpp_declared" -> methods_of(family(G, site.hint, site.file), cands)
      [] site.via = "cpp_qualifier" -> qualified(G, site, cands)
      [] OTHER -> unqualified(G, site, cands)

-----------------------------------------------------------------------------
\* The candidates that are definitions the caller's file can name.

\* What is left, and why nothing is when nothing is.
keep_definitions(G, cands, file) ==
    LET own_internal == \E c \in cands : c.internal /\ c.file = file
        named(c) == reaches(G, file, c.file)
        reachable == {c \in cands : IF own_internal
                                    THEN c.file = file \/ (c.internal /\ named(c))
                                    ELSE ~c.internal \/ named(c)}
        kept == {c \in reachable : c.body # "prototype"}
    IN IF \A c \in cands : ~c.internal /\ c.body = "body" THEN [kept |-> cands, decline |-> ""]
       ELSE IF reachable = {} THEN [kept |-> {}, decline |-> "file_local"]
       ELSE [kept |-> kept, decline |-> IF kept = {} THEN "declaration_only" ELSE ""]

-----------------------------------------------------------------------------
(***************************************************************************)
(* What the language says, to compare with. The unit of a file holds what  *)
(* its includes paste into it; a class has the methods of its ancestors.   *)
(***************************************************************************)
InUnit(G) ==
    ReflexiveTransitiveClosure([f, g \in DOMAIN G.place |-> g \in direct(G, f)], DOMAIN G.place)

\* The classes a name stands for in a file, its aliases followed, and all above.
Named(G, name) == {c \in DOMAIN G.bases : Ends(c, name)}
Ancestors(G, names) ==
    LET above == [c, d \in DOMAIN G.bases |-> \E b \in G.bases[c] : Ends(d, b)]
        closed == ReflexiveTransitiveClosure(above, DOMAIN G.bases)
    IN {d \in DOMAIN G.bases : \E n \in names : \E c \in Named(G, n) : closed[c, d]}

\* The classes the receiver of a site may have.
Receivers(G, site) ==
    CASE site.via = "cpp_this" -> Ancestors(G, {site.caller_owner})
      [] site.via = "cpp_declared" /\ site.hint # <<>> ->
            Ancestors(G, {site.hint} \cup {a.target : a \in
                {x \in G.aliases : Ends(x.path, site.hint)}})
      [] OTHER -> DOMAIN G.bases

LeftIsReachable(G, site, scoped, left, unit) ==
    /\ \A c \in left.kept :
          /\ c.body # "prototype" /\ (c.internal => unit[site.file, c.file])
          /\ Scoped(site) /\ is_method(c) => c.owner \in Receivers(G, site)
    /\ left.decline = "file_local" <=> scoped # {} /\ \A c \in scoped :
          IF \E o \in scoped : o.internal /\ o.file = site.file THEN FALSE
          ELSE c.internal /\ ~unit[site.file, c.file]
    /\ left.decline = "declaration_only" => \E c \in scoped : c.body = "prototype"

CandidatesLeft(G, site, scoped) ==
    LeftIsReachable(G, site, scoped, keep_definitions(G, scoped, site.file), InUnit(G))

\* Every candidate a C or C++ call is left with is one its translation unit can
\* name, a method only of a class its receiver has, and a call left with nothing
\* is given the true cause: nothing but statics of other units, or nothing but
\* declarations.
CallableIsReachable(G, site, cands) ==
    open_call(site) = ""
      => CandidatesLeft(G, site, IF Scoped(site) THEN scope(G, site, cands) ELSE cands)
=============================================================================
