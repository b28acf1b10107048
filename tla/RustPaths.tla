----------------------------- MODULE RustPaths -----------------------------
(***************************************************************************)
(* How the static resolver reads a Rust path: which module it starts from, *)
(* which `use` declarations it is followed through, and which items of the *)
(* graph it admits (src/resolver/receiver).                                *)
(*                                                                         *)
(* The facts of a graph are one record W:                                  *)
(*   known        the latest index pass recorded Cargo facts               *)
(*   crate_names  the libraries of the repository                          *)
(*   owners       file -> the targets whose module tree reaches it         *)
(*   lib          target -> the library it is, "" for any other target     *)
(*   module       file -> the module path its place gives                  *)
(*   items        the symbols: [file, mods, name, label], mods being the   *)
(*                inline modules and types between the file and the symbol *)
(*   modules      the scopes [file, mods] that are files, mods and enums   *)
(*   rows         the `use`s: [file, mods, path, binds, glob]              *)
(* A path is a sequence of segments. A graph written without Cargo facts   *)
(* has known = FALSE, no library and no owner.                             *)
(***************************************************************************)
EXTENDS Naturals, Sequences, FiniteSets

Keywords == {"crate", "self", "super"}

\* The module path of a scope, and of a symbol: the file's, then what it sits in.
scope_module_path(W, s) == W.module[s.file] \o s.mods
module_path_of(W, e) == W.module[e.file] \o e.mods \o <<e.name>>

\* The inline modules around a symbol; an impl block it sits in comes after them.
inline_modules(W, e) ==
    LET is_module(n) == [file |-> e.file, mods |-> SubSeq(e.mods, 1, n - 1),
                         name |-> e.mods[n], label |-> "Module"] \in W.items
        depth == CHOOSE n \in 0..Len(e.mods) :
                    /\ \A k \in 1..n : is_module(k)
                    /\ n < Len(e.mods) => ~is_module(n + 1)
    IN SubSeq(e.mods, 1, depth)

\* Two files share a crate unless the facts give both an owner and none in common.
same_crate(W, f, g) ==
    W.known /\ W.owners[f] # {} /\ W.owners[g] # {} => W.owners[f] \cap W.owners[g] # {}

library_owns(W, lib, f) == \E o \in W.owners[f] : W.lib[o] = lib

\* The files that hold a module at this path, and the scopes that declare its uses.
module_files(W, path) == {s.file : s \in {m \in W.modules : scope_module_path(W, m) = path}}
scopes_at(W, path) ==
    {[file |-> r.file, mods |-> r.mods] : r \in {x \in W.rows : scope_module_path(W, x) = path}}

of_scope(W, s) == {r \in W.rows : r.file = s.file /\ r.mods = s.mods}

\* An anchor: a place below the caller's crate root ("crate") or a library's
\* ("lib"), or the end of a place of the caller's crate ("suffix").
CrateRoot(path) == [kind |-> "crate", lib |-> "", path |-> path]
Library(lib, path) == [kind |-> "lib", lib |-> lib, path |-> path]
Suffix(path) == [kind |-> "suffix", lib |-> "", path |-> path]
Nowhere == [kind |-> "none", lib |-> "", path |-> <<>>]

child(a, name) == [a EXCEPT !.path = Append(@, name)]

\* The number of leading `super` segments of a path.
Ups(segs) == CHOOSE n \in 0..Len(segs) :
                /\ \A i \in 1..n : segs[i] = "super"
                /\ n < Len(segs) => segs[n + 1] # "super"

\* The place a path written in a module names; Nowhere for an empty path and
\* for a `super` past the root.
anchor_in(W, lib, module, segs) ==
    LET within(path) == IF lib = "" THEN CrateRoot(path) ELSE Library(lib, path)
        ups == Ups(segs)
    IN CASE segs = <<>> -> Nowhere
         [] segs # <<>> /\ segs[1] = "crate" -> within(Tail(segs))
         [] segs # <<>> /\ segs[1] = "self" -> within(module \o Tail(segs))
         [] segs # <<>> /\ segs[1] = "super" ->
                IF ups > Len(module) THEN Nowhere
                ELSE within(SubSeq(module, 1, Len(module) - ups) \o SubSeq(segs, ups + 1, Len(segs)))
         [] segs # <<>> /\ segs[1] \in W.crate_names -> Library(segs[1], Tail(segs))
         [] OTHER -> within(module \o segs)

\* The uses of the module an anchor ends in: those of the anchor's own crate.
rows_of_module(W, from, a, module) ==
    UNION {of_scope(W, s) : s \in {x \in scopes_at(W, module) :
              IF a.kind = "lib" THEN library_owns(W, a.lib, x.file)
              ELSE same_crate(W, from, x.file)}}

Splits(a) == a.kind \in {"crate", "lib"} /\ a.path # <<>>

\* A plausible slip: an explicit use does not shadow the globs of its module.
Rebound_unshadowed(W, from, a) ==
    LET module == SubSeq(a.path, 1, Len(a.path) - 1)
        name == a.path[Len(a.path)]
        rows == {r \in rows_of_module(W, from, a, module) : r.glob \/ r.binds = name}
    IN [stays |-> TRUE,
        next |-> {anchor_in(W, a.lib, module, IF r.glob THEN Append(r.path, name) ELSE r.path)
                    : r \in rows} \ {Nowhere}]

\* What the uses of the module an anchor ends in make of its last name: an
\* explicit use replaces the anchor; without one it stays and every glob adds
\* the place it would give.
Rebound(W, from, a) ==
    LET module == SubSeq(a.path, 1, Len(a.path) - 1)
        name == a.path[Len(a.path)]
        rows == rows_of_module(W, from, a, module)
        explicit == {r \in rows : ~r.glob /\ r.binds = name}
        via(path) == anchor_in(W, a.lib, module, path)
        next == {via(r.path) : r \in explicit} \ {Nowhere}
    IN IF explicit = {}
       THEN [stays |-> TRUE,
             next |-> {via(Append(r.path, name)) : r \in {x \in rows : x.glob}} \ {Nowhere}]
       ELSE [stays |-> next = {a}, next |-> next]

\* Every anchor reached from one by following uses, each visited once, and of
\* these the ones the walk keeps.
follow(W, from, start) ==
    LET bound == Cardinality(W.rows) * 2 + 1
        step(S) == S \cup UNION {Rebound(W, from, a).next : a \in {x \in S : Splits(x)}}
        seen[n \in 0..bound] == IF n = 0 THEN {start} ELSE step(seen[n - 1])
    IN {a \in seen[bound] : Splits(a) => Rebound(W, from, a).stays}

\* A written path: the anchors it may stand for, read from a file of a crate.
\* Unread marks a path that cannot be read.
Written(from, anchors) == [from |-> from, anchors |-> anchors, read |-> TRUE]
Unread == [from |-> "", anchors |-> {}, read |-> FALSE]

following(W, from, a) ==
    IF a = Nowhere \/ a.path = <<>> THEN Unread ELSE Written(from, follow(W, from, a))

\* A path as written at a caller: exact behind a keyword or a library, else the
\* end of a place of the caller's crate.
WrittenPathOf(W, s, segs) ==
    IF segs = <<>> THEN Unread
    ELSE following(W, s.file,
            IF segs[1] \in Keywords \cup W.crate_names
            THEN anchor_in(W, "", scope_module_path(W, s), segs)
            ELSE Suffix(segs))

imported(W, from, module, segs) == following(W, from, anchor_in(W, "", module, segs))

\* The item of that name below each owner, the uses of the owner followed.
item(W, p, name) ==
    [p EXCEPT !.anchors = UNION {follow(W, p.from, child(o, name)) : o \in p.anchors}]

EndsWith(path, end) ==
    Len(path) >= Len(end) /\ SubSeq(path, Len(path) - Len(end) + 1, Len(path)) = end

\* A path admits a place of a file when some anchor is that place, in its crate.
AdmitsPlace(W, p, file, path) ==
    \E a \in p.anchors :
        \/ a.kind = "crate" /\ same_crate(W, p.from, file) /\ path = a.path
        \/ a.kind = "suffix" /\ same_crate(W, p.from, file) /\ EndsWith(path, a.path)
        \/ a.kind = "lib" /\ library_owns(W, a.lib, file) /\ path = a.path

\* The path names the symbol itself, or the owner of the symbol.
names(W, p, e) == AdmitsPlace(W, p, e.file, module_path_of(W, e))
admits(W, p, e) == AdmitsPlace(W, p, e.file, scope_module_path(W, e))

\* Every anchor ends in a module no file of the repository holds.
leaves_repository(W, p) ==
    \A a \in p.anchors :
        /\ Splits(a)
        /\ LET module == SubSeq(a.path, 1, Len(a.path) - 1)
           IN module # <<>> /\ module_files(W, module) = {}

-----------------------------------------------------------------------------
\* What a one-segment name of a module is bound to (binding::bind).

TypeLabels == {"Struct", "Enum", "Union", "TypeAlias"}

defined_in_scope(W, s, name) ==
    \E e \in W.items : e.name = name /\ e.label \in TypeLabels /\ e.file = s.file /\ e.mods = s.mods

defined_at(W, from, module, name) ==
    \E e \in W.items : /\ e.name = name /\ e.label \in TypeLabels
                       /\ scope_module_path(W, e) = module
                       /\ same_crate(W, from, e.file)

defines_module(W, from, module, name) ==
    \E f \in module_files(W, Append(module, name)) : same_crate(W, from, f)

in_repository(W, from, module, glob) ==
    LET a == anchor_in(W, "", module, glob)
    IN \/ a.kind = "crate" /\ \E f \in module_files(W, a.path) : same_crate(W, from, f)
       \/ a.kind = "lib" /\ \E f \in module_files(W, a.path) : library_owns(W, a.lib, f)

may_be_this_crate(W, segs) == ~W.known /\ segs[1] \notin Keywords

ByName == [is |-> "by_name"]
Decline == [is |-> "decline"]
BoundTo(path, fallback) == [is |-> "path", path |-> path, fallback |-> fallback]

BoundIfRead(p, fallback) == IF p.read THEN BoundTo(p, fallback) ELSE Decline

read(W, from, module, segs) ==
    BoundIfRead(imported(W, from, module, segs), may_be_this_crate(W, segs))

\* The one glob whose prefix::name admits a candidate; none leaves the lookup by
\* name only when no glob may come from outside the repository.
through_hits(W, from, module, name, readings, hits) ==
    IF Cardinality(hits) > 1 THEN Decline
    ELSE IF hits # {}
         THEN LET g == CHOOSE x \in hits : TRUE
              IN BoundTo(readings[g], may_be_this_crate(W, Append(g, name)))
    ELSE IF ~W.known \/ \A g \in DOMAIN readings : in_repository(W, from, module, g)
         THEN ByName ELSE Decline

through_readings(W, from, module, name, readings, admitted) ==
    through_hits(W, from, module, name, readings,
        {g \in DOMAIN readings : readings[g].read /\ readings[g] \in admitted})

through_globs(W, from, module, name, globs, admitted) ==
    through_readings(W, from, module, name,
        [g \in globs |-> imported(W, from, module, Append(g, name))], admitted)

\* One module up: the enclosing inline mod of a lone scope, else every scope of
\* the caller's crate at the parent's path.
up(W, from, level) ==
    LET parent == SubSeq(level.module, 1, Len(level.module) - 1)
        lone == CHOOSE s \in level.scopes : TRUE
        inline == Cardinality(level.scopes) = 1 /\ lone.mods # <<>>
    IN [module |-> parent,
        scopes |-> IF inline
                   THEN {[lone EXCEPT !.mods = SubSeq(@, 1, Len(@) - 1)]}
                   ELSE {s \in scopes_at(W, parent) : same_crate(W, from, s.file)}]

\* The modules from a scope's own outwards, with the scopes that make each up.
Levels(W, s) ==
    LET level[k \in 0..Len(scope_module_path(W, s))] ==
            IF k = 0 THEN [module |-> scope_module_path(W, s), scopes |-> {s}]
            ELSE up(W, s.file, level[k - 1])
    IN level

uses_at(W, level) == UNION {of_scope(W, x) : x \in level.scopes}
explicit_at(W, level, name) ==
    {r.path : r \in {x \in uses_at(W, level) : ~x.glob /\ x.binds = name}}
globs_at(W, level) == {r.path : r \in {x \in uses_at(W, level) : x.glob}}

\* modules says whether a child module counts as a definition.
defined_on(W, s, name, modules, levels, k) ==
    \/ modules /\ defines_module(W, s.file, levels[k].module, name)
    \/ IF k = 0 THEN defined_in_scope(W, s, name)
       ELSE defined_at(W, s.file, levels[k].module, name)

\* The first level that does not leave the name to its parent's glob.
StopAt(W, s, name, modules, levels) ==
    LET climbs(k) == /\ ~defined_on(W, s, name, modules, levels, k)
                     /\ explicit_at(W, levels[k], name) = {}
                     /\ globs_at(W, levels[k]) = {<<"super">>}
    IN CHOOSE k \in (DOMAIN levels) \cup {Cardinality(DOMAIN levels)} :
          /\ \A j \in 0..(k - 1) : climbs(j)
          /\ k \in DOMAIN levels => ~climbs(k)

bind_on(W, s, name, admitted, modules, levels, k) ==
    LET explicit == explicit_at(W, levels[k], name)
        globs == globs_at(W, levels[k])
    IN IF k \notin DOMAIN levels THEN Decline
       ELSE IF defined_on(W, s, name, modules, levels, k)
            THEN IF k = 0 THEN ByName
                 ELSE BoundTo(Written(s.file, {CrateRoot(Append(levels[k].module, name))}), FALSE)
       ELSE IF Cardinality(explicit) > 1 THEN Decline
       ELSE IF explicit # {}
            THEN read(W, s.file, levels[k].module, CHOOSE p \in explicit : TRUE)
       ELSE IF globs = {} THEN ByName
       ELSE through_globs(W, s.file, levels[k].module, name, globs, admitted)

bind_from(W, s, name, admitted, modules, levels) ==
    bind_on(W, s, name, admitted, modules, levels, StopAt(W, s, name, modules, levels))

\* What the globs around a scope make of a name: the readings of which bind is
\* told the ones that admit a candidate.
glob_readings(W, s, name) ==
    LET levels == Levels(W, s)
    IN UNION {{imported(W, s.file, levels[k].module, Append(g, name)) :
                 g \in globs_at(W, levels[k])} : k \in DOMAIN levels}

\* The binding of a name for a caller in scope s, read from its module outwards.
bind(W, s, name, admitted, modules) ==
    bind_from(W, s, name, admitted, modules, Levels(W, s))

\* The owners the qualifier of a path call names, for a caller in scope s.
owner_path(W, from, a) ==
    IF a.path = <<>> THEN Written(from, {a}) ELSE following(W, from, a)

OrByName(bound, path) == IF bound # ByName THEN bound ELSE path

qualifier_rule(W, s, segs, admitted) ==
    LET module == scope_module_path(W, s)
        place == anchor_in(W, "", module, segs)
    IN IF segs = <<>> THEN ByName
       ELSE IF segs[1] \in Keywords \cup W.crate_names
            THEN IF place = Nowhere THEN Decline
                 ELSE BoundTo(owner_path(W, s.file, place), FALSE)
       ELSE OrByName(IF Len(segs) = 1 THEN bind(W, s, segs[1], admitted, TRUE) ELSE ByName,
                     BoundTo(owner_path(W, s.file, CrateRoot(module \o segs)), TRUE))

-----------------------------------------------------------------------------
(***************************************************************************)
(* The language's own reading of a path inside one crate, as the Rust      *)
(* Reference gives it, to compare with: a name of a module is its          *)
(* definition, else what its explicit uses import, else what its globs     *)
(* give; a path is read segment by segment.                                *)
(***************************************************************************)
\* A relation of the places (paths of defined items and modules) a written place
\* denotes, as the least fixpoint over the uses, each place at most once.
Places(W) == {module_path_of(W, e) : e \in W.items} \cup {scope_module_path(W, m) : m \in W.modules}

RustPlaces(W, start) ==
    LET front(a) == SubSeq(a, 1, Len(a) - 1)
        last(a) == a[Len(a)]
        here(a) == {r \in W.rows : scope_module_path(W, r) = front(a)}
        explicit(a) == {r \in here(a) : ~r.glob /\ r.binds = last(a)}
        to(a, path) == anchor_in(W, "", front(a), path).path
        step(a) ==
            IF a = <<>> \/ a \in Places(W) THEN {}
            ELSE IF explicit(a) # {} THEN {to(a, r.path) : r \in explicit(a)}
            ELSE {to(a, Append(r.path, last(a))) : r \in {x \in here(a) : x.glob}}
        reach[n \in 0..6] ==
            IF n = 0 THEN {start} ELSE reach[n - 1] \cup UNION {step(a) : a \in reach[n - 1]}
    IN reach[6] \cap Places(W)

\* The type the impl block of a method is for, as the block writes it.
ImplType(W, e) ==
    LET modules == inline_modules(W, e)
    IN anchor_in(W, "", W.module[e.file] \o modules,
                 SubSeq(e.mods, Len(modules) + 1, Len(e.mods))).path

\* The items the path `owner::name` denotes, the owner read first. A method is an
\* item of the type its impl block writes, wherever the block is.
RustDenotes(W, owner, name) ==
    LET owners == RustPlaces(W, owner)
    IN {e \in W.items : /\ e.name = name
          /\ IF e.label = "Method" THEN RustPlaces(W, ImplType(W, e)) \cap owners # {}
             ELSE \E o \in owners : module_path_of(W, e) \in RustPlaces(W, Append(o, name))}
=============================================================================
