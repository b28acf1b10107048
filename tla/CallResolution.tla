--------------------------- MODULE CallResolution ---------------------------
(***************************************************************************)
(* How the static resolver decides one call site: the gates that answer    *)
(* for a receiver or a written path, the candidates a name leaves, the     *)
(* evidence that picks one of them, and the reason an open site is given   *)
(* (src/resolver/calls, src/call_evidence.rs, src/ambiguity_policy.rs).    *)
(*                                                                         *)
(* W is the record of facts of RustPaths with, in addition,                *)
(*   std        the names of the standard library's types and prelude      *)
(*   capital    the names that do not start with a lowercase letter        *)
(*   package    file -> the package its language declares, <<>> for none   *)
(*   tails      the pairs <<long, short>> of names, the second being the   *)
(*              last characters of the first                               *)
(*   variants   the enum variants, as items                                *)
(*   returns    the associated functions, as items, that return their type *)
(*   outside    the files no target compiles                               *)
(* A site is a record: language, caller (an item), form of the callee      *)
(* ("bare", "self_value", "self_type", "local", "expr", "path"), qual (the *)
(* segments before the last), name (the last), hint and via (what the      *)
(* parser knows of the receiver), via_path (the path behind via), in_place *)
(* (the receiver is a call).                                               *)
(***************************************************************************)
EXTENDS RustPaths

\* The policy's tiers and the trust each is given, in hundredths.
Confidence == [UniqueGlobal |-> 95, ReceiverBound |-> 93, ImportMatch |-> 90,
               ReceiverLocalBinding |-> 87, ReceiverReturnType |-> 85, SameFileUnique |-> 85,
               PackageProximity |-> 70, MacroExpansion |-> 85, MacroReceiverType |-> 80,
               CfgSelected |-> 85]

NotFound == [is |-> "not_found"]
Ambiguous(cands) == [is |-> "ambiguous", cands |-> cands]
Resolved(target, evidence) ==
    [is |-> "resolved", target |-> target, evidence |-> evidence, confidence |-> Confidence[evidence]]

\* One candidate resolves, several stay ambiguous.
One(cands, evidence) ==
    IF cands = {} THEN NotFound
    ELSE IF Cardinality(cands) = 1 THEN Resolved(CHOOSE c \in cands : TRUE, evidence)
    ELSE Ambiguous(cands)

\* An outcome and, when a rule declined the call, which.
Gate(res, decline) == [res |-> res, decline |-> decline]
Pass == [res |-> [is |-> "pass"], decline |-> ""]
OrElse(gate, next) == IF gate # Pass THEN gate ELSE next

-----------------------------------------------------------------------------
\* The evidence policy.

\* A key ends with a path when the segments agree, the first of them possibly
\* only in its last characters: the code compares strings.
EndsText(W, key, end) ==
    /\ end # <<>> /\ Len(key) >= Len(end)
    /\ LET at(i) == key[Len(key) - Len(end) + i]
       IN /\ \A i \in 2..Len(end) : at(i) = end[i]
          /\ at(1) = end[1] \/ <<at(1), end[1]>> \in W.tails

import_matches(W, key, imports) ==
    \E p \in imports : EndsText(W, key, p) \/ EndsText(W, p, key)

Starts(key, front) == Len(key) >= Len(front) /\ SubSeq(key, 1, Len(front)) = front

\* The first tier with exactly one candidate wins; key gives a candidate's name.
policy(W, cands, key, imports, file, package) ==
    LET imp == {c \in cands : import_matches(W, key[c], imports)}
        own == {c \in cands : Starts(key[c], file)}
        pkg == {c \in cands : package # <<>> /\ Starts(key[c], package)}
    IN IF Cardinality(cands) <= 1 THEN One(cands, "UniqueGlobal")
       ELSE IF Cardinality(imp) = 1 THEN One(imp, "ImportMatch")
       ELSE IF Cardinality(own) = 1 THEN One(own, "SameFileUnique")
       ELSE IF Cardinality(pkg) = 1 THEN One(pkg, "PackageProximity")
       ELSE Ambiguous(cands)

\* First the packages the candidates' files declare, with the imports alone;
\* then their files.
resolve_two_pass(W, cands, imports, file) ==
    LET by_package == [c \in cands |-> Append(W.package[c.file], c.name)]
        by_file == [c \in cands |-> <<c.file>> \o c.mods \o <<c.name>>]
        first == policy(W, cands, by_package, imports, <<>>, <<>>)
    IN IF first.is = "resolved" THEN first
       ELSE policy(W, cands, by_file, imports, <<file>>, W.package[file])

-----------------------------------------------------------------------------
\* Receiver gates.

by_name(W, name) == {e \in W.items : e.name = name}
owner_name(e) == IF e.mods = <<>> THEN e.file ELSE e.mods[Len(e.mods)]
file_imports(W, file) == {r.path : r \in {x \in W.rows : x.file = file}}

\* self.m, Self::m in a method: the caller's own type, then its namesakes.
same_class_receiver_gate(W, s) ==
    LET exact == {e \in by_name(W, s.name) : e.file = s.caller.file /\ e.mods = s.caller.mods}
        named == {e \in by_name(W, s.name) : owner_name(e) = owner_name(s.caller)}
    IN IF s.caller.label # "Method" \/ s.form \notin {"self_value", "self_type"} THEN Pass
       ELSE Gate(One(IF exact # {} THEN exact ELSE named, "ReceiverBound"), "")

last(path) == path[Len(path)]

local_candidates(W, hint, m) == {e \in by_name(W, m) : owner_name(e) = last(hint)}

\* The lookup of a hinted method among the local candidates a filter kept: the
\* caller's own file breaks a tie.
resolve_local_receiver_where(cands, file) ==
    LET own == {e \in cands : e.file = file}
    IN One(IF Cardinality(cands) > 1 /\ Cardinality(own) = 1 THEN own ELSE cands,
           "ReceiverLocalBinding")

resolve_local_receiver_strict(cands) == One(cands, "ReceiverLocalBinding")

resolve_local_receiver_in_file(W, hint, m, file) ==
    resolve_local_receiver_strict({e \in local_candidates(W, hint, m) :
        /\ e.label = "Method" /\ e.mods # <<>> /\ e.file = file
        /\ \E o \in W.items : /\ o.label \in {"Struct", "Enum"} /\ o.file = e.file
                              /\ Append(o.mods, o.name) = e.mods})

\* The associated function the receiver was built with returns its own type.
builds_owner(W, e, assoc) ==
    LET made == [file |-> e.file, mods |-> e.mods, name |-> assoc]
        at(set) == {x \in set : x.file = e.file /\ x.mods = e.mods /\ x.name = assoc}
        methods == {x \in W.items : x.label = "Method" /\ x.file = e.file
                                    /\ x.mods = e.mods /\ x.name = assoc}
    IN IF methods # {} THEN methods \subseteq W.returns ELSE at(W.variants) # {}

relabel_as_return_type(res) ==
    IF res.is = "resolved" THEN Resolved(res.target, "ReceiverReturnType") ELSE res

ScopeOf(s) == [file |-> s.caller.file, mods |-> s.modules]

\* The targets, other than libraries, that reach the caller's file, each with the
\* entries a `crate::X` written there may name.
CrateScope(W, file, path) ==
    LET exact == Len(path) = 2 /\ path[1] = "crate"
        roots(o) == {p[1] : p \in {q \in file_imports(W, o) : Len(q) > 1 /\ last(q) = path[2]}}
        libraries(o) == {t \in DOMAIN W.lib : W.lib[t] # "" /\ W.lib[t] \in roots(o)}
    IN IF ~W.known THEN {}
       ELSE {{o} \cup (IF exact THEN libraries(o) ELSE {}) : o \in {x \in W.owners[file] : W.lib[x] = ""}}

crate_admits(W, scope, file) == \A accepted \in scope : W.owners[file] \cap accepted # {}

\* How a hint that names its owner by a path is read, for each way the parser
\* came by it: [rule, path, fallback, return_type]; no rule keeps the lookup by
\* name.
NoRule == [rule |-> FALSE, hint |-> <<>>, path |-> Unread, fallback |-> FALSE, return_type |-> FALSE]

WrittenRule(W, s, path, rt) ==
    [NoRule EXCEPT !.rule = TRUE, !.return_type = rt, !.hint = path,
                   !.path = WrittenPathOf(W, ScopeOf(s), path)]

kept_by(W, s, path, e) == admits(W, path, e) /\ (s.via = "assoc" => builds_owner(W, e, s.assoc))

rule_of_binding(s, bound) ==
    IF bound.is = "by_name" THEN NoRule
    ELSE IF bound.is = "decline" THEN [NoRule EXCEPT !.rule = TRUE, !.hint = s.hint]
    ELSE [rule |-> TRUE, hint |-> s.hint, path |-> bound.path,
          fallback |-> bound.fallback, return_type |-> s.via = "constructed_return"]

path_rule(W, s) ==
    LET off_binding == s.via \in {"", "assoc"}
        admitted == {p \in glob_readings(W, ScopeOf(s), last(s.hint)) :
                        \E e \in local_candidates(W, s.hint, s.name) : kept_by(W, s, p, e)}
    IN IF Len(s.hint) > 1 THEN IF off_binding THEN WrittenRule(W, s, s.hint, FALSE) ELSE NoRule
       ELSE IF s.via = "local_import"
            THEN IF s.via_path[1] # "crate" \/ CrateScope(W, s.caller.file, s.via_path) # {}
                 THEN NoRule ELSE WrittenRule(W, s, s.via_path, TRUE)
       ELSE IF ~off_binding /\ s.via \notin {"constructed", "constructed_return"} THEN NoRule
       ELSE rule_of_binding(s, bind(W, ScopeOf(s), last(s.hint), admitted, FALSE))

gate_of_rule(W, s, r) ==
    LET res == IF ~r.path.read THEN NotFound
               ELSE resolve_local_receiver_strict(
                        {e \in local_candidates(W, r.hint, s.name) : kept_by(W, s, r.path, e)})
    IN IF ~r.rule \/ (r.fallback /\ res = NotFound) THEN Pass
       ELSE Gate(IF r.return_type THEN relabel_as_return_type(res) ELSE res,
                 IF r.path.read THEN "" ELSE "written_path")

written_path_gate(W, s) == gate_of_rule(W, s, path_rule(W, s))

\* The lookup of a hinted type once no path and no foreign import has answered.
resolve_by_hint(W, s) ==
    LET file == s.caller.file
        constructed == s.via \in {"constructed", "constructed_return"}
        via_return_type == s.via \in {"import", "local_import", "return_type", "constructed_return"}
        alias == \E e \in by_name(W, last(s.hint)) : e.label = "TypeAlias"
        crates == IF s.via = "local_import" THEN CrateScope(W, file, s.via_path) ELSE {}
        res == IF constructed THEN resolve_local_receiver_in_file(W, s.hint, s.name, file)
               ELSE resolve_local_receiver_where(
                        {e \in local_candidates(W, s.hint, s.name) : crate_admits(W, crates, e.file)},
                        file)
    IN IF via_return_type /\ alias THEN Gate(NotFound, "type_alias_return")
       ELSE Gate(IF via_return_type THEN relabel_as_return_type(res) ELSE res,
                 IF crates # {} /\ ~constructed /\ res = NotFound THEN "crate_scope" ELSE "")

rust_local_receiver_gate(W, s) ==
    LET constructed == s.via \in {"constructed", "constructed_return"}
        speaks == s.form = "local" \/ (s.form = "expr" /\ (constructed \/ s.in_place))
        foreign == s.via = "import" /\ s.via_path[1] \notin W.crate_names
    IN IF s.language # "rust" \/ s.hint = <<>> \/ ~speaks THEN Pass
       ELSE OrElse(written_path_gate(W, s),
              IF s.via = "assoc"
              THEN Gate(resolve_local_receiver_where(
                            {e \in local_candidates(W, s.hint, s.name) : builds_owner(W, e, s.assoc)},
                            s.caller.file), "")
              ELSE IF foreign
                   THEN Gate(NotFound, IF W.known THEN "foreign" ELSE "unknown_cargo_facts")
              ELSE resolve_by_hint(W, s))

-----------------------------------------------------------------------------
\* Callees proven to live outside the repository.

StdRoots == {"std", "core", "alloc"}

\* A callee written with a path; outside a method `Self::m` is read as one.
is_path(s) == s.form \in {"path", "self_type"}

std_type(W, name) == name \in W.std /\ by_name(W, name) = {}

\* The first segment of the use that binds a name in a file, "" when none does.
imported_origin(W, file, name) ==
    LET binding == {p \in file_imports(W, file) : Len(p) > 1 /\ last(p) = name}
    IN IF binding = {} THEN "" ELSE (CHOOSE p \in binding : TRUE)[1]

path_origin(W, file, s) ==
    LET root == s.qual[1]
        used == imported_origin(W, file, root)
        origin == IF used = "" THEN root ELSE used
    IN IF ~is_path(s) \/ root \in Keywords \cup {"Self"} THEN ""
       ELSE IF origin \in StdRoots THEN origin
       ELSE IF origin \in Keywords \cup W.crate_names THEN ""
       ELSE IF used = "" /\ Len(s.qual) = 1 /\ std_type(W, root) THEN "std"
       ELSE IF /\ W.known /\ by_name(W, origin) = {}
               /\ used # "" \/ origin \notin W.capital THEN origin
       ELSE ""

names_external_path(W, file, s) == s.language = "rust" /\ path_origin(W, file, s) # ""

external_origin(W, s, decline) ==
    LET root == s.hint[1]
    IN IF s.language # "rust" THEN ""
       ELSE IF decline = "foreign" THEN s.via_path[1]
       ELSE IF s.form \in {"self_value", "local", "expr"}
            THEN IF s.hint = <<>> THEN ""
                 ELSE IF root \in StdRoots THEN root
                 ELSE IF std_type(W, last(s.hint)) THEN "std" ELSE ""
       ELSE IF is_path(s) THEN path_origin(W, s.caller.file, s)
       ELSE IF std_type(W, s.name) THEN "std" ELSE ""

-----------------------------------------------------------------------------
\* The candidates of a name, and the path that chooses among them.

\* A nested fn shadows every namesake below its callable and is unseen outside.
visible_candidates(W, s, cands) ==
    LET callable(path) == \E e \in W.items : /\ e.file = s.caller.file
                                             /\ e.label \in {"Function", "Method"}
                                             /\ Append(e.mods, e.name) = path
        at(n) == SubSeq(Append(s.caller.mods, s.caller.name), 1, n)
        depths == {n \in 1..(Len(s.caller.mods) + 1) :
                     \A k \in n..(Len(s.caller.mods) + 1) : callable(at(k))}
        declared(n) == {c \in cands : /\ c.label = "Function" /\ c.file = s.caller.file
                                      /\ c.mods = at(n)}
        hits == {n \in depths : declared(n) # {}}
        nested(c) == c.mods # <<>> /\ \E e \in W.items : /\ e.file = c.file
                         /\ e.label \in {"Function", "Method"} /\ Append(e.mods, e.name) = c.mods
    IN IF s.language = "rust"
       THEN IF ~is_path(s) /\ hits # {}
            THEN declared(CHOOSE n \in hits : \A k \in hits : k <= n)
            ELSE {c \in cands : ~nested(c)}
       ELSE IF is_path(s) \/ s.language # "python" THEN cands
       ELSE {c \in cands : c.label # "Method"}

\* A qualifier that can only be an enum builds no struct.
drop_struct_targets(W, s, cands) ==
    LET q == IF is_path(s) THEN by_name(W, last(s.qual)) ELSE {}
        only_enums == /\ is_path(s)
                      /\ \/ last(s.qual) = "Self"
                         \/ q # {} /\ \A e \in q : e.label \in {"Enum", "TypeAlias"}
    IN IF only_enums THEN {c \in cands : c.label # "Struct"} ELSE cands

named_candidates(W, s) ==
    LET seen == visible_candidates(W, s, by_name(W, s.name))
        kept == drop_struct_targets(W, s, seen)
    IN [kept |-> kept, decline |-> IF seen # {} /\ kept = {} THEN "variant_guard" ELSE ""]

\* A file some target's module tree reaches.
reached(W, e) == W.known => W.owners[e.file] # {} /\ e.file \notin W.outside

\* Whether the type a candidate's impl block writes, read in its own file, is one
\* of the types the path names.
binding_names_one(W, scope, types, bound) ==
    CASE bound.is = "path" -> \E t \in types : names(W, bound.path, t)
      [] bound.is = "decline" -> FALSE
      [] OTHER -> \E t \in types : t.file = scope.file /\ t.mods = scope.mods

impl_owner_is_named(W, c, types) ==
    LET scope == [file |-> c.file, mods |-> inline_modules(W, c)]
        written == SubSeq(c.mods, Len(scope.mods) + 1, Len(c.mods))
        path == WrittenPathOf(W, scope, written)
        admitted == {p \in glob_readings(W, scope, last(c.mods)) : \E t \in types : names(W, p, t)}
    IN /\ written # <<>>
       /\ \E t \in types : t.name = last(c.mods)
       /\ IF Len(written) > 1
          THEN path.read /\ \E t \in types : names(W, path, t)
          ELSE binding_names_one(W, scope, types, bind(W, scope, last(c.mods), admitted, FALSE))

gate_of_matched(matched) ==
    IF matched # {} THEN Gate(One(matched, "ImportMatch"), "") ELSE Gate(NotFound, "written_path")

\* A path that admits no candidate: the impl blocks of a type it names decide;
\* else the call declines when the path names nothing of the repository.
unadmitted(W, cands, owners, owner, fallback) ==
    LET is_type(e) == e.label \in TypeLabels \cup {"Trait"}
        types == {e \in by_name(W, owner) : is_type(e) /\ names(W, owners, e)}
        matched(ts) == {c \in cands : impl_owner_is_named(W, c, ts) /\ reached(W, c)}
        lacks_the_item == /\ \E e \in by_name(W, owner) : is_type(e)
                          /\ \A c \in cands : c.mods # <<>> => last(c.mods) # owner
    IN IF types # {}
       THEN gate_of_matched(matched(types))
       ELSE IF lacks_the_item \/ (~fallback /\ leaves_repository(W, owners))
            THEN Gate(NotFound, "written_path") ELSE Pass

gate_of_admitted(W, s, cands, rule, admitted) ==
    LET kept == {c \in admitted : reached(W, c)}
    IN IF kept # {} THEN Gate(One(kept, "ImportMatch"), "")
       ELSE IF admitted # {} THEN Pass
       ELSE unadmitted(W, cands, rule.path, last(s.qual), rule.fallback)

gate_of_path(W, s, cands, rule) ==
    CASE rule.is = "by_name" -> Pass
      [] rule.is = "decline" -> Gate(NotFound, "written_path")
      [] OTHER -> gate_of_admitted(W, s, cands, rule,
                     {c \in cands : names(W, item(W, rule.path, s.name), c)})

qualified_path_gate(W, s, cands) ==
    LET admitted == {p \in glob_readings(W, ScopeOf(s), last(s.qual)) :
                        \E c \in cands : names(W, item(W, p, s.name), c)}
    IN IF s.language # "rust" \/ cands = {} \/ ~is_path(s) THEN Pass
       ELSE gate_of_path(W, s, cands, qualifier_rule(W, ScopeOf(s), s.qual, admitted))

gate_of_name(W, s, named) ==
    LET imports == IF is_path(s) THEN {Append(s.qual, s.name)}
                   ELSE file_imports(W, s.caller.file)
    IN OrElse(qualified_path_gate(W, s, named.kept),
              Gate(resolve_two_pass(W, named.kept, imports, s.caller.file), named.decline))

\* One call site: the gates in order, then the policy over what the name leaves.
resolve_single_call(W, s) ==
    OrElse(same_class_receiver_gate(W, s),
    OrElse(rust_local_receiver_gate(W, s),
           IF names_external_path(W, s.caller.file, s) \/ by_name(W, s.name) = {}
              \/ s.form \in {"self_value", "local", "expr"}
           THEN Gate(NotFound, "")
           ELSE gate_of_name(W, s, named_candidates(W, s))))

-----------------------------------------------------------------------------
\* Why a site is left open (reason.rs classify); "" for a resolved one.
\* `not_a_call` for a target with no edge table is settled in settle.rs.

names_repo_variant(W, s) ==
    /\ s.language = "rust" /\ s.form \in {"path", "self_type"}
    /\ \E v \in W.variants :
          /\ v.name = s.name
          /\ IF s.form = "self_type" THEN v.file = s.caller.file /\ v.mods = s.caller.mods
             ELSE v.mods # <<>> /\ last(v.mods) = last(s.qual)

classify(W, s, g) ==
    LET external == external_origin(W, s, g.decline)
        known == \/ s.form \in {"self_value", "self_type"} \/ by_name(W, s.name) # {}
                 \/ s.hint # <<>> /\ \E e \in by_name(W, last(s.hint)) :
                        e.label \in {"Struct", "Enum", "Trait", "TypeAlias"}
    IN IF g.res.is = "resolved" THEN ""
       ELSE IF s.caller.file \in W.outside THEN "outside_targets"
       ELSE IF names_repo_variant(W, s) THEN "not_a_call"
       ELSE IF external # "" THEN "external_callee"
       ELSE IF g.decline # "" THEN "declined_by_scope"
       ELSE IF g.res.is = "ambiguous" THEN "ambiguous_candidates"
       ELSE IF s.language = "rust" /\ s.form \in {"local", "expr"} /\ s.hint = <<>>
            THEN "no_receiver_type"
       ELSE IF known THEN "not_found"
       ELSE "unknown_callee"

-----------------------------------------------------------------------------
\* A receiver call is never answered by a namesake of another type: its target is
\* a method of the caller's own type, or of the type the parser gave the receiver.
ReceiverOwnsTarget(W, s, g) ==
    g.res.is = "resolved" =>
        /\ s.form \in {"self_value", "self_type"} /\ s.caller.label = "Method"
               => owner_name(g.res.target) = owner_name(s.caller)
        /\ s.form \in {"local", "expr"}
               => s.hint # <<>> /\ owner_name(g.res.target) = last(s.hint)

\* The crates the comparison with Rust is about: the compiler accepts the names of
\* each module, and no glob, alone or through others, gives a name its module also
\* defines (the code then follows both on purpose).
Comparable(W) ==
    LET at(p) == SubSeq(p, 1, Len(p) - 1)
        places == Places(W) \ {<<>>}
    IN /\ \A e \in W.items : e.label = "Method" => RustPlaces(W, ImplType(W, e)) # {}
       /\ \A r \in W.rows : ~r.glob => Append(scope_module_path(W, r), r.binds) \notin places
       /\ \A r, q \in W.rows : r # q /\ ~r.glob /\ ~q.glob /\ r.binds = q.binds
                                 => scope_module_path(W, r) # scope_module_path(W, q)
       /\ \A r \in W.rows : r.glob => \A p \in {x \in places : at(x) = scope_module_path(W, r)} :
             RustPlaces(W, Append(anchor_in(W, "", at(p), r.path).path, last(p))) \subseteq {p}

\* The items of the repository the path call denotes in Rust.
Denoted(W, s) ==
    LET place == anchor_in(W, "", scope_module_path(W, ScopeOf(s)), s.qual)
    IN IF place = Nowhere THEN {} ELSE RustDenotes(W, place.path, s.name)

\* A path call is settled as Rust reads the path: a target the written path gave
\* is the one item the path denotes, and a callee called external is none.
PathIsRust(W, s, g) ==
    s.form = "path" /\ s.language = "rust" /\ Comparable(W) =>
        /\ s.qual[1] \in Keywords /\ g.res.is = "resolved" /\ g.res.evidence = "ImportMatch"
              => Denoted(W, s) = {g.res.target}
        /\ classify(W, s, g) = "external_callee" => Denoted(W, s) = {}

=============================================================================
