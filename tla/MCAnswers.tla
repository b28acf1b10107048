----------------------------- MODULE MCAnswers -----------------------------
(***************************************************************************)
(* The components that answer a question from what was read: call          *)
(* resolution, the C family, type edges, diffs, impact, clustering, the    *)
(* PRD tools, doc claims, cargo attribution, infrastructure files, the     *)
(* walk of the tree and search.  The first state chooses what was read,    *)
(* the step the question; every answer is compared with its reference      *)
(* definition.                                                             *)
(***************************************************************************)
EXTENDS Answers, TLC

\* Cases README.md describes in which an answer is not what its comments say, or in
\* which the code promises nothing; FALSE leaves them out.
CONSTANTS
    Paired,       \* a module may be declared twice under different gates
    Undecided,    \* a name may have several rows of which not one is active
    Dynamic,      \* a method of a trait may be called through the trait
    Refiltered,   \* a refresh may have another language filter than the pass before
    LostReports,  \* a coverage report may not be saved
    FailedPasses, \* the infrastructure pass of a refresh may fail
    Undiffable,   \* an edge of a graph may lead to a node of a label that is not diffed
    AllSymbols    \* a change in a method or in an inline module is asked for too

Cpp == INSTANCE CppScope
Diff == INSTANCE Diffs
Clu == INSTANCE Clustering
Cargo == INSTANCE CargoScope
Find == INSTANCE Search WITH MAX_FETCH_LIMIT <- 7

AtMostOne(S) == {{}} \cup {{x} : x \in S}
AtMostTwo(S) == {{}} \cup {{x, y} : x, y \in S}
Upto(S, n) == UNION {[1..k -> S] : k \in 0..n}

-----------------------------------------------------------------------------
(* Calls in Rust: a crate root with modules a and b in files of their own  *)
(* and c inside a; functions f and a type T with a method f.               *)

RsFiles == {"root", "fa", "fb"}
Fn(file, mods) == [file |-> file, mods |-> mods, name |-> "f",
                   label |-> IF mods # <<>> /\ Last(mods) = "T" THEN "Method" ELSE "Function"]
Ty(file) == [file |-> file, mods |-> <<>>, name |-> "T", label |-> "Struct"]
RsModules == {[file |-> "root", mods |-> <<>>, name |-> n, label |-> "Module"] : n \in {"a", "b"}}
               \cup {[file |-> "fa", mods |-> <<>>, name |-> "c", label |-> "Module"]}
Things == {Fn("root", <<>>), Fn("fa", <<>>), Fn("fb", <<>>), Fn("fa", <<"c">>),
           Ty("fa"), Ty("fb"), Fn("fa", <<"T">>), Fn("fb", <<"T">>),
           Fn("fb", <<"crate", "a", "T">>)}
\* Beside a type of its name, an impl block of the other one.
TwoTypes == {Ty("fa"), Ty("fb"), Fn("fb", <<"crate", "a", "T">>)}

Use(file, mods, path, binds, glob) ==
    [file |-> file, mods |-> mods, path |-> path, binds |-> binds, glob |-> glob]
Uses == {Use("root", <<>>, <<"a", "f">>, "f", FALSE), Use("root", <<>>, <<"b">>, "b", TRUE),
         Use("fa", <<>>, <<"super", "b", "f">>, "f", FALSE),
         Use("fa", <<>>, <<"super">>, "super", TRUE),
         Use("fa", <<>>, <<"self", "c", "f">>, "f", FALSE),
         Use("fa", <<"c">>, <<"super">>, "super", TRUE),
         Use("fa", <<>>, <<"ext", "b">>, "b", FALSE),
         Use("fa", <<>>, <<"crate", "b", "T">>, "T", FALSE)}

Crate(things, uses, known) ==
    [known |-> known, crate_names |-> IF known THEN {"fx"} ELSE {},
     owners |-> [x \in RsFiles |-> IF known THEN {"root"} ELSE {}],
     lib |-> [x \in {"root"} |-> "fx"],
     module |-> [root |-> <<>>, fa |-> <<"a">>, fb |-> <<"b">>],
     items |-> things \cup RsModules,
     modules |-> {[file |-> x, mods |-> <<>>] : x \in RsFiles}
                   \cup {[file |-> "fa", mods |-> <<"c">>]},
     rows |-> uses, std |-> {"Vec"}, capital |-> {"T", "Vec"},
     package |-> [x \in RsFiles |-> <<>>],
     tails |-> {}, variants |-> {}, returns |-> {}, outside |-> {}]

Caller(file, mods, label) == [file |-> file, mods |-> mods, name |-> "g", label |-> label]
Callers == {Caller("root", <<>>, "Function"), Caller("fa", <<>>, "Function"),
            Caller("fa", <<"c">>, "Function")}
Site(c, form, qual) ==
    [language |-> "rust", caller |-> c, modules |-> IF c.label = "Method" THEN <<>> ELSE c.mods,
     form |-> form, qual |-> qual, name |-> "f", hint |-> <<>>, via |-> "",
     via_path |-> <<"crate", "T">>, assoc |-> "f", in_place |-> FALSE]
PathSites ==
    {Site(c, "path", q) : c \in Callers,
        q \in {<<"crate">>, <<"a">>, <<"b">>, <<"crate", "a">>, <<"self", "c">>, <<"super">>,
               <<"super", "super">>, <<"fx", "a">>, <<"std">>, <<"T">>, <<"crate", "a", "T">>,
               <<"crate", "b", "T">>, <<"ext">>}}
ReceiverSites ==
    {[Site(c, "local", <<>>) EXCEPT !.hint = h, !.via = v] : c \in Callers,
        h \in {<<>>, <<"T">>, <<"crate", "b", "T">>, <<"b", "T">>},
        v \in {"", "assoc", "local_import", "return_type", "constructed", "import"}}
    \cup {Site(Caller(x, <<"T">>, "Method"), form, <<"Self">>) :
            x \in RsFiles, form \in {"self_value", "self_type"}}
    \cup {[Site(c, "bare", <<>>) EXCEPT !.language = l] : c \in Callers, l \in {"rust", "python"}}

RustWorlds == {w \in [t : AtMostTwo(Things) \cup {TwoTypes}, u : AtMostTwo(Uses), k : BOOLEAN] :
                  /\ w.u \in AtMostOne(Uses) \/ w.k
                  /\ Calls!Comparable(Crate(w.t, w.u, w.k))}

-----------------------------------------------------------------------------
(* Calls in C and C++: a source file, a header and a file it includes.     *)

CFiles == {"main", "head", "part"}
Includes == {{}, {<<"head.h">>}, {<<"lib", "part.c">>}, {<<"..", "head.h">>}, {Cpp!Computed}}
Alias(file, target) == [path |-> <<"A">>, file |-> file, target |-> target]
CWorlds ==
    {[paths |-> [main |-> pm, head |-> ph, part |-> {}],
      place |-> [main |-> <<"src", "main.c">>, head |-> <<"head.h">>,
                 part |-> <<"src", "lib", "part.c">>],
      source |-> {"main", "part"},
      bases |-> [c \in {<<"ns", "B">>, <<"ns", "D">>, <<"E">>} |->
                    IF c = <<"ns", "D">> THEN {<<"B">>} ELSE {}],
      aliases |-> as] :
        pm \in Includes, ph \in Includes \ {{<<"head.h">>}},
        as \in {{}, {Alias("main", <<"ns", "D">>), Alias("head", <<"E">>)},
                {Alias("part", <<"E">>)}}}

Cand(file, owner, label, internal, body) ==
    [id |-> <<file, owner>>, file |-> file, owner |-> owner, label |-> label,
     internal |-> internal, body |-> body]
Cands == {Cand(x, <<>>, "Function", i, b) :
              x \in CFiles, i \in BOOLEAN, b \in {"body", "prototype"}}
           \cup {Cand("head", o, "Method", FALSE, "body") :
                    o \in {<<"ns", "B">>, <<"ns", "D">>, <<"E">>}}
CSite(language, shape, via, hint, label) ==
    [language |-> language, file |-> "main", shape |-> shape, via |-> via, hint |-> hint,
     callee |-> "f", caller_label |-> label,
     caller_owner |-> IF label = "Method" THEN <<"ns", "D">> ELSE <<>>]
CSites ==
    {CSite("c", shape, "", <<>>, "Function") : shape \in {"direct", "member", "indirect"}}
    \cup {CSite("cpp", shape, "", <<>>, label) :
            shape \in {"direct", "member", "indirect"}, label \in {"Method", "Function"}}
    \cup {CSite("cpp", "member", "cpp_this", <<>>, "Method")}
    \cup {CSite("cpp", "member", "cpp_declared", h, "Function") : h \in {<<"A">>, <<"D">>}}
    \cup {CSite("cpp", "direct", "cpp_qualifier", h, "Method") : h \in {<<>>, <<"A">>, <<"D">>}}

-----------------------------------------------------------------------------
(* Diffs: graphs of three functions, scripts of one or two hunks, logs of  *)
(* up to three commits.                                                    *)

ThreeFns == {[label |-> "Function", name |-> n] : n \in {"a", "b", "c"}}
AnEnum == [label |-> "Enum", name |-> "e"]
AVariant == [label |-> "Variant", name |-> "e::v"]
HasVariant == [kind |-> "HasVariant", from |-> AnEnum, to |-> AVariant]
CallGraphs ==
    {[nodes |-> IF Undiffable THEN ThreeFns \cup {AnEnum, AVariant} ELSE ThreeFns,
      edges |-> IF Undiffable THEN E \cup {HasVariant} ELSE E, unresolved |-> 0] :
        E \in SUBSET {[kind |-> "Calls", from |-> x, to |-> y] : x, y \in ThreeFns}}
Hunks(paths, lengths, starts) ==
    {[path |-> p, change |-> c, start |-> s, body |-> b] : p \in paths,
        c \in {"new", "deleted", "modified"}, s \in starts,
        b \in UNION {[1..n -> {"added", "removed", "context"}] : n \in lengths}}
Scripts == {<<x>> : x \in Hunks({"f", "g"}, 1..3, {1, 2})}
             \cup {<<x, y>> : x \in Hunks({"f"}, {2}, {1, 2}), y \in Hunks({"g"}, {1, 2}, {1})}
SymbolAt(file, n) ==
    [file |-> file, by |-> IF n = 4 THEN "Module" ELSE "File",
     label |-> IF n = 2 THEN "Method" ELSE "Function",
     name |-> [f |-> <<"f1", "f2", "f3", "f4">>, g |-> <<"g1", "g2", "g3", "g4">>][file][n],
     first |-> IF n = 4 THEN 1 ELSE n, last |-> IF n = 4 THEN 2 ELSE n + 1]
Symbols == {SymbolAt(x, n) : x \in {"f", "g"}, n \in 1..4}
Logs == {[i \in DOMAIN l |-> [sha |-> i, parents |-> l[i][1], changed |-> l[i][2]]] :
            l \in Upto({1, 2} \X (SUBSET {"x", "y"}), 3) \ {<<>>}}

-----------------------------------------------------------------------------
(* Impact of changing a method of Own, a function or a trait: at most one  *)
(* site that may call it.                                                  *)

NONE == Imp!NONE
ImpactTargets ==
    [label : {"Method"}, language : {"rust"}, owner : {"Own"}, trait : {NONE, "Tr"}, twins : {0}]
    \cup [label : {"Function", "Trait"}, language : {"rust"}, owner : {NONE}, trait : {NONE},
          twins : {0, 2}]
    \cup [label : {"Method"}, language : {"cpp"}, owner : {"Own"}, trait : {NONE}, twins : {0}]
States == {"open", "target", "other"}
ImpactSites ==
    [shape : {"bare"}, names : {NONE}, language : {"rust"}, reason : {NONE}, state : States,
     conf : {0, 90, 100}, calls : BOOLEAN]
    \cup [shape : {"recv", "path"},
          names : {NONE, "Self", "Own", "Oth", "Wrap", "Al", "Vec", "Box", "Tr"},
          language : {"rust"}, reason : {NONE, "external_callee"}, state : States,
          conf : {100}, calls : BOOLEAN]
    \cup [shape : {"recv"}, names : {"Oth", "Vec"}, language : {"cpp"}, reason : {NONE},
          state : {"open"}, conf : {100}, calls : BOOLEAN]
Nothing == [x \in {} |-> NONE]
ImpactWorld(p, sites, sidecar, columns) ==
    [target |-> p.t, sites |-> sites, types |-> {"Own", "Oth", "Wrap"}, alias |-> p.a,
     deref |-> p.d, unseen |-> p.u, sidecar |-> sidecar, siblings |-> {}, columns |-> columns,
     docsWithoutReferences |-> FALSE]
ImpactFirst ==
    [t : ImpactTargets, a : {Nothing} \cup [{"Al"} -> {"Own", "Oth"}],
     d : {Nothing, [Wrap |-> "Oth", Oth |-> "Own"]} \cup [{"Wrap"} -> {"Own", "Oth"}],
     u : BOOLEAN]
Sidecars == [present : {TRUE}, gaps : {0, 1}, cargo : {"known", "unknown"}]
              \cup [present : {FALSE}, gaps : {0}, cargo : {"known"}]

-----------------------------------------------------------------------------
(* Clustering: four symbols or files in a row; neighbours may be joined by *)
(* a call either way or by an import, and the ends by calls.               *)

Four == 1..4
Edge(i, rel, j) == [from |-> i, to |-> j, rel |-> rel]
Joins(i, j) == {{}, {Edge(i, "Calls", j)}, {Edge(j, "Calls", i)}, {Edge(i, "Imports", j)}}
EdgeSets == {UNION {a, b, c, d} : a \in Joins(1, 2), b \in Joins(2, 3), c \in Joins(3, 4),
               d \in {{}, {Edge(1, "Calls", 3)}, {Edge(4, "Calls", 1), Edge(1, "Calls", 1)}}}
Joined(edges) == [n |-> 4, w |-> Clu!collect_weighted_edges(4, edges)]
CallsOf(edges) == {<<x.from, x.to>> : x \in {e \in edges : e.rel = "Calls"}}
Partitions == {c \in [Four -> Four] : c[1] = 1 /\ \A i \in 2..4 : c[i] <= i}
Labels == {[i \in Four |-> IF i \in S THEN "File" ELSE "Function"] : S \in {{}, {2}}}
Shapes == [i \in Four |-> CASE i = 1 -> {"main"} [] i = 4 -> {"test", "lib_entry"} [] OTHER -> {}]

-----------------------------------------------------------------------------
(* PRD tools: claims about two files, gates over their imports, findings   *)
(* grounded in search hits.                                                *)

PrdNames == {<<p>> \o i : p \in {<<"a.rs">>, <<"src", "a.rs">>, <<"src", "c.sh">>},
                          i \in {<<<<"f">>>>, <<<<"S">>, <<"new">>>>}}
Row(name, gate, active) ==
    [qn |-> name, gate |-> gate, active |-> active, label |-> "Function", vis |-> "pub",
     top |-> TRUE, auth |-> FALSE, comms |-> {1}, procs |-> {}, tests |-> {}]
RowSets == {{}} \cup {{Row(n, "", TRUE)} : n \in PrdNames}
             \cup {{Row(n, "x", x), Row(n, "y", y)} : n \in PrdNames, x, y \in BOOLEAN}
FileSets == SUBSET {<<<<"a.rs">>>>, <<<<"src", "a.rs">>>>, <<<<"a.rs">>, <<"f">>>>}
Imports == {{[qn |-> n, resolved |-> n \in d] : n \in s} :
              s \in SUBSET {<<<<"a.rs">>, <<"i">>>>, <<<<"a.rs">>, <<"j">>>>,
                            <<<<"a.rs">>, <<"f">>, <<"i">>>>, <<<<"src", "a.rs">>, <<"i">>>>},
              d \in SUBSET {<<<<"a.rs">>, <<"i">>>>, <<<<"a.rs">>, <<"f">>, <<"i">>>>}}
PrdGraphs == {g \in [files : FileSets, rows : RowSets, imports : {{}}] :
                 Undecided \/ Decided(g)}
PrdClaims == [name : PrdNames \cup {<<<<"f">>>>, <<<<"S">>, <<"new">>>>}, kind : {"modify", "add"}]
GateGraphs == [files : FileSets, imports : Imports,
               rows : {{Row(n, "", TRUE)} : n \in {<<<<"a.rs">>, <<"f">>>>,
                                                   <<<<"a.rs">>, <<"f">>, <<"g">>>>}}]
Hit(name, label, c) ==
    [qn |-> name, name |-> name, tail |-> name, label |-> label, comm |-> c, proc |-> c]
SearchHits == {Hit("handle", "Function", 1), Hit("handle", "Function", 2),
               Hit("handle_tool", "Function", 2), Hit("readme", "File", 3)}
FindingDirs == [receipt : {"verified", "no"}, refined : {"readable", "no"}, index : {"readable"}]
                  \cup [receipt : {"verified"}, refined : {"readable"}, index : {"absent", "invalid"}]
Searches == [{"handle", "handle_tool", "tool"} -> Upto(SearchHits, 1)]

-----------------------------------------------------------------------------
(* Doc claims: one file f with one or two declarations, one file o without. *)

Decl(line, name, label, lang) ==
    [file |-> "f", line |-> line, name |-> name, label |-> label, lang |-> lang, vis |-> "",
     trait |-> "", gate |-> "", attr |-> FALSE, nested |-> FALSE, entry |-> "",
     macro |-> FALSE, variants |-> <<>>]
Tested(line, name, entries) ==
    {[Decl(line, name, "Function", "rust") EXCEPT
        !.gate = g, !.attr = a, !.nested = n, !.entry = e, !.macro = m] :
        g \in {"", "test", "unix", "kani"}, a \in BOOLEAN, n \in BOOLEAN, e \in entries,
        m \in BOOLEAN}
NamedDecls(line, gates) ==
    {d \in {[Decl(line, "s", label, lang) EXCEPT !.vis = v, !.trait = t, !.gate = g] :
              label \in {"Function", "Method", "Struct", "Module"}, lang \in {"rust", "go"},
              v \in {"", "pub", "pub(crate)"}, t \in {"", "impl", "decl"}, g \in gates} :
       /\ d.trait # "" => d.label = "Method" /\ d.vis = "" /\ d.lang = "rust"
       /\ d.lang = "go" => d.vis # "pub(crate)"}
Enums == {[Decl(9, "e", "Enum", "rust") EXCEPT !.variants = v] : v \in Upto(BOOLEAN, 2)}
           \cup {[Decl(9, "e", "Enum", "go") EXCEPT !.variants = v] : v \in Upto({FALSE}, 2)}
Source(decls, ctx, gate, readable) ==
    [decls |-> decls, ctx |-> [f |-> ctx], gate |-> [f |-> gate], readable |-> [f |-> readable],
     others |-> {"o"}]
Claim(kind, file, name, expected, atLeast) ==
    [kind |-> kind, subject |-> [file |-> file, name |-> name], expected |-> expected,
     atLeast |-> atLeast, anchored |-> TRUE]
Counted ==
    {Source({x, y}, c, g, r) : x \in Tested(1, "t", {"test"}), y \in Tested(2, "u", {"test", "proof"}),
        c \in {"production"}, g \in {"", "unix"}, r \in BOOLEAN}
    \cup {Source({x, y}, "bench", g, TRUE) :
            x \in {d \in Tested(1, "t", {"test"}) : ~d.macro},
            y \in {d \in Tested(2, "u", {"test"}) : ~d.macro}, g \in {"", "test"}}
Public ==
    {Source({x}, "production", "", TRUE) : x \in NamedDecls(1, {"unix"})}
    \cup {Source({xy[1], xy[2]}, "production", "", TRUE) :
            xy \in {p \in NamedDecls(1, {"unix"}) \X NamedDecls(2, {"", "unix"}) :
                       p[1].label = p[2].label /\ p[1].lang = p[2].lang}}

-----------------------------------------------------------------------------
(* Type edges: a struct C, an enum E and a trait D that name B; B is any   *)
(* of a trait, two twins of one, a namesake elsewhere, a struct, a         *)
(* function.                                                               *)

Sym(file, name, text, label) ==
    [file |-> file, mods |-> <<>>, name |-> name, text |-> text, label |-> label]
C == Sym("f", "C", "C", "Struct")
D == Sym("f", "D", "D", "Trait")
E == Sym("f", "E", "E", "Enum")
B(file, label) == Sym(file, "B", "B", label)
BTwins(label) == <<Sym("f", "B", "B#unix", label), Sym("f", "B", "B#other", label)>>
Name(text, end, sep) == [text |-> text, last |-> end, sep |-> sep]
PlainB == Name("B", "B", "")
Names == {<<>>, <<PlainB>>, <<PlainB, PlainB>>, <<Name("p.B", "B", ".")>>, <<Name("p::B", "B", "::")>>}
Debug == Name("Debug", "Debug", "")
ImportOf(id, path, glob, external) ==
    [id |-> id, file |-> "f", path |-> path, glob |-> glob, external |-> external]
TypeWorlds ==
    [traits : {<<>>, <<B("f", "Trait")>>, BTwins("Trait"), <<B("g", "Trait")>> \o BTwins("Trait"),
               BTwins("Trait") \o <<B("g", "Trait")>>, <<B("f", "Trait"), B("g", "Trait")>>},
     structs : {<<C>>, <<B("h", "Struct"), C>>, <<C>> \o BTwins("Struct")},
     functions : {<<>>, <<B("h", "Function")>>},
     imports : {<<>>, <<ImportOf("i", <<"g", "B">>, FALSE, FALSE)>>,
                <<ImportOf("i", <<"std", "B">>, FALSE, TRUE), ImportOf("j", <<"g">>, TRUE, FALSE)>>,
                <<ImportOf("i", <<"crate", "B">>, FALSE, FALSE), ImportOf("j", <<"g", "B">>, FALSE, FALSE)>>}]
\* Bases and traits are read by different passes: one of the two is a plain one.
TypeQuestions ==
    {q \in [bases : Names, traits : Names \cup {<<Debug>>, <<Debug, PlainB>>}, rust : BOOLEAN,
            block : {<<>>, <<"f", "C">>, <<"f", "X">>}, words : {<<>>, <<"Vec", "B">>}] :
       {q.bases, q.traits} \cap {<<>>, <<PlainB>>} # {}}
TypeWorld(w, q) ==
    [rows |-> [l \in {"Method", "Constant", "TypeAlias", "Module", "File"} |-> <<>>]
                @@ ("Function" :> w.functions) @@ ("Struct" :> w.structs)
                @@ ("Enum" :> <<E>>) @@ ("Trait" :> Append(w.traits, D)),
     imports |-> w.imports,
     bases |-> [e \in {w.structs[k] : k \in DOMAIN w.structs} \cup {E, D}
                  \cup {w.traits[k] : k \in DOMAIN w.traits} |-> IF e \in {C, D} THEN q.bases ELSE <<>>],
     implements |-> [e \in {w.structs[k] : k \in DOMAIN w.structs} \cup {E} |->
                       IF e \in {C, E} THEN q.traits ELSE <<>>],
     blocks |-> IF q.block = <<>> THEN <<>>
                ELSE <<[receiver |-> q.block, trait |-> Name("p::B", "B", "::")],
                       [receiver |-> q.block, trait |-> PlainB]>>,
     fields |-> <<[id |-> <<"f", "C", "x">>, types |-> q.words]>>,
     callables |-> <<[id |-> <<"f", "C", "m">>, label |-> "Method", result |-> q.words, built |-> q.words],
                     [id |-> <<"f", "fn">>, label |-> "Function", result |-> <<"int">>, built |-> q.words]>>,
     sep |-> IF q.rust THEN "::" ELSE ".",
     derives |-> IF q.rust THEN [Debug |-> <<"fmt::Debug">>] ELSE <<>>,
     upper |-> {"Vec", "B"}, primitives |-> {"Vec"}, tails |-> {}]

-----------------------------------------------------------------------------
(* Cargo attribution: a library and a test target, two modules below them. *)

Leaf(feature, key, value) == [feature |-> feature, key |-> key, value |-> value]
fast == Leaf(TRUE, "fast", TRUE)
Gates == {{}, {fast}, {Leaf(TRUE, "fast", FALSE)}, {Leaf(FALSE, "kani", TRUE)},
          {Leaf(FALSE, "test", TRUE)}, {Leaf(FALSE, "unix", TRUE)}}
Mod(name, gate, parsed, at, alts) ==
    [name |-> name, parsed |-> parsed, cfg |-> gate, at |-> at, alts |-> alts]
Features == {Nothing, [default |-> {[name |-> "more", form |-> "plain"]},
                       more |-> {[name |-> "fast", form |-> "plain"]}, fast |-> {}]}
First == {<<Mod("m", g, p, <<"a">>, <<>>)>> : g \in Gates, p \in BOOLEAN}
           \cup {<<Mod("m", g, TRUE, <<"a">>,
                       <<[pred |-> fast, parsed |-> TRUE, at |-> <<"b">>]>>)>> : g \in Gates}
Second == {<<>>} \cup {IF Paired THEN <<Mod("m", g, TRUE, <<"a", "b">>, <<>>)>>
                       ELSE <<Mod("n", g, TRUE, <<"b", "b">>, <<>>)>> : g \in Gates}
Crates == [lib : Features, test : Features, d1 : First, d2 : Second]
CargoWorld(c, inner, tests) ==
    LET files == {"lib", "t", "a", "b"} IN
    [manifest |-> TRUE, metadata |-> TRUE, disk |-> files, indexed |-> files,
     packages |-> {[features |-> c.lib, targets |-> {[entry |-> "lib", kind |-> "production"]}],
                   [features |-> c.test, targets |-> {[entry |-> "t", kind |-> "test"]}]},
     dirs |-> [lib |-> {"src"}, t |-> {"tests"}, a |-> {"other"}, b |-> {"other"}],
     home |-> [lib |-> "src", t |-> "", a |-> "other", b |-> "other"],
     decls |-> [lib |-> c.d1 \o c.d2, t |-> tests, a |-> inner, b |-> <<>>]]

-----------------------------------------------------------------------------
(* Infrastructure: a Dockerfile, a deployment and the ConfigMap it names,  *)
(* a base and an overlay; one or two files are written or removed.         *)

Kube(kind, name, images, templated, refs) ==
    [api |-> kind # "", kind |-> kind, name |-> name, ns |-> "", images |-> images,
     templated |-> templated, refs |-> refs]
Text(is, readable, images, paths, docs) ==
    [is |-> is, readable |-> readable, images |-> images, paths |-> paths, docs |-> docs]
Texts ==
    [docker |-> {Text("dockerfile", TRUE, im, p, <<>>) : im \in {{}, {"base"}}, p \in SUBSET {<<"app">>}},
     m |-> {Text("yaml", TRUE, {}, {}, <<Kube("Deployment", "w", {"web"}, x, r)>>) :
              x \in BOOLEAN, r \in SUBSET {[kind |-> "ConfigMap", name |-> "c"]}}
            \cup {Text("yaml", TRUE, {}, {}, <<Kube("", "", {}, FALSE, {})>>)},
     c |-> {Text("yaml", TRUE, {}, {}, <<Kube("ConfigMap", n, {}, FALSE, {})>>) : n \in {"c", ""}},
     over |-> {Text("kustomization", r, {}, p, <<>>) : r \in BOOLEAN,
                 p \in {{<<"b", "base">>}, {<<"b", "base">>, <<"m">>}}},
     base |-> {Text("kustomization", TRUE, {}, p, <<>>) : p \in SUBSET {<<"m">>}},
     app |-> {Text("other", TRUE, {}, {}, <<>>)}]
Placed == [f \in DOMAIN Texts |-> IF f = "docker" THEN "web" ELSE "k"]
Without(tree, gone) == [f \in (DOMAIN tree) \ gone |-> tree[f]]
Written(tree, f, text) == (f :> text) @@ tree
Stacks ==
    {Without(s, gone) : gone \in {{}, {"base"}, {"c"}, {"docker"}},
        s \in [docker : {x \in Texts.docker : x.images = {"base"}}, m : Texts.m, c : Texts.c,
               over : Texts.over, base : Texts.base, app : Texts.app]}

-----------------------------------------------------------------------------
(* The walk: a/x.rs, a/vendor/y.h and z, any of them a file, a directory   *)
(* or a repository of its own; two passes with different options.          *)

Entry(is) == [is |-> is, repo |-> FALSE, locked |-> FALSE, big |-> FALSE, ext |-> "",
              parse |-> [l \in Filters |-> "clean"], iac |-> "none"]
Dir == Entry("dir")
Locked == [Dir EXCEPT !.locked = TRUE]
x_rs == <<"a", "x.rs">>
RsFile(parse) == [Entry("file") EXCEPT !.ext = "rs", !.parse = [l \in Filters |-> parse]]
\* A header in C++, which the grammar of C reads in part.
Header(big) ==
    [Entry("file") EXCEPT !.ext = "h", !.big = big,
                          !.parse = [l \in Filters |-> IF l \in {"", "cpp"} THEN "clean" ELSE "partial"]]
WalkTrees ==
    {(<<"a">> :> d) @@ (<<"a", "vendor">> :> v) @@ (x_rs :> RsFile(p))
        @@ (<<"a", "vendor", "y.h">> :> Header(z.is = "link"))
        @@ (<<"z">> :> z) @@ (<<".git">> :> Dir) :
        d \in {Dir, Locked, [Dir EXCEPT !.repo = TRUE]}, v \in {Dir, Locked},
        p \in {"clean", "quarantined"},
        z \in {[Entry("file") EXCEPT !.iac = "skipped"], Entry("link")}}
Rewritten(T, d, parse) == (<<"a">> :> d) @@ (x_rs :> RsFile(parse)) @@ T
Options == [scope : {"none", "full"}, filter : {"", "c"},
            exclude : {{}, {[sep |-> FALSE, parts |-> <<"vendor">>]},
                       {[sep |-> TRUE, parts |-> <<".", "a">>]}}]
Silent == [known |-> FALSE, outside |-> {}, gated |-> {}]
Attributed(outside) == [known |-> TRUE, outside |-> outside, gated |-> {x_rs}]

-----------------------------------------------------------------------------
(* Search: eight symbols, two of them files and one of a rare label; pages *)
(* of one or two hits.  A fetch reads at most seven documents, and some    *)
(* searches ask for more than the second place of one ranking scores.      *)

Keys == 1..8
Rotate(s, r) == [i \in DOMAIN s |-> s[((i + r) % Len(s)) + 1]]
Mirror(s) == [i \in DOMAIN s |-> s[Len(s) + 1 - i]]
LabelOf(rare) == [i \in Keys |-> IF i \in {7, 8} THEN "File"
                                 ELSE IF i = rare THEN "Trait" ELSE "Function"]
SearchFirst == [rare : {0, 6, 3, 1}, r : {0, 6}, gone : {{}, {8}, {2, 4}}, twin : BOOLEAN,
                lx : BOOLEAN, sx : BOOLEAN, terms : 0..2]
SearchWorld(p) ==
    LET order == [i \in Keys |-> [key |-> i, label |-> LabelOf(p.rare)[i]]]
        doubles == IF p.twin THEN <<[key |-> 1, label |-> "Module"]>> ELSE <<>>
        nodes == {order[i] : i \in Keys \ p.gone} \cup {doubles[i] : i \in DOMAIN doubles}
    IN  [nodes |-> nodes, texts |-> nodes, small |-> {2},
         procs |-> [i \in Keys |-> CASE i = 1 -> <<"p", "q">> [] i = 5 -> <<"q">> [] OTHER -> <<>>],
         lexical |-> [on |-> p.lx, docs |-> {}],
         semantic |-> [on |-> p.sx, docs |-> Find!index_symbol_docs(nodes)],
         bodies |-> FALSE,
         bm25 |-> SelectSeq(doubles \o Rotate(order, p.r), LAMBDA d : d \in nodes),
         tfidf |-> SelectSeq(Mirror(order), LAMBDA d : d \in nodes /\ d.label # "File"),
         terms |-> [t \in 1..p.terms |->
                      [i \in Keys |-> IF (i + t) % 2 = 0 THEN "path"
                                      ELSE IF i = 3 THEN "exact" ELSE "none"]]]

-----------------------------------------------------------------------------
(* The worlds are of the shapes the theorems speak of.                     *)

ASSUME ShapesHold ==
    /\ \A T \in WalkTrees, d \in {Dir, Locked}, p \in {"clean", "skipped"} :
          IsTree(T) /\ IsTree(Rewritten(T, d, p))
    /\ \A f \in DOMAIN Texts : \A x \in Texts[f] : AreTexts(f :> x)
    /\ \A s \in PathSites \cup ReceiverSites : HintIsImported(s)
    /\ \A w \in TypeWorlds, q \in TypeQuestions : IsTypeWorld(TypeWorld(w, q))
    /\ \A p \in ImpactFirst, s \in ImpactSites :
          Plausible(ImpactWorld(p, {s}, CHOOSE c \in Sidecars : TRUE, {}))
    /\ \A G \in PrdGraphs : IsPrdGraph(G) /\ (Undecided \/ Decided(G))
    /\ \A c \in PrdClaims : IsName(c.name)
    /\ \A G \in GateGraphs : IsPrdGraph(G) /\ GateRow(G) \in exact_match_qn(G, GateRow(G).qn)
    /\ \A hits \in Searches : AreSearches(hits, <<"handle", "handle_tool", "tool">>)
    /\ \A T \in Counted \cup Public \cup {Source({x}, "production", "", TRUE) : x \in Enums} :
          WrittenTree(T)

-----------------------------------------------------------------------------
(* The first state is what was read, the step a question about it.         *)

Read(kind, w) == probe = [is |-> kind, w |-> w, q |-> <<>>]
Has(kind) == probe.is = kind /\ probe.q = <<>>
Ask(q) == probe' = [probe EXCEPT !.q = <<q>>]

Init ==
    \/ \E w \in RustWorlds : Read("rust", w)
    \/ \E w \in CWorlds : Read("cpp", w)
    \/ \E w \in TypeWorlds : Read("types", w)
    \/ \E w \in CallGraphs : Read("graph", w)
    \/ \E w \in Scripts : Read("script", w)
    \/ \E w \in Logs : Read("log", w)
    \/ \E w \in ImpactFirst : Read("impact", w)
    \/ \E w \in EdgeSets : Read("cluster", w)
    \/ \E w \in PrdGraphs : Read("claim", w)
    \/ \E w \in GateGraphs : Read("gate", w)
    \/ \E w \in Searches : Read("ground", w)
    \/ \E w \in Counted : Read("count", w)
    \/ \E w \in Public : Read("public", w)
    \/ \E x \in Enums, r \in BOOLEAN : Read("enum", Source({x}, "production", "", r))
    \/ \E w \in Crates : Read("cargo", w)
    \/ \E w \in Stacks : Read("infra", w)
    \/ \E T \in WalkTrees, O \in Options, c \in {Silent, Attributed({x_rs})} : Read("walk", [T |-> T, O |-> O, c |-> c])
    \/ \E w \in SearchFirst : Read("search", w)

AskCall ==
    /\ Has("rust")
    /\ \E s \in PathSites \cup (IF Cardinality(probe.w.u) < 2 THEN ReceiverSites ELSE {}) : Ask(s)
AskCpp == Has("cpp") /\ \E s \in CSites, c \in AtMostTwo(Cands) \ {{}} : Ask([s |-> s, c |-> c])
AskTypes == Has("types") /\ \E q \in TypeQuestions : Ask(TypeWorld(probe.w, q))
AskDiff ==
    \/ Has("graph") /\ \E S \in SUBSET ThreeFns :
          Ask([probe.w EXCEPT !.edges = {e \in @ : e.from \in S \cup {AnEnum}}])
    \/ Has("script") /\ \E known \in {{"f"}, {"f", "g"}} : Ask(known)
    \/ Has("log") /\ Ask("versions")
AskImpact ==
    /\ Has("impact")
    /\ \E s \in AtMostOne(ImpactSites), c \in Sidecars,
          k \in {{}, {"unresolved_reason"}, {"unresolved_reason", "receiver_hint"}} :
          LET w == ImpactWorld(probe.w, s, c, k) IN Imp!IsWorld(w, Dynamic) /\ Ask(w)
AskCluster == Has("cluster") /\ \E c \in Partitions, l \in Labels : Ask([c |-> c, l |-> l])
AskClaim == Has("claim") /\ \E c \in PrdClaims : Ask(c)
AskGate == Has("gate") /\ Ask("gate")
AskGround ==
    /\ Has("ground")
    /\ \E d \in FindingDirs, fi \in BOOLEAN,
          v \in Upto({"handle", "handle_tool"}, 1), n \in Upto({"handle", "handle_tool", "tool"}, 2) :
          Ask([d |-> d, fi |-> fi, v |-> v, n |-> n])
AskCount == Has("count") /\ \E k \in {"test_count", "proof_count"}, x \in 0..2, al \in BOOLEAN :
                               Ask(Claim(k, "", "", x, al))
AskPublic ==
    /\ Has("public")
    /\ \E k \in {"is_public", "symbol_exists", "module_exists", "file_exists"},
          file \in {"", "f", "g", "o"} : Ask(Claim(k, file, "s", 0, FALSE))
AskEnum == Has("enum") /\ \E x \in 0..3, al \in BOOLEAN :
                              Ask(Claim("enum_variant_count", "", "e", x, al))
AskCargo ==
    /\ Has("cargo")
    /\ \E i \in {<<>>} \cup {<<Mod("k", g, TRUE, <<"b">>, <<>>)>> : g \in Gates},
          t \in {<<>>} \cup {<<Mod("m", g, TRUE, <<"a">>, <<>>)>> : g \in {{}, {fast}}} :
          Ask([i |-> i, t |-> t])
AskInfra ==
    /\ Has("infra")
    /\ \E f \in DOMAIN Texts,
          failed \in IF FailedPasses THEN {"none", "nodes", "references"} ELSE {"none"} :
          \/ \E g \in {"base", "m"} : \E x \in Texts[f], y \in Texts[g] :
                Ask([files |-> Written(Written(probe.w, g, y), f, x), dir |-> Placed,
                     failed |-> failed])
          \/ Ask([files |-> Without(probe.w, {f}), dir |-> Placed, failed |-> failed])
AskWalk ==
    /\ Has("walk")
    /\ \E d \in {Dir, Locked}, p \in {"clean", "skipped"},
          c \in {Silent, Attributed({})}, u \in {{}, {x_rs}},
          O \in {o \in Options : Refiltered \/ o.filter = probe.w.O.filter},
          lost \in IF LostReports THEN SUBSET {"index", "refresh"} ELSE {{}} :
          Ask([T |-> Rewritten(probe.w.T, d, p), O |-> O, c |-> c, u |-> u, lost |-> lost])
AskSearch ==
    /\ Has("search")
    /\ \E limit \in {1, 2}, filter \in {"", "Trait", "Function", "File"},
          x \in {<<2, 10000>>, <<9, 10000>>, <<9, 16200>>} :
          Ask([o |-> [limit |-> limit, filter |-> filter, min_score |-> x[2]], b |-> x[1]])

Next == \/ AskCall \/ AskCpp \/ AskTypes \/ AskDiff \/ AskImpact \/ AskCluster
        \/ AskClaim \/ AskGate \/ AskGround \/ AskCount \/ AskPublic \/ AskEnum
        \/ AskCargo \/ AskInfra \/ AskWalk \/ AskSearch

Spec == Init /\ [][Next]_probe

-----------------------------------------------------------------------------
(* Properties.                                                             *)

\* A call the resolver ties to a definition is one the language ties to it: a
\* Rust path leads where the language's own rules lead, a receiver's call goes to
\* a method of the receiver's type, and a C or C++ call only to a definition that
\* is visible from its file.
ResolvedIsCallable ==
    /\ Asked("rust") =>
         \E W \in {Crate(world.t, world.u, world.k)} :
         \E g \in {Calls!resolve_single_call(W, question)} :
             Calls!PathIsRust(W, question, g) /\ Calls!ReceiverOwnsTarget(W, question, g)
    /\ Asked("cpp") => Cpp!CallableIsReachable(world, question.s, question.c)

\* The cycles reported as new are the strongly connected parts of the call graph
\* that were not there before, and a graph whose edges join diffed nodes is clean
\* against itself; detect_changes names a function or type that its file defines, and
\* the history that or a method of such a type, exactly when a line of it changed; and
\* the versions of an entity form one chain through the commits that touched it.
DiffsAreExact ==
    /\ Asked("graph") => Diff!NewCyclesAreCounted(question, world)
    /\ Asked("script") => Diff!ChangedIsNamed(Symbols, question, world, AllSymbols)
    /\ Asked("log") => Diff!VersionsChain(world, {"x", "y"})

\* Communities are connected and never split further, Louvain never ends below
\* where it began, and a process lists what its entry reaches at the shortest depth.
ClustersAreConnected ==
    probe.is = "cluster" =>
        LET G == Joined(world)
        IN  IF probe.q # <<>>
            THEN Clu!RepairSplits(G, question.l, Clu!renumber_communities(question.c))
            ELSE Clu!LouvainImproves(G) /\ Clu!ChainsAreShortest(Four, Shapes, CallsOf(world), 2)

\* A file reported outside every target, or gated off, is one no build compiles.
CargoIsRight ==
    Asked("cargo") => Cargo!CargoVerdictsHold(CargoWorld(world, question.i, question.t))

\* Paging through a search until it says there is no more shows every hit once; and
\* every match is a hit, up to the limit, but for the two gates the code names.
SearchPagesAreComplete ==
    Asked("search") =>
        Find!SearchIsComplete(SearchWorld(world), question.o, [i \in Keys |-> 1 + (i % 3)],
                              question.b, [p |-> 1, q |-> 2])
=============================================================================
