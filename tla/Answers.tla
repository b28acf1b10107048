------------------------------- MODULE Answers -------------------------------
(***************************************************************************)
(* The components that answer a question from what was read and keep no    *)
(* state: a probe is what was read and, once asked, the question.  Here    *)
(* are the answers proved right for every world of the shape the readers   *)
(* produce; the shapes are stated too.                                     *)
(***************************************************************************)
EXTENDS SourceWalk, DocClaims, PrdGates

\* A case README.md describes in which an answer is not what its comments say.
CONSTANT
    TwinBases  \* whether a base type may be one of two twins

Imp == INSTANCE Impact
Inf == INSTANCE Infra
Types == INSTANCE TypeEdges
Calls == INSTANCE CallResolution

VARIABLE
    probe  \* [is, w, q]: the kind of world, the world, the question once asked

Asked(kind) == probe.is = kind /\ probe.q # <<>>
world == probe.w
question == probe.q[1]

-----------------------------------------------------------------------------
(* What can be read.                                                       *)

\* An entry of a tree on disk.
TreeEntry ==
    [is : {"dir", "file", "link"}, repo : BOOLEAN, locked : BOOLEAN, big : BOOLEAN,
     ext : STRING, parse : [Filters -> {"clean", "partial", "skipped", "quarantined"}],
     iac : {"none", "partial", "skipped"}]

\* A tree: every entry below directories, only a .h parsed by the language filter, and
\* no weaker gap of the infrastructure pass for a file whose parse failed.
IsTree(T) ==
    /\ IsFiniteSet(DOMAIN T)
    /\ \A p \in DOMAIN T :
          /\ p \in Seq(STRING)
          /\ T[p] \in TreeEntry
          /\ \A l \in Filters :
                /\ T[p].ext # "h" => T[p].parse[l] = T[p].parse[""]
                /\ T[p].parse[l] = "quarantined" => T[p].iac = "none"
                /\ T[p].parse[l] = "skipped" => T[p].iac # "partial"
          /\ \A a \in Above(p) : a \in DOMAIN T /\ T[a].is = "dir"

\* The files the infrastructure pass may be shown.
AreTexts(files) ==
    \A f \in DOMAIN files :
       /\ files[f].is \in {"dockerfile", "kustomization", "yaml", "other"}
       /\ files[f].readable \in BOOLEAN

\* A world of call sites whose names of the standard library and of the trait are
\* not types of the repository, nor is a name that is not written; only types of
\* the repository have a Deref the graph knows of.
Plausible(W) ==
    /\ {"Box", "Tr", Imp!NONE} \cap W.types = {}
    /\ DOMAIN W.deref \subseteq W.types
    /\ \A s \in W.sites : s.state \in {"open", "target", "other"}

\* The symbols of a graph, and the names and references the passes over names read.
RowLabels ==
    {"Function", "Method", "Struct", "Enum", "Trait", "Constant", "TypeAlias", "Module",
     "File", "Field", "StdlibSymbol"}
Symbol == [file : STRING, mods : Seq(STRING), name : STRING, text : STRING, label : RowLabels]
SourceName == [text : STRING, last : STRING, sep : STRING]
ImportRow == [id : STRING, file : STRING, path : Seq(STRING), glob : BOOLEAN, external : BOOLEAN]
BlockRow == [receiver : Seq(STRING), trait : SourceName]
FieldRow == [id : Seq(STRING), types : Seq(STRING)]
CallableRow == [id : Seq(STRING), label : {"Function", "Method"}, result : Seq(STRING),
                built : Seq(STRING)]

\* A list of bases for every type, and of traits for every type that is not one.
IsTypeWorld(W) ==
    /\ W.rows \in [Types!Range(Types!IndexedLabels) -> Seq(Symbol)]
    /\ W.imports \in Seq(ImportRow)
    /\ \A l \in {"Struct", "Enum", "Trait"} : \A k \in DOMAIN W.rows[l] :
          /\ W.bases[W.rows[l][k]] \in Seq(SourceName)
          /\ l # "Trait" => W.implements[W.rows[l][k]] \in Seq(SourceName)
    /\ W.blocks \in Seq(BlockRow) /\ W.fields \in Seq(FieldRow)
    /\ W.callables \in Seq(CallableRow)
    /\ \A d \in DOMAIN W.derives : W.derives[d] \in Seq(STRING)

\* A receiver's type that a `use` of its own crate shows is the last name of that use:
\* the parser gives no hint for a renamed one.
HintIsImported(s) ==
    s.via = "local_import" /\ s.hint # <<>> => Calls!last(s.via_path) = Calls!last(s.hint)

\* Finitely many declarations, of which no two functions that a parser sees begin
\* at one line of one file.
CountableTree(T) ==
    /\ IsFiniteSet(T.decls)
    /\ \A d, e \in Rows(T) :
          /\ {d.label, e.label} \subseteq {"Function", "Method"}
          /\ d.file = e.file /\ d.line = e.line
          => d = e

\* Declarations as their languages write them: a method of a trait has no visibility
\* of its own, and only Rust gates the variants of an enum.
WrittenTree(T) ==
    /\ CountableTree(T)
    /\ \A d \in T.decls :
          /\ d.label \in AnySymbol
          /\ d.vis \in {"", "pub", "pub(crate)"}
          /\ d.trait = "decl" => d.label = "Method" /\ d.vis = ""
          /\ d.label = "Enum" =>
                /\ d.variants \in Seq(BOOLEAN)
                /\ d.lang # "rust" => \A i \in DOMAIN d.variants : d.variants[i] = FALSE

\* The declarations of a claim's subject, none of which a macro produces.
NamedBy(T, claim) ==
    {d \in T.decls : d.name = claim.subject.name /\ claim.subject.file \in {"", d.file}}
SubjectIsWritten(T, claim) == \A d \in NamedBy(T, claim) : ~d.macro

IsDocQuestion(T, claim) ==
    /\ WrittenTree(T)
    /\ claim.anchored \in BOOLEAN /\ claim.expected \in Nat /\ claim.atLeast \in BOOLEAN
    /\ claim.kind \notin {"test_count", "proof_count"} => SubjectIsWritten(T, claim)

\* A name has a segment at least and no empty one; the rows, files and imports of a
\* graph have names.
IsName(name) == name \in Seq(Seq(STRING)) /\ name # NoName /\ \A i \in DOMAIN name : name[i] # <<>>

IsPrdGraph(G) ==
    /\ IsFiniteSet(G.rows) /\ IsFiniteSet(G.imports)
    /\ \A r \in G.rows : IsName(r.qn)
    /\ \A f \in G.files : IsName(f)
    /\ \A i \in G.imports : IsName(i.qn)

\* The row a gate is asked about, whose name has no twin.
GateRow(G) == CHOOSE r \in G.rows : TRUE

\* The answers of a search for every token a description may hold.
AreSearches(hits, tokens) ==
    /\ hits \in [DOMAIN hits -> Seq(UNION {Range(hits[t]) : t \in DOMAIN hits})]
    /\ tokens \in Seq(DOMAIN hits)

-----------------------------------------------------------------------------
(* A probe of the shape the readers produce.                               *)

\* A refresh after a pass whose report was saved, under the same language filter: the
\* manifest does not record the filter, and a caller that changes it asks for a full index.
PosedWalk ==
    Asked("walk") => /\ IsTree(question.T) /\ question.lost = {}
                     /\ question.O.filter \in Filters /\ question.O.filter = world.O.filter
\* A refresh in which no statement of the infrastructure pass failed.
PosedInfra == Asked("infra") => AreTexts(question.files) /\ question.failed = "none"
PosedTypes == Asked("types") => IsTypeWorld(question)
PosedImpact == Asked("impact") => Imp!IsWorld(question, FALSE) /\ Plausible(question)
PosedClaims ==
    /\ Asked("claim") => IsPrdGraph(world) /\ Decided(world) /\ IsName(question.name)
    /\ Asked("gate") => IsPrdGraph(world) /\ GateRow(world) \in exact_match_qn(world, GateRow(world).qn)
    /\ Asked("ground") => /\ AreSearches(world, question.v) /\ AreSearches(world, question.n)
                          /\ question.fi \in BOOLEAN
    /\ Asked("count") \/ Asked("public") \/ Asked("enum") => IsDocQuestion(world, question)

-----------------------------------------------------------------------------
(* Properties.                                                             *)

\* The coverage report of a full pass followed by a refresh is that of a full index of
\* the new tree: every regular file under the size cap that the language filter keeps is
\* in the graph, or it or a directory above it is named, under the kind that hides most.
\* Links and filtered files are not named; src/indexer/coverage.rs says that a file over
\* the size cap is, and Oversized asks for it.
WalkIsHonest == Asked("walk") => CoverageIsHonest(world, question)

\* A refresh leaves the infrastructure nodes of a full index, gives the files it
\* read again the references that index gives them, and takes from the others only
\* references whose target is gone.
InfraIsExact == Asked("infra") =>
    Inf!InfraRefreshIsExact(world, question.files, question.dir, question.failed)

\* A pass over imports, traits, bases and type names counts every reference once,
\* as an edge or as unresolved, stores no edge twice, and run again changes nothing;
\* no implemented trait and no named type is one of two twins picked by its place
\* in the file.  src/resolver/cfg_twins.rs asks this of every resolver that takes the
\* first candidate of a name; the pass over base types is one, and TwinBases includes it.
TypeEdgesAreSettled ==
    Asked("types") =>
        Types!PassIsSettled(question, {"Implements", "Uses"} \cup {k \in {"Extends"} : TwinBases})

\* An impact answer called exact has left out no call site.
ImpactIsExhaustive == Asked("impact") => Imp!ExactIsExhaustive(question)

\* A verdict on a claim is right: a claim about a symbol that an indexed file does
\* not declare is refuted, a gate counts the imports of its own symbols, a finding is
\* grounded in each symbol once, in the strongest way a token of it hits, and a
\* verdict about a document's claim holds in every build the tree allows.
ClaimVerdictsHold ==
    /\ Asked("claim") => HallucinationIsRefuted(world, question)
    /\ Asked("gate") => GateCountsOwnImports(world, GateRow(world))
    /\ Asked("ground") =>
         GroundingIsExact(question.fi, question.d, question.v, question.n, world)
    /\ Asked("count") \/ Asked("public") \/ Asked("enum") => DocVerdictHolds(world, question)
=============================================================================
