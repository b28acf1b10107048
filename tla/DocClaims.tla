----------------------------- MODULE DocClaims -----------------------------
(***************************************************************************)
(* check_doc_claims: what a document says of the code, judged against the  *)
(* graph and, for a count, against the source it was read from.            *)
(*                                                                         *)
(* A tree T is the repository the graph was indexed from:                  *)
(*   decls    its declarations [file, line, name, label, lang, vis, trait, *)
(*            gate, attr, nested, entry, macro, variants]: gate is "" or   *)
(*            the one #[cfg] option that reaches it, attr whether a        *)
(*            cfg_attr adds a cfg, trait "impl" or "decl" for a method of  *)
(*            a trait, macro whether a macro produces it, variants the     *)
(*            enum's variants, each TRUE when it has a #[cfg] of its own   *)
(*   ctx      the target context of each file, gate its own #[cfg] option  *)
(*   readable whether the claim checker can read and parse the file        *)
(*   others   paths of the repository the graph does not hold              *)
(* A subject is [file, name]; file is "" when the document writes the bare *)
(* name.  A claim is [kind, subject, expected, atLeast, anchored].         *)
(***************************************************************************)
EXTENDS Naturals, FiniteSets, Sequences

\* What a count counts, and what compiles it.
TESTS  == [entry |-> "test",  option |-> "test", contexts |-> {"production", "test"}]
PROOFS == [entry |-> "proof", option |-> "kani", contexts |-> {"production", "proof"}]

\* The graph's rows: what a parser saw, so nothing a macro produces.
Rows(T) == {d \in T.decls : ~d.macro}

Verdict(verdict, reason) == [verdict |-> verdict, reason |-> reason]

not_verifiable(reason) == Verdict("not_verifiable", reason)

-----------------------------------------------------------------------------
(* Existence and declared visibility (doc_claims::symbols).                *)

\* A subject with a file must match it; a bare one matches any file's.
lookup(T, subject, labels) ==
    {d \in Rows(T) : /\ d.label \in labels
                     /\ d.name = subject.name
                     /\ subject.file \in {"", d.file}}

\* Twins of one item, the same name of one file, count once.
distinct_items(found) == {<<d.file, d.name>> : d \in found}

\* Not in the graph, or not in any file the graph could hold it in.
absent(T, subject) ==
    IF subject.file /= "" /\ subject.file \notin DOMAIN T.ctx
    THEN not_verifiable("file not indexed")
    ELSE Verdict("not_found", "absent_from_graph")

AnySymbol == {"Function", "Method", "Struct", "Enum", "Trait", "Module"}

symbol_exists(T, subject, labels) ==
    IF lookup(T, subject, labels) = {} THEN absent(T, subject)
    ELSE Verdict("supported", "")

file_exists(T, subject) ==
    IF subject.file \in DOMAIN T.ctx \cup T.others
    THEN Verdict("supported", "")
    ELSE Verdict("not_found", "absent")

VisibilityLabels == {"Function", "Method", "Struct", "Enum", "Trait"}

\* What a row says of `pub`.  The graph knows a method of an impl of a trait,
\* and not one declared in a trait.
declared(d) ==
    CASE d.label \notin VisibilityLabels \/ d.lang /= "rust" -> "unknown"
      [] d.label \in VisibilityLabels /\ d.lang = "rust" ->
           CASE d.vis = "pub" -> "pub"
             [] d.vis = "pub(crate)" -> "not_pub"
             [] d.vis = "" -> IF d.label = "Method" THEN "unknown"
                              ELSE "not_pub"

is_public(T, subject) ==
    LET found == lookup(T, subject, AnySymbol)
    IN  CASE found = {} -> absent(T, subject)
          [] Cardinality(distinct_items(found)) > 1
               -> not_verifiable("ambiguous_subject")
          [] Cardinality(distinct_items(found)) = 1 ->
               CASE \A d \in found : declared(d) = "pub"
                      -> Verdict("supported", "")
                 [] \A d \in found : declared(d) = "not_pub"
                      -> Verdict("contradicted", "declared otherwise")
                 [] OTHER -> not_verifiable("unknown, or twins disagree")

-----------------------------------------------------------------------------
(* Counts (doc_claims::counts), with the source's gates                    *)
(* (parser::rust_item_gates).                                              *)

\* The source's facts about the functions of a file.
function_gates(T, file) ==
    {[line |-> d.line, gate |-> d.gate, cfg_attr |-> d.attr,
      nested |-> d.nested] :
       d \in {x \in Rows(T) : x.file = file /\ x.label \in {"Function", "Method"}}}

\* Whether the harness compiles the whole file, as the graph tells it.
file_gates(T, file, harness) ==
    /\ T.ctx[file] \in harness.contexts
    /\ T.gate[file] \in {"", harness.option}
    /\ T.readable[file]

\* Whether the function at a line is certainly compiled and run.
function_verdict(gates, line, harness) ==
    \E g \in gates : /\ g.line = line
                     /\ ~g.nested
                     /\ ~g.cfg_attr
                     /\ g.gate \in {"", harness.option}

\* A scope is a file or, for "", the whole graph.
scoped(T, scope, harness) ==
    {d \in Rows(T) : /\ d.label = "Function"
                     /\ d.entry = harness.entry
                     /\ scope \in {"", d.file}}

compiled_floor(T, rows, harness) ==
    Cardinality({d \in rows :
                   /\ file_gates(T, d.file, harness)
                   /\ function_verdict(function_gates(T, d.file), d.line, harness)})

count_verdict(claim, seen, floor) ==
    LET n == claim.expected
    IN  CASE ~claim.atLeast /\ floor > n
               -> Verdict("contradicted", "floor_exceeds_claim")
          [] ~claim.atLeast /\ floor = n /\ seen = n -> Verdict("supported", "")
          [] claim.atLeast /\ floor >= n -> Verdict("supported", "")
          [] OTHER -> not_verifiable(IF n > seen THEN "lower_bound"
                                     ELSE "build_dependent")

entry_count(T, claim, harness) ==
    LET rows == scoped(T, claim.subject.file, harness)
    IN  count_verdict(claim, Cardinality(rows), compiled_floor(T, rows, harness))

\* A language whose enums are not read from source can only be supported.
unread_language_verdict(claim, n) ==
    IF (claim.atLeast /\ claim.expected <= n) \/ (~claim.atLeast /\ claim.expected = n)
    THEN Verdict("supported", "")
    ELSE not_verifiable("variant_completeness_not_established")

\* Every build has between the ungated and the declared variants.
variant_verdict(claim, shape) ==
    LET ungated == shape.declared - shape.gated
        n       == claim.expected
        certain == IF claim.atLeast THEN n <= ungated ELSE shape.gated = 0
    IN  CASE (~claim.atLeast /\ n < ungated) \/ n > shape.declared
               -> Verdict("contradicted", "variant_count_differs")
          [] ~((~claim.atLeast /\ n < ungated) \/ n > shape.declared)
               -> IF certain THEN Verdict("supported", "")
                  ELSE not_verifiable("build_dependent")

\* The variants of an enum and how many carry their own gate, read at its
\* line (enum_shapes).
rust_gated_variants(d) ==
    [declared |-> Len(d.variants),
     gated    |-> Cardinality({i \in DOMAIN d.variants : d.variants[i]})]

variant_count(T, claim) ==
    LET found == lookup(T, claim.subject, {"Enum"})
    IN  CASE found = {} -> absent(T, claim.subject)
          [] Cardinality(found) > 1 -> not_verifiable("ambiguous_subject")
          [] Cardinality(found) = 1 ->
               LET d == CHOOSE x \in found : TRUE
               IN  CASE d.lang /= "rust"
                          -> unread_language_verdict(claim, Len(d.variants))
                     [] d.lang = "rust" /\ ~T.readable[d.file]
                          -> not_verifiable("source_unreadable")
                     [] d.lang = "rust" /\ T.readable[d.file]
                          -> variant_verdict(claim, rust_gated_variants(d))

-----------------------------------------------------------------------------
\* One claim: the text must stand where the claim says, then its kind's rule.
check_one(T, claim) ==
    CASE ~claim.anchored -> Verdict("rejected_anchor", "text_not_at_line")
      [] claim.anchored ->
           CASE claim.kind = "symbol_exists" -> symbol_exists(T, claim.subject, AnySymbol)
             [] claim.kind = "module_exists" -> symbol_exists(T, claim.subject, {"Module"})
             [] claim.kind = "file_exists"   -> file_exists(T, claim.subject)
             [] claim.kind = "is_public"     -> is_public(T, claim.subject)
             [] claim.kind = "test_count"    -> entry_count(T, claim, TESTS)
             [] claim.kind = "proof_count"   -> entry_count(T, claim, PROOFS)
             [] claim.kind = "enum_variant_count" -> variant_count(T, claim)
             [] OTHER -> not_verifiable("kind_not_supported_yet")

-----------------------------------------------------------------------------
(* What the verdicts promise.                                              *)

\* The options a build may set beside the harness's own; "attr" stands for
\* whatever a cfg_attr's added cfg asks for.
Builds == SUBSET {"unix", "attr"}

Compiled(d, options) == /\ d.gate \in {""} \cup options
                        /\ ~d.attr \/ "attr" \in options

Measured(T, scope, harness, build) ==
    Cardinality({d \in T.decls :
        /\ d.label = "Function" /\ d.entry = harness.entry /\ ~d.nested
        /\ scope \in {"", d.file}
        /\ T.ctx[d.file] \in harness.contexts
        /\ T.gate[d.file] \in {"", harness.option} \cup build
        /\ Compiled(d, {harness.option} \cup build)})

Variants(d, build) ==
    Cardinality({i \in DOMAIN d.variants : d.variants[i] => "unix" \in build})

Counts(claim, n) == IF claim.atLeast THEN n >= claim.expected ELSE n = claim.expected

\* What the claim says is so in one build.
Holds(T, claim, build) ==
    LET named  == {d \in T.decls : /\ d.name = claim.subject.name
                                   /\ claim.subject.file \in {"", d.file}}
        public == {d \in named : d.vis = "pub" \/ d.trait = "decl"}
    IN  CASE claim.kind = "symbol_exists" -> named /= {}
          [] claim.kind = "module_exists" -> \E d \in named : d.label = "Module"
          [] claim.kind = "file_exists" ->
               claim.subject.file \in DOMAIN T.ctx \cup T.others
          [] claim.kind = "is_public" -> public = named
          [] claim.kind = "test_count" ->
               Counts(claim, Measured(T, claim.subject.file, TESTS, build))
          [] claim.kind = "proof_count" ->
               Counts(claim, Measured(T, claim.subject.file, PROOFS, build))
          [] claim.kind = "enum_variant_count" ->
               \E d \in named : d.label = "Enum" /\ Counts(claim, Variants(d, build))

\* "contradicted" is said only of a claim no build bears out, though macros
\* declare what the graph never sees; "supported" only of one every build
\* bears out, macro output aside for an exact count (doc_claims).
DocVerdictHolds(T, claim) ==
    LET verdict == check_one(T, claim).verdict
        unseen  == /\ claim.kind \in {"test_count", "proof_count"}
                   /\ ~claim.atLeast
                   /\ \E d \in T.decls : d.macro
    IN  /\ verdict = "contradicted" => \A b \in Builds : ~Holds(T, claim, b)
        /\ verdict = "supported" => unseen \/ \A b \in Builds : Holds(T, claim, b)
=============================================================================
