------------------------------ MODULE PrdGates ------------------------------
(***************************************************************************)
(* Stages 4, 6 and 8: the grounding a PRD is written from, the verdict on  *)
(* the symbols a PRD claims to change, and the gates run over changed      *)
(* symbols.                                                                *)
(*                                                                         *)
(* A name is the sequence of its "::"-separated segments; a segment is the *)
(* sequence of its "/"-separated components, so src/a.rs::S::new is        *)
(* <<<<"src", "a.rs">>, <<"S">>, <<"new">>>>.  A graph G holds             *)
(*   files    the paths with a File node, each a name                      *)
(*   rows     the symbols [qn, gate, active, label, vis, top, auth,        *)
(*            comms, procs, tests]: gate is "" or the #[cfg] gate of a     *)
(*            twin, active whether the default build compiles it, top      *)
(*            whether a file defines it directly, auth whether its bare    *)
(*            name holds an auth pattern, comms its community ids, procs   *)
(*            its processes and tests the test entries reaching it         *)
(*   imports  the import rows [qn, resolved]                               *)
(***************************************************************************)
EXTENDS Naturals, FiniteSets, Sequences, SequencesExt

NoName == <<>>

\* The components that carry a dot, and those of them whose extension a
\* parser reads (language_provider::ALL_EXTENSIONS).
Dotted == {"a.rs", "b.rs", "c.sh"}
Parsed == {"a.rs", "b.rs"}

\* clustering::SYMBOL_LABELS, in the order that decides.
SymbolLabels == <<"Function", "Method", "Struct", "Enum", "Trait",
                  "Constant", "TypeAlias", "Module">>

-----------------------------------------------------------------------------
(* Resolving a name a caller wrote (search::name_lookup).                  *)

\* The name without the first component of its path, NoName when it has one
\* component only.
strip_leading_path_component(name) ==
    IF name = NoName \/ Len(Head(name)) < 2
    THEN NoName
    ELSE <<Tail(Head(name))>> \o Tail(name)

exact_match_qn(G, name) == {r \in G.rows : r.qn = name /\ r.gate = ""}

twins(G, name) == {r \in G.rows : r.qn = name /\ r.gate /= ""}

\* The rows a name stands for, [ok, rows]: an exact row, one under the
\* stripped path, or the one twin the default build compiles.  Several twins
\* are an error that only suggests them.
resolve_twins(G, name) ==
    LET live == {r \in twins(G, name) : r.active}
    IN  IF Cardinality(live) = 1
        THEN [ok |-> TRUE, rows |-> live]
        ELSE [ok |-> FALSE, rows |-> twins(G, name)]

resolve_qualified_name(G, name) ==
    LET short == strip_leading_path_component(name)
        tried == {n \in {name, short} : n /= NoName}
    IN  CASE exact_match_qn(G, name) /= {}
               -> [ok |-> TRUE, rows |-> exact_match_qn(G, name)]
          [] exact_match_qn(G, name) = {} /\ exact_match_qn(G, short) /= {}
               -> [ok |-> TRUE, rows |-> exact_match_qn(G, short)]
          [] \A n \in tried : exact_match_qn(G, n) = {}
               -> IF twins(G, name) /= {} THEN resolve_twins(G, name)
                  ELSE IF twins(G, short) /= {} THEN resolve_twins(G, short)
                  ELSE [ok |-> FALSE, rows |-> {}]

-----------------------------------------------------------------------------
(* Stage 6: a verdict per claimed symbol (prd_validator).                  *)

\* Mutant: the file of a claim is what precedes its LAST "::".
claim_file_path_last(name) ==
    IF Len(name) < 2 THEN NoName ELSE Front(name)

\* The file a claim names: its first segment, when that holds a dot.
claim_file_path(name) ==
    IF Len(name) < 2 \/ Last(Head(name)) \notin Dotted
    THEN NoName
    ELSE <<Head(name)>>

\* Whether the graph cannot refute the claim: its language has no parser, or
\* its file, as written or stripped, has no node.
unverifiable_reason(G, name) ==
    LET file  == claim_file_path(name)
        short == claim_file_path(strip_leading_path_component(name))
    IN  /\ file /= NoName
        /\ \/ Last(Last(file)) \in Dotted \ Parsed
           \/ file \notin G.files /\ (short = NoName \/ short \notin G.files)

\* A claim is [name, kind].
classify_one(G, claim) ==
    CASE resolve_qualified_name(G, claim.name).ok -> "resolved"
      [] OTHER -> CASE claim.kind \notin {"modify", "remove", "rename"}
                         -> "unscored"
                    [] OTHER -> IF unverifiable_reason(G, claim.name)
                                THEN "unverifiable" ELSE "hallucinated"

\* The structured contract when it can be read, else every token of the text
\* as a claim of unknown kind that asserts nothing about scope.
load_claims(contract, tokens) ==
    IF contract.readable
    THEN [claims |-> {c \in contract.claims : c.name /= NoName},
          scopes |-> contract.scopes, structured |-> TRUE]
    ELSE [claims |-> {[name |-> t, kind |-> "unknown"] : t \in tokens},
          scopes |-> {}, structured |-> FALSE]

\* The community of a row set: the first label with a community whose id is
\* not empty, the smallest id of it.
community_of(rows) ==
    LET under(label) == UNION {r.comms \ {0} : r \in
                                   {x \in rows : x.label = label}}
        labels == {i \in DOMAIN SymbolLabels : under(SymbolLabels[i]) /= {}}
    IN  IF labels = {} THEN 0
        ELSE LET first == CHOOSE i \in labels : \A j \in labels : i <= j
                 ids   == under(SymbolLabels[first])
             IN  CHOOSE c \in ids : \A d \in ids : c <= d

\* The same-named rows of every label: what a lookup by qualified name reads.
rows_of(G, row) == {r \in G.rows : r.qn = row.qn /\ r.gate = row.gate}

resolved_rows(G, claims) ==
    UNION {resolve_qualified_name(G, c.name).rows :
             c \in {x \in claims : resolve_qualified_name(G, x.name).ok}}

emit_symbol_hallucination(G, claims) ==
    {[axis |-> "symbol", name |-> c.name,
      severity |-> IF classify_one(G, c) = "hallucinated"
                   THEN "critical" ELSE "info"] :
       c \in {x \in claims :
                classify_one(G, x) \in {"hallucinated", "unverifiable"}}}

emit_community_consistency(G, claims) ==
    LET spanned == {community_of(rows_of(G, r)) :
                      r \in resolved_rows(G, claims)} \ {0}
    IN  IF Cardinality(spanned) < 2 THEN {}
        ELSE {[axis |-> "community", name |-> NoName,
               severity |-> IF Cardinality(spanned) >= 3
                            THEN "critical" ELSE "warning"]}

emit_process_impact(G, claims, scopes) ==
    {[axis |-> "process", name |-> r.qn, severity |-> "critical"] :
       r \in {x \in resolved_rows(G, claims) : x.procs \cap scopes /= {}}}

emit_unresolved_info(G, loaded) ==
    {[axis |-> "symbol", name |-> c.name, severity |-> "info"] :
       c \in {x \in loaded.claims :
                /\ ~loaded.structured
                /\ ~resolve_qualified_name(G, x.name).ok}}

compute_status(findings) ==
    CASE \E f \in findings : f.severity = "critical" -> "fail"
      [] \A f \in findings : f.severity = "info" -> "ok"
      [] OTHER -> "warning"

validate_prd(G, contract, tokens) ==
    LET loaded == load_claims(contract, tokens)
        found  == emit_symbol_hallucination(G, loaded.claims)
                    \cup emit_community_consistency(G, loaded.claims)
                    \cup emit_process_impact(G, loaded.claims, loaded.scopes)
                    \cup emit_unresolved_info(G, loaded)
    IN  [status |-> compute_status(found), findings |-> found]

-----------------------------------------------------------------------------
(* Stage 8: the gates over changed symbols (security_gates).               *)

find_auth_communities(G) == UNION {r.comms : r \in {x \in G.rows : x.auth}} \ {0}

run_s1(G, row) ==
    IF community_of(rows_of(G, row)) \in find_auth_communities(G)
    THEN {[gate |-> "auth_critical_touch", severity |-> "critical",
           skipped |-> FALSE]}
    ELSE {}

\* No parser records unsafe: one flag that says the check was skipped.
run_s2(G, row) == {[gate |-> "unsafe_symbol", severity |-> "info",
                    skipped |-> TRUE]}

run_s3(G, row) ==
    IF row.vis = "pub" /\ row.top
    THEN {[gate |-> "public_api_change", severity |-> "warning",
           skipped |-> FALSE]}
    ELSE {}

\* The file a name was read from: the longest path that is a proper prefix.
import_source_file(G, name) ==
    LET owners == {f \in G.files : IsStrictPrefix(f, name)}
    IN  IF owners = {} THEN NoName
        ELSE CHOOSE f \in owners : \A g \in owners : Len(f) >= Len(g)

\* Imports are matched by the file's prefix, less those of a longer path that
\* starts with it.
unresolved_import_count(G, file) ==
    LET nested == {f \in G.files : IsStrictPrefix(file, f)}
    IN  Cardinality({i \in G.imports :
                       /\ IsStrictPrefix(file, i.qn)
                       /\ \A f \in nested : ~IsStrictPrefix(f, i.qn)
                       /\ ~i.resolved})

run_s4(G, row) ==
    LET file  == import_source_file(G, row.qn)
        count == unresolved_import_count(G, file)
    IN  IF file = NoName
        THEN {[gate |-> "unresolved_imports", severity |-> "info", skipped |-> TRUE]}
        ELSE IF count = 0 THEN {}
        ELSE {[gate |-> "unresolved_imports", skipped |-> FALSE,
               severity |-> IF count >= 2 THEN "critical" ELSE "warning"]}

run_s5(G, row) ==
    IF row.tests = {}
    THEN {[gate |-> "test_coverage_gap", severity |-> "warning",
           skipped |-> FALSE]}
    ELSE {}

\* The flags over every changed name, and the two summaries of them.
check_gates(G, changed) ==
    LET answers == {resolve_qualified_name(G, n) : n \in changed}
        rows    == UNION {a.rows : a \in {x \in answers : x.ok}}
        flags   == UNION {run_s1(G, r) \cup run_s2(G, r) \cup run_s3(G, r)
                            \cup run_s4(G, r) \cup run_s5(G, r) : r \in rows}
                     \cup (IF \A a \in answers : a.ok THEN {}
                           ELSE {[gate |-> "input_unresolved",
                                  severity |-> "info", skipped |-> TRUE]})
    IN  [gates_passed |-> \A f \in flags : f.severity /= "critical",
         assessment_complete |-> changed /= {} /\ \A f \in flags : ~f.skipped,
         flags |-> flags]

-----------------------------------------------------------------------------
(* Stage 4: the symbols a description is grounded on (prd_input::matching).*)

Rank(mode) == CASE mode = "lexical" -> 0 [] mode = "exact_name" -> 1
                [] mode = "verbatim" -> 2

\* A hit is [qn, name, tail, label, comm, proc].  Of the hits of one qualified name,
\* which twins share, the first is kept, and the strongest evidence seen for any.
upsert_best(best, hit, mode) ==
    LET first == IF hit.qn \in DOMAIN best THEN best[hit.qn].hit ELSE hit
        wins  == hit.qn \in DOMAIN best => Rank(mode) > Rank(best[hit.qn].mode)
    IN  [q \in DOMAIN best \cup {hit.qn} |->
            IF q = hit.qn /\ wins THEN [hit |-> first, mode |-> mode] ELSE best[q]]

\* The files are dropped.
is_exact_hit(token, hit) == token \in {hit.name, hit.tail}

is_code_symbol(hit) == hit.label /= "File"

\* What a hit says for a token, "none" when it is passed over: a file, and what
\* a citation does not name.
evidence(token, hit, cited) ==
    IF ~is_code_symbol(hit) \/ (cited /\ ~is_exact_hit(token, hit)) THEN "none"
    ELSE IF cited THEN "verbatim"
    ELSE IF is_exact_hit(token, hit) THEN "exact_name" ELSE "lexical"

weigh_hit(best, token, hit, cited) ==
    IF evidence(token, hit, cited) = "none" THEN best
    ELSE upsert_best(best, hit, evidence(token, hit, cited))

\* The hits of one token, best first, then the tokens in order.
weigh_hits(best, token, found, cited) ==
    LET seen[i \in 0 .. Len(found)] ==
            IF i = 0 THEN best ELSE weigh_hit(seen[i - 1], token, found[i], cited)
    IN  seen[Len(found)]

weigh_tokens(best, tokens, hits, cited) ==
    LET seen[i \in 0 .. Len(tokens)] ==
            IF i = 0 THEN best
            ELSE weigh_hits(seen[i - 1], tokens[i], hits[tokens[i]], cited)
    IN  seen[Len(tokens)]

\* hits[t] is what the search answers for token t: the citations first, then
\* the words.
search_and_classify(verbatim, natural, hits) ==
    LET cited == weigh_tokens([q \in {} |-> ""], verbatim, hits, TRUE)
        best  == weigh_tokens(cited, natural, hits, FALSE)
    IN  [matched    |-> {q \in DOMAIN best : best[q].mode /= "lexical"},
         candidates |-> {q \in DOMAIN best : best[q].mode = "lexical"},
         best       |-> best]

\* Impact is read off the matched symbols alone.
impacted(outcome) ==
    LET hits == {outcome.best[q].hit : q \in outcome.matched}
    IN  [comms |-> {h.comm : h \in hits} \ {0}, procs |-> {h.proc : h \in hits} \ {0}]

\* The stage-2 gate: a receipt that parses and says verified.
load_verified(dir) == dir.receipt = "verified"

\* The finding's own text; a file that is missing, unreadable or corrupt is
\* one error.
load_finding_summary(dir) == dir.refined = "readable"

\* Finding mode needs the receipt and the finding; feature mode a description
\* that is not blank, and no receipt.
resolve_mode(finding, dir, description) ==
    CASE finding /\ ~load_verified(dir) -> "stage_2_not_verified"
      [] finding /\ load_verified(dir) /\ ~load_finding_summary(dir)
           -> "stage_1_refined_missing"
      [] finding /\ load_verified(dir) /\ load_finding_summary(dir) -> "finding"
      [] ~finding /\ description = "blank" -> "feature_description_empty"
      [] ~finding /\ description = "none" -> "missing input"
      [] OTHER -> "feature"

\* A run marks the index of its finding, if there is one; feature mode has none.
update_index(mode, index) ==
    CASE mode = "feature" \/ index = "absent" -> "unmarked"
      [] mode = "finding" /\ index = "readable" -> "marked"
      [] OTHER -> "error"

\* What a run leaves behind: nothing when its mode is an error, else the artifact, and
\* last the marker of a finding; an index that does not parse fails a run whose
\* artifact is written.
prepare(finding, dir, description, verbatim, natural, hits) ==
    LET mode == resolve_mode(finding, dir, description)
        out  == search_and_classify(verbatim, natural, hits)
    IN  IF mode \notin {"finding", "feature"}
        THEN [artifact |-> FALSE, matched |-> {}, candidates |-> {},
              impacted |-> {}, marker |-> "error"]
        ELSE [artifact |-> TRUE, matched |-> out.matched,
              candidates |-> out.candidates, impacted |-> impacted(out).comms,
              marker |-> update_index(mode, dir.index)]

-----------------------------------------------------------------------------
(* What the three stages promise.                                          *)

\* No undecided twins: every name with twins has exactly one the default
\* build compiles.
Decided(G) == \A r \in G.rows : r.gate /= "" =>
                 Cardinality({t \in twins(G, r.qn) : t.active}) = 1

\* A claim fails the PRD as hallucinated exactly when the graph can refute
\* it: the claim modifies, removes or renames, the graph holds the claimed
\* file (as written, or without its leading component), and no symbol there,
\* twin or not, has the claimed name (prd_validator::verdict).
HallucinationIsRefuted(G, claim) ==
    LET short == strip_leading_path_component(claim.name)
        named == {n \in {claim.name, short} : n /= NoName}
        held  == {n \in named : Len(n) >= 2 /\ <<Head(n)>> \in G.files}
        bare  == Len(claim.name) < 2 \/ Last(Head(claim.name)) \notin Dotted
        prd   == [readable |-> TRUE, claims |-> {claim}, scopes |-> {}]
    IN  (validate_prd(G, prd, {}).status = "fail")
          <=> /\ claim.kind \in {"modify", "remove", "rename"}
              /\ \A r \in G.rows : r.qn \notin named
              /\ held /= {} \/ bare
              /\ bare \/ Last(Head(claim.name)) \in Parsed

\* The imports a changed symbol is judged by are those of the file it was
\* read from and of no other, even when one path starts with another's name
\* (gates::run_s4).
GateCountsOwnImports(G, row) ==
    LET own == {i \in G.imports :
                  /\ import_source_file(G, i.qn) = import_source_file(G, row.qn)
                  /\ ~i.resolved}
        says(severity) == [gate |-> "unresolved_imports",
                           severity |-> severity, skipped |-> FALSE]
        flags == check_gates(G, {row.qn}).flags
    IN  import_source_file(G, row.qn) /= NoName =>
          /\ says("critical") \in flags <=> Cardinality(own) >= 2
          /\ says("warning") \in flags <=> Cardinality(own) = 1

FoundHits(tokens, hits) == UNION {Range(hits[t]) : t \in Range(tokens)}

Evidence(tokens, hits) ==
    {h.qn : h \in {x \in FoundHits(tokens, hits) :
        /\ x.label /= "File"
        /\ \E t \in Range(tokens) : x \in Range(hits[t]) /\ is_exact_hit(t, x)}}

\* found is every hit of the run, cited and read what its tokens name.
RunIsGrounded(run, out, grounded, found, cited, read) ==
    /\ run.artifact => grounded
    /\ ~run.artifact => run.matched \cup run.candidates = {} /\ run.marker # "marked"
    /\ run.artifact =>
         /\ run.matched = cited \cup read
         /\ run.matched \cap run.candidates = {}
         /\ \A c \in run.impacted : \E h \in found : h.qn \in cited \cup read /\ h.comm = c
         /\ \A q \in cited \cup read :
              /\ \E h \in found : h.qn = q /\ (h.comm \in run.impacted \/ h.comm = 0)
              /\ out.best[q].mode = "verbatim" <=> q \in cited

\* A PRD is grounded on exactly the symbols some token, cited or read, names,
\* wherever that token stands in the text and however many twins share the
\* name; what it is said to impact comes from such symbols only and from each
\* of them; nothing is grounded on a finding whose receipt does not say
\* verified, and no marker tells of an artifact that was not written
\* (prd_input::prepare, matching::search_and_classify).
GroundingIsExact(finding, dir, verbatim, natural, hits) ==
    RunIsGrounded(prepare(finding, dir, "text", verbatim, natural, hits),
                  search_and_classify(verbatim, natural, hits),
                  finding => dir.receipt = "verified",
                  FoundHits(verbatim, hits) \cup FoundHits(natural, hits),
                  Evidence(verbatim, hits), Evidence(natural, hits))
=============================================================================
