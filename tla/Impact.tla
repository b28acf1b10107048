------------------------------- MODULE Impact -------------------------------
(***************************************************************************)
(* get_impact: the callers of a symbol, and how far the answer can be      *)
(* trusted.  The answer is "exact" only when nothing the graph knows of    *)
(* makes it a lower bound: a dynamic-dispatch surface, an edge resolved    *)
(* heuristically, an open call site that may be the target, a twin under   *)
(* another #[cfg] gate, a caller in another repository, a file the index   *)
(* did not cover.                                                          *)
(*                                                                         *)
(* A world W is what the question is asked of:                             *)
(*   target   [label, language, owner, trait, twins]                       *)
(*   sites    the call sites spelling the target's bare name               *)
(*            [shape, names, language, reason, state, conf, calls]         *)
(*     shape  "bare" f(), "recv" x.f() or "path" Q::f(); names is Q or the *)
(*            written type of x, NONE when unknown                         *)
(*     state  "open", "target" (an edge to the target with confidence      *)
(*            conf, 0 when none is stored) or "other" (an edge elsewhere)  *)
(*     calls  the site calls the target when the program runs              *)
(*   types    the repository's structs and enums, by bare name             *)
(*   alias    what a type alias or a renaming import stands for            *)
(*   deref    the type a type dereferences to                              *)
(*   unseen   a caller sits in a file the index does not hold              *)
(*   sidecar  the coverage record [present, gaps, cargo]                   *)
(*   siblings the other repositories' graphs asked about                   *)
(*            [opens, defines, names]                                      *)
(*   columns  the CallSite columns the graph has                           *)
(***************************************************************************)
EXTENDS Naturals, FiniteSets, Sequences

NONE == "none"

-----------------------------------------------------------------------------
(* Which open sites cannot be the target (impact_other_owner).             *)

\* Standard types that dereference to no type of the repository.
ClosedStdTypes == {"Vec", "String"}

\* The filter exists for a Rust method of a struct or enum of the repository.
for_target(W) ==
    /\ W.target.label = "Method"
    /\ W.target.language = "rust"
    /\ W.target.owner \in W.types

is_self_or_owner(W, name) == name = "Self" \/ name = W.target.owner

is_aliased(W, name) == name \in DOMAIN W.alias

is_repo_type(W, name) == name \in W.types

type_derefs(W, name) == name \in DOMAIN W.deref

\* Q::f names another owner.
path_is_another_owner(W, Q, reason) ==
    /\ ~is_self_or_owner(W, Q)
    /\ ~is_aliased(W, Q)
    /\ \/ is_repo_type(W, Q)
       \/ /\ reason = "external_callee"
          /\ W.target.trait = NONE \/ Q \in ClosedStdTypes

\* Mutant: no type the receiver could dereference to is considered.
receiver_is_another_type_nominal(W, hint) ==
    hint # NONE /\ ~is_self_or_owner(W, hint) /\ ~is_aliased(W, hint)
    /\ (is_repo_type(W, hint) \/ hint \in ClosedStdTypes)

\* x.f with x of the written type hint is another owner's.
receiver_is_another_type(W, hint) ==
    /\ hint # NONE
    /\ ~is_self_or_owner(W, hint)
    /\ ~is_aliased(W, hint)
    /\ IF is_repo_type(W, hint) THEN ~type_derefs(W, hint)
                                ELSE hint \in ClosedStdTypes

excludes(W, s) ==
    /\ s.language = "rust"
    /\ \/ s.shape = "recv" /\ receiver_is_another_type(W, IF "receiver_hint" \in W.columns
                                                          THEN s.names ELSE NONE)
       \/ s.shape = "path" /\ path_is_another_owner(W, s.names, s.reason)

open_sites(W) == {s \in W.sites : s.state = "open"}

drop_other_owner_sites(W) ==
    {s \in open_sites(W) : ~(for_target(W) /\ excludes(W, s))}

\* The open sites the answer counts; without the reason column none is dropped.
unresolved_callsite_attribution(W) ==
    IF "unresolved_reason" \in W.columns THEN drop_other_owner_sites(W) ELSE open_sites(W)

-----------------------------------------------------------------------------
(* The answer.                                                             *)

\* Confidence in hundredths; an edge that stores none has its relation's floor.
RelationFloor == [Calls |-> 90, Imports |-> 90, Uses |-> 80, Implements |-> 85,
                  References |-> 100]

relation_confidence(rel, stored) == IF stored = 0 THEN RelationFloor[rel] ELSE stored

is_heuristic_edge(confidence) == confidence < 100

is_dynamic_dispatch_surface(label) == label = "Trait"

callers(W) == {s \in W.sites : s.state = "target"}

build_epistemic_reasons(W) ==
    {r \in {"dynamic_dispatch", "heuristic_edge", "unresolved_sites", "no_references"} :
        CASE r = "dynamic_dispatch" -> is_dynamic_dispatch_surface(W.target.label)
          [] r = "heuristic_edge"   -> \E s \in callers(W) :
                 is_heuristic_edge(relation_confidence("Calls", s.conf))
          [] r = "unresolved_sites" -> unresolved_callsite_attribution(W) # {}
          [] r = "no_references"    -> W.target.label = "File" /\ W.docsWithoutReferences}

cfg_twin_reason(W) == W.target.twins >= 2

get_impact(W) ==
    IF build_epistemic_reasons(W) = {} /\ ~cfg_twin_reason(W) THEN "exact" ELSE "lower-bound"

\* A sibling that opens and defines no symbol of the name lists its sites that
\* spell it.
foreign_callers(W) == {g \in W.siblings : g.opens /\ ~g.defines /\ g.names}

\* The coverage record is evidence of completeness, or the reason it is not.
missing_evidence(W) ==
    ~W.sidecar.present \/ W.sidecar.gaps > 0 \/ W.sidecar.cargo = "unknown"

impact_response(W) ==
    IF get_impact(W) = "exact" /\ foreign_callers(W) = {} /\ ~missing_evidence(W)
    THEN "exact" ELSE "lower-bound"

-----------------------------------------------------------------------------
(* What a site can call, by the rules of the language.                     *)

Denotes(W, name) == IF name \in DOMAIN W.alias THEN W.alias[name] ELSE name

\* The types x.f looks a method up on, for x of type T (two dereferences are
\* the longest chain the worlds hold).
Autoderef(W, T) ==
    LET next(S) == S \cup {W.deref[U] : U \in S \cap DOMAIN W.deref}
    IN next(next({T}))

\* The site can call the target: its spelling leads to the target's owner, or
\* names nothing, a type that hides what it holds, or the trait implemented.
CanCall(W, s) ==
    \/ s.language # "rust" \/ s.shape = "bare" \/ s.names \in {NONE, "Self"}
    \/ W.target.label # "Method"
    \/ s.shape = "path" /\ (\/ Denotes(W, s.names) = W.target.owner
                            \/ s.names = "Tr" /\ W.target.trait = "Tr")
    \/ s.shape = "recv" /\ (\/ W.target.owner \in Autoderef(W, Denotes(W, s.names))
                            \/ Denotes(W, s.names) \in {"Box", "Tr"})

\* A world the program can be in: a site calls the target only where it can;
\* an edge to something else is a static resolution, so the site does not call
\* the target unless the call is dispatched at run time; the resolver proves
\* only names that are not the repository's external; what the index does not
\* hold is a gap of the record it writes.
IsWorld(W, dynamic) ==
    /\ \A s \in W.sites :
        /\ s.calls => CanCall(W, s)
        /\ s.state = "target" => s.calls
        /\ s.state = "other" /\ s.calls =>
              dynamic /\ W.target.trait = "Tr" /\ s.shape = "recv" /\ s.names = "Tr"
        /\ s.reason = "external_callee" =>
              s.names \in {"Vec", "Box"} \/ (s.names = "Tr" /\ W.target.trait = "Tr")
        /\ s.reason # NONE => s.state = "open"
    /\ W.unseen => ~W.sidecar.present \/ W.sidecar.gaps > 0
    /\ W.target.trait # NONE => W.target.label = "Method"

\* An "exact" answer lists every caller: no site that calls the target is
\* open, resolved elsewhere or in a file the index does not hold.  This is what
\* `exact` claims (epistemic.rs: the static set is exhaustive), however sites
\* are spelled, whatever the filter of other owners drops and whether or not
\* the graph has the newer columns and a coverage record.
ExactIsExhaustive(W) ==
    impact_response(W) = "exact" =>
        ~W.unseen /\ \A s \in W.sites : s.calls => s.state = "target"
=============================================================================
