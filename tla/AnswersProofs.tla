---------------------------- MODULE AnswersProofs ----------------------------
(***************************************************************************)
(* Answers that can be relied on, for worlds of any size: the coverage     *)
(* report of a refresh is that of a full index, and so are the nodes and   *)
(* references of the infrastructure files; an exact impact leaves out no   *)
(* call; the verdicts on what a document or a PRD claims hold; the passes  *)
(* over names settle; a call on a receiver goes to the receiver's type.    *)
(***************************************************************************)
EXTENDS Answers, FiniteSetTheorems, FunctionTheorems, TLAPS

-----------------------------------------------------------------------------
(* Induction.  The provers cannot instantiate the library's theorem, which   *)
(* takes a predicate: here a set stands for it.                              *)

\* Of any numbers one is the least.
LEMMA LeastNumber ==
    ASSUME NEW T, T \subseteq Nat, T # {}
    PROVE  \E x \in T : \A y \in T : x <= y
  <1> DEFINE R == OpToRel(<, Nat)
  <1>1. IsWellFoundedOn(R, Nat)
    BY NatLessThanWellFounded
  <1>2. \A x, y \in Nat : y < x => <<y, x>> \in R
    BY DEF OpToRel
  <1> HIDE DEF R
  <1>3. PICK x \in T : \A y \in T : ~ (<<y, x>> \in R)
    BY <1>1, WFMin, Zenon
  <1>4. ASSUME NEW y \in T PROVE x <= y
    <2>1. x \in Nat /\ y \in Nat
      OBVIOUS
    <2>2. ~ (y < x)
      BY <1>2, <1>3, <2>1, Zenon
    <2> QED BY <2>1, <2>2
  <1> QED BY <1>4

\* A set of numbers that holds 0 and the successor of each of its members is all of them.
LEMMA Counting ==
    ASSUME NEW T, 0 \in T, \A n \in Nat : n \in T => n + 1 \in T
    PROVE  \A n \in Nat : n \in T
  <1> SUFFICES ASSUME NEW n \in Nat, n \notin T PROVE FALSE
    OBVIOUS
  <1> DEFINE Out == {k \in Nat : k \notin T}
  <1>1. PICK x \in Out : \A y \in Out : x <= y
    <2>1. Out \subseteq Nat /\ Out # {}
      OBVIOUS
    <2> HIDE DEF Out
    <2> QED BY <2>1, LeastNumber
  <1>2. x \in Nat /\ x # 0 /\ x \notin T
    BY <1>1
  <1>3. x - 1 \in Nat /\ ~ (x <= x - 1) /\ x = (x - 1) + 1
    BY <1>2
  <1>4. x - 1 \in T
    BY <1>1, <1>3
  <1> QED BY <1>2, <1>3, <1>4

-----------------------------------------------------------------------------
(* The coverage report.                                                      *)

IsFn(f) == f = [p \in DOMAIN f |-> f[p]]

\* F has the entries of f, and of g where f has none.
IsOver(F, f, g) ==
    /\ DOMAIN F = DOMAIN f \cup DOMAIN g
    /\ \A p \in DOMAIN f : F[p] = f[p]
    /\ \A p \in DOMAIN g : p \notin DOMAIN f => F[p] = g[p]

\* F is f with the files of ps under a kind, and with those it has not yet.
Puts(F, f, ps, kind) ==
    /\ DOMAIN F = ps \cup DOMAIN f
    /\ \A p \in ps : F[p] = kind
    /\ \A p \in DOMAIN f : p \notin ps => F[p] = f[p]
Adds(F, f, ps, kind) ==
    /\ DOMAIN F = ps \cup DOMAIN f
    /\ \A p \in DOMAIN f : F[p] = f[p]
    /\ \A p \in ps : p \notin DOMAIN f => F[p] = kind

LEMMA OverFacts ==
    ASSUME NEW f, NEW g PROVE IsOver(Over(f, g), f, g)
  BY DEF Over, IsOver

LEMMA OverIsFn ==
    ASSUME NEW f, NEW g PROVE IsFn(Over(f, g))
  BY DEF Over, IsFn

LEMMA InsertFacts ==
    ASSUME NEW f, NEW ps, NEW kind PROVE Puts(insert_all(f, ps, kind), f, ps, kind)
  BY DEF insert_all, Over, Puts

LEMMA OrInsertFacts ==
    ASSUME NEW f, NEW ps, NEW kind PROVE Adds(or_insert_all(f, ps, kind), f, ps, kind)
  BY DEF or_insert_all, Over, Adds

\* The kind a file's own reading under a filter leaves in the report, "" for none.
GapOf(e, l) ==
    IF e.iac = "skipped" THEN "skipped"
    ELSE IF e.iac = "partial" THEN "parse_partial"
    ELSE IF e.parse[l] = "quarantined" THEN "quarantined"
    ELSE IF e.parse[l] = "skipped" THEN "skipped"
    ELSE IF e.parse[l] = "partial" THEN "parse_partial" ELSE ""

Lacking(T, l, ps) == {p \in ps : GapOf(T[p], l) # ""}

\* What reading the files of ps adds to a report.
Records(F, f, T, l, ps) ==
    /\ DOMAIN F = DOMAIN f \cup Lacking(T, l, ps)
    /\ \A p \in Lacking(T, l, ps) : F[p] = GapOf(T[p], l)
    /\ \A p \in DOMAIN f : p \notin Lacking(T, l, ps) => F[p] = f[p]
    /\ IsFn(F)

LEMMA RecordedFacts ==
    ASSUME NEW f, NEW T, NEW l, NEW ps
    PROVE  Records(fold_iac_gaps(record_outcome(f, T, l, ps), T, ps), f, T, l, ps)
  <1> DEFINE P1 == {p \in ps : T[p].parse[l] = "partial"}
             P2 == {p \in ps : T[p].parse[l] = "skipped"}
             P3 == {p \in ps : T[p].parse[l] = "quarantined"}
             P4 == {p \in ps : T[p].iac = "partial"}
             P5 == {p \in ps : T[p].iac = "skipped"}
             F1 == insert_all(f, P1, "parse_partial")
             F2 == insert_all(F1, P2, "skipped")
             F3 == insert_all(F2, P3, "quarantined")
             F4 == insert_all(F3, P4, "parse_partial")
             F5 == insert_all(F4, P5, "skipped")
             L == Lacking(T, l, ps)
  <1>1. fold_iac_gaps(record_outcome(f, T, l, ps), T, ps) = F5
    BY DEF fold_iac_gaps, record_outcome
  <1>2. L = P1 \cup P2 \cup P3 \cup P4 \cup P5
    BY DEF Lacking, GapOf
  <1>3. ASSUME NEW p \in L
        PROVE  GapOf(T[p], l) = IF p \in P5 THEN "skipped" ELSE IF p \in P4 THEN "parse_partial"
                             ELSE IF p \in P3 THEN "quarantined" ELSE IF p \in P2 THEN "skipped"
                             ELSE "parse_partial"
    BY DEF Lacking, GapOf
  <1> HIDE DEF P1, P2, P3, P4, P5, F1, F2, F3, F4, F5, L
  <1>4. Puts(F1, f, P1, "parse_partial")
    BY InsertFacts DEF F1
  <1>5. Puts(F2, F1, P2, "skipped")
    BY InsertFacts DEF F2
  <1>6. Puts(F3, F2, P3, "quarantined")
    BY InsertFacts DEF F3
  <1>7. Puts(F4, F3, P4, "parse_partial")
    BY InsertFacts DEF F4
  <1>8. Puts(F5, F4, P5, "skipped")
    BY InsertFacts DEF F5
  <1>9. DOMAIN F5 = DOMAIN f \cup L
    BY <1>2, <1>4, <1>5, <1>6, <1>7, <1>8 DEF Puts
  <1>10. \A p \in L : F5[p] = GapOf(T[p], l)
    BY <1>2, <1>3, <1>4, <1>5, <1>6, <1>7, <1>8 DEF Puts
  <1>12. \A p \in DOMAIN f : p \notin L => F5[p] = f[p]
    BY <1>2, <1>4, <1>5, <1>6, <1>7, <1>8 DEF Puts
  <1>11. IsFn(F5)
    BY OverIsFn DEF F5, insert_all
  <1> QED BY <1>1, <1>9, <1>10, <1>11, <1>12 DEF L, Records

\* The directories the walk was kept out of.
LEMMA RecordWalkFacts ==
    ASSUME NEW walk
    PROVE  /\ DOMAIN record_walk(walk) = walk.excluded_dirs \cup walk.unreadable_dirs
           /\ \A p \in DOMAIN record_walk(walk) : record_walk(walk)[p] = "skipped"
           /\ IsFn(record_walk(walk))
  <1> DEFINE F1 == insert_all(NoGaps, walk.excluded_dirs, "skipped")
             F2 == insert_all(F1, walk.unreadable_dirs, "skipped")
  <1>1. DOMAIN NoGaps = {}
    BY DEF NoGaps
  <1>2. Puts(F1, NoGaps, walk.excluded_dirs, "skipped")
    BY InsertFacts
  <1> HIDE DEF F1
  <1>3. Puts(F2, F1, walk.unreadable_dirs, "skipped")
    BY InsertFacts
  <1>4. record_walk(walk) = F2
    BY DEF record_walk, F1
  <1> HIDE DEF F2
  <1>5. IsFn(record_walk(walk))
    BY OverIsFn DEF record_walk, insert_all
  <1> QED BY <1>1, <1>2, <1>3, <1>4, <1>5 DEF Puts

\* Cargo names files that have no kind yet, under kinds of its own.
Attributes(F, f, ps) ==
    /\ DOMAIN f \subseteq DOMAIN F /\ DOMAIN F \subseteq DOMAIN f \cup ps
    /\ \A p \in DOMAIN f : F[p] = f[p]
    /\ \A p \in DOMAIN F : p \notin DOMAIN f => F[p] \in Recomputed

LEMMA CargoFacts ==
    ASSUME NEW f, NEW T, NEW ps, NEW cargo
    PROVE  Attributes(record_cargo_attributions(f, T, ps, cargo), f, ps)
  <1> DEFINE rust == {p \in ps : cargo.known /\ T[p].ext = "rs"}
             A == rust \cap cargo.outside
             B == rust \cap cargo.gated
             F1 == or_insert_all(f, A, "outside_build_targets")
             F2 == or_insert_all(F1, B, "feature_gated")
  <1>1. record_cargo_attributions(f, T, ps, cargo) = F2
    BY DEF record_cargo_attributions
  <1>2. A \subseteq ps /\ B \subseteq ps
    OBVIOUS
  <1> HIDE DEF A, B
  <1>3. Adds(F1, f, A, "outside_build_targets")
    BY OrInsertFacts
  <1> HIDE DEF F1
  <1>4. Adds(F2, F1, B, "feature_gated")
    BY OrInsertFacts
  <1> HIDE DEF F2
  <1> QED BY <1>1, <1>2, <1>3, <1>4 DEF Recomputed, Adds, Attributes

\* The files the walk keeps are apart from the directories it was kept out of.
LEMMA WalkFacts ==
    ASSUME NEW T, NEW O
    PROVE  LET walk == collect_source_files(T, O)
               out == walk.excluded_dirs \cup walk.unreadable_dirs
           IN  /\ walk.files \subseteq DOMAIN T /\ out \subseteq DOMAIN T
               /\ \A p \in walk.files : p \notin out
  BY DEF collect_source_files

\* The report before Cargo and the language server have their say.
Base(T, l, walk) ==
    fold_iac_gaps(record_outcome(record_walk(walk), T, l, walk.files), T, walk.files)

IsBase(F, T, l, walk) ==
    /\ DOMAIN F = walk.excluded_dirs \cup walk.unreadable_dirs \cup Lacking(T, l, walk.files)
    /\ \A p \in Lacking(T, l, walk.files) : F[p] = GapOf(T[p], l)
    /\ \A p \in walk.excluded_dirs \cup walk.unreadable_dirs :
          p \notin walk.files => F[p] = "skipped"
    /\ IsFn(F)

LEMMA BaseFacts ==
    ASSUME NEW T, NEW l, NEW walk PROVE IsBase(Base(T, l, walk), T, l, walk)
  <1>1. Records(Base(T, l, walk), record_walk(walk), T, l, walk.files)
    BY RecordedFacts DEF Base
  <1>2. Lacking(T, l, walk.files) \subseteq walk.files
    BY DEF Lacking
  <1> QED BY <1>1, <1>2, RecordWalkFacts DEF Records, IsBase

LEMMA BaseIsUnique ==
    ASSUME NEW T, NEW l, NEW walk, NEW F, NEW G, IsBase(F, T, l, walk), IsBase(G, T, l, walk),
           \A p \in walk.files : p \notin walk.excluded_dirs \cup walk.unreadable_dirs
    PROVE  F = G
  <1>1. DOMAIN F = DOMAIN G
    BY DEF IsBase
  <1>2. ASSUME NEW p \in DOMAIN F PROVE F[p] = G[p]
    <2>1. CASE p \in Lacking(T, l, walk.files)
      BY <2>1 DEF IsBase
    <2>2. CASE p \notin Lacking(T, l, walk.files)
      <3>1. p \in walk.excluded_dirs \cup walk.unreadable_dirs
        BY <2>2 DEF IsBase
      <3>2. p \notin walk.files
        BY <3>1
      <3> QED BY <3>1, <3>2 DEF IsBase
    <2> QED BY <2>1, <2>2
  <1>3. F = [p \in DOMAIN F |-> F[p]] /\ G = [p \in DOMAIN G |-> G[p]]
    BY DEF IsBase, IsFn
  <1> QED BY <1>1, <1>2, <1>3

\* What the previous report says of a file that was read: the kind its reading left,
\* or a kind that is not carried forward.
Knows(files, T, l, p) ==
    /\ GapOf(T[p], l) # "" => p \in DOMAIN files /\ files[p] = GapOf(T[p], l)
    /\ GapOf(T[p], l) = "" /\ p \in DOMAIN files => files[p] \in Recomputed

LEMMA PriorFacts ==
    ASSUME NEW T, NEW O, NEW cargo, NEW unlinked,
           NEW p \in collect_source_files(T, O).files
    PROVE  Knows(merge_unlinked(index_full(T, O, cargo), unlinked).files, T, O.filter, p)
  <1> DEFINE l == O.filter
             walk == collect_source_files(T, O)
             base == Base(T, l, walk)
             full == index_full(T, O, cargo)
             prior == merge_unlinked(full, unlinked)
  <1>1. full = [files |-> record_cargo_attributions(base, T, walk.files, cargo),
                pruned_dirs |-> walk.pruned_dirs,
                files_indexed |-> Cardinality({q \in walk.files : T[q].parse[l] \in {"clean", "partial"}})]
    BY DEF index_full, index_walked, Base
  <1>2. full.files = record_cargo_attributions(base, T, walk.files, cargo)
    BY <1>1
  <1>3. prior.files = or_insert_all(full.files, unlinked, "unlinked_file")
    BY <1>1, <1>2 DEF merge_unlinked
  <1>4. IsBase(base, T, l, walk)
    BY BaseFacts
  <1>5. p \notin walk.excluded_dirs \cup walk.unreadable_dirs
    BY WalkFacts
  <1> HIDE DEF l, walk, base, full, prior
  <1>6. Attributes(full.files, base, walk.files)
    BY <1>2, CargoFacts
  <1>7. Adds(prior.files, full.files, unlinked, "unlinked_file")
    BY <1>3, OrInsertFacts
  <1>8. p \in DOMAIN base <=> GapOf(T[p], l) # ""
    BY <1>4, <1>5 DEF IsBase, Lacking, walk
  <1>9. p \in DOMAIN base => base[p] = GapOf(T[p], l)
    BY <1>4, <1>8 DEF IsBase, Lacking, walk
  <1>10. GapOf(T[p], l) # "" => p \in DOMAIN prior.files /\ prior.files[p] = GapOf(T[p], l)
    BY <1>6, <1>7, <1>8, <1>9 DEF Attributes, Adds
  <1>11. GapOf(T[p], l) = "" /\ p \in DOMAIN prior.files => prior.files[p] \in Recomputed
    BY <1>6, <1>7, <1>8 DEF Attributes, Adds, Recomputed
  <1> QED BY <1>10, <1>11 DEF l, full, prior, Knows

LEMMA GapKinds ==
    ASSUME NEW e, NEW l
    PROVE  GapOf(e, l) \in {"", "skipped", "parse_partial", "quarantined"}
  BY DEF GapOf

\* The report of a refresh under the same filter before Cargo has its say is that of a
\* full index: what was not read again is carried forward, and nothing else is.
LEMMA MergedFacts ==
    ASSUME NEW T, NEW O, NEW before, NEW P, P.filter = O.filter, NEW was, NEW unlinked
    PROVE  LET walk == collect_source_files(T, O)
               prior == merge_unlinked(index_full(before, P, was), unlinked)
               R == classify(next_manifest(before, collect_source_files(before, P)), T, walk)
           IN  merge_coverage(prior,
                  Over(record_walk(walk),
                       fold_iac_gaps(record_outcome(NoGaps, T, O.filter, R), T, R)),
                  R, walk.files) = Base(T, O.filter, walk)
  <1> DEFINE l == O.filter
             walk == collect_source_files(T, O)
             out == walk.excluded_dirs \cup walk.unreadable_dirs
             prior == merge_unlinked(index_full(before, P, was), unlinked)
             had == collect_source_files(before, P).files
             R == classify(next_manifest(before, collect_source_files(before, P)), T, walk)
             read == fold_iac_gaps(record_outcome(NoGaps, T, l, R), T, R)
             gaps == Over(record_walk(walk), read)
             held == {q \in DOMAIN prior.files : q \in walk.files \ R
                                                 /\ prior.files[q] \notin Recomputed}
             carried == [p \in held |-> prior.files[p]]
             M == Over(gaps, carried)
  <1>1. merge_coverage(prior, gaps, R, walk.files) = M
    BY DEF merge_coverage
  <1>2. \A p \in walk.files : p \notin out
    BY WalkFacts
  <1>3. R = {p \in walk.files : p \notin had \/ before[p] # T[p]}
    BY DEF classify, next_manifest
  <1>4. ASSUME NEW p \in walk.files \ R
        PROVE  /\ p \in held <=> GapOf(T[p], l) # ""
               /\ p \in held => prior.files[p] = GapOf(T[p], l)
    <2>1. before[p] = T[p]
      BY <1>3
    <2>3. p \in collect_source_files(before, P).files
      BY <1>3
    <2>4. /\ GapOf(T[p], l) # "" => p \in DOMAIN prior.files /\ prior.files[p] = GapOf(T[p], l)
          /\ GapOf(T[p], l) = "" /\ p \in DOMAIN prior.files => prior.files[p] \in Recomputed
      <3>1. Knows(prior.files, before, l, p)
        BY <2>3, PriorFacts
      <3> HIDE DEF prior, R, walk, l
      <3> QED BY <2>1, <3>1 DEF Knows
    <2>5. GapOf(T[p], l) \notin Recomputed
      BY GapKinds DEF Recomputed
    <2> HIDE DEF prior, R, walk, l
    <2> QED BY <2>4, <2>5
  <1>5. held \subseteq walk.files \ R
    OBVIOUS
  <1>6. /\ DOMAIN record_walk(walk) = out
        /\ \A p \in out : record_walk(walk)[p] = "skipped"
    BY RecordWalkFacts
  <1>7. Records(read, NoGaps, T, l, R) /\ DOMAIN NoGaps = {}
    BY RecordedFacts DEF NoGaps
  <1>8. IsOver(gaps, record_walk(walk), read)
    BY OverFacts
  <1>9. IsOver(M, gaps, carried) /\ IsFn(M)
    BY OverFacts, OverIsFn
  <1>10. DOMAIN carried = held /\ \A p \in held : carried[p] = prior.files[p]
    OBVIOUS
  <1>11. Lacking(T, l, R) = {p \in Lacking(T, l, walk.files) : p \in R}
         /\ Lacking(T, l, walk.files) \subseteq walk.files
         /\ \A p \in walk.files : p \in Lacking(T, l, walk.files) <=> GapOf(T[p], l) # ""
    BY <1>3 DEF Lacking
  <1> HIDE DEF l, had, walk, out, prior, R, read, gaps, held, carried, M
  <1>12. DOMAIN read = Lacking(T, l, R) /\ \A p \in Lacking(T, l, R) : read[p] = GapOf(T[p], l)
    BY <1>7 DEF Records
  <1>13. held = {p \in Lacking(T, l, walk.files) : p \notin R}
    BY <1>4, <1>5, <1>11
  <1>14. DOMAIN M = out \cup Lacking(T, l, walk.files)
    BY <1>6, <1>8, <1>9, <1>10, <1>11, <1>12, <1>13 DEF IsOver
  <1>15. ASSUME NEW p \in Lacking(T, l, walk.files) PROVE M[p] = GapOf(T[p], l)
    <2>1. p \in walk.files /\ p \notin out
      BY <1>2, <1>11
    <2>2. CASE p \in R
      <3>1. p \in DOMAIN read /\ read[p] = GapOf(T[p], l) /\ p \notin DOMAIN record_walk(walk)
        BY <1>6, <1>11, <1>12, <2>1, <2>2
      <3>2. p \in DOMAIN gaps /\ gaps[p] = GapOf(T[p], l)
        BY <1>8, <3>1 DEF IsOver
      <3> QED BY <1>9, <3>2 DEF IsOver
    <2>3. CASE p \notin R
      <3>1. p \notin DOMAIN gaps
        BY <1>6, <1>8, <1>11, <1>12, <2>1, <2>3 DEF IsOver
      <3>2. p \in held /\ prior.files[p] = GapOf(T[p], l)
        BY <1>4, <1>13, <2>1, <2>3
      <3> QED BY <1>9, <1>10, <3>1, <3>2 DEF IsOver
    <2> QED BY <2>2, <2>3
  <1>16. ASSUME NEW p \in out PROVE M[p] = "skipped"
    <2>1. p \in DOMAIN gaps /\ gaps[p] = "skipped"
      BY <1>6, <1>8 DEF IsOver
    <2> QED BY <1>9, <2>1 DEF IsOver
  <1>17. IsBase(M, T, l, walk)
    BY <1>9, <1>14, <1>15, <1>16 DEF IsBase, out
  <1>18. M = Base(T, l, walk)
    BY <1>2, <1>17, BaseFacts, BaseIsUnique DEF out
  <1> QED BY <1>1, <1>18 DEF gaps, prior, R, walk, read, l

\* What becomes of a directory that is not entered, and of a file that is wanted.
LEMMA FateFacts ==
    ASSUME NEW T, NEW O, NEW p \in DOMAIN T, T[p] \in TreeEntry
    PROVE  /\ T[p].is = "dir" => visit_entry(T, O, p) \in
                 {"nested_repository", "pruned", "excluded", "unreadable", "entered"}
           /\ ~Oversized /\ Wanted(T, O, p) => visit_entry(T, O, p) \in {"pruned", "kept"}
  <1>1. T[p].is \in {"dir", "file", "link"} /\ T[p].big \in BOOLEAN
    BY DEF TreeEntry
  <1>2. T[p].is = "dir" => visit_entry(T, O, p) \in
                 {"nested_repository", "pruned", "excluded", "unreadable", "entered"}
    BY DEF visit_entry
  <1>3. ASSUME ~Oversized, Wanted(T, O, p) PROVE visit_entry(T, O, p) \in {"pruned", "kept"}
    <2>1. T[p].is = "file" /\ ~T[p].big /\ (O.filter = "" \/ filter_keeps(O.filter, T[p].ext))
      BY <1>1, <1>3 DEF Wanted
    <2> QED BY <2>1 DEF visit_entry
  <1> QED BY <1>2, <1>3

\* The walk meets an entry when every directory above it was entered, and names what it
\* meets and does not enter or keep.
LEMMA MetFacts ==
    ASSUME NEW T, NEW O, NEW p \in DOMAIN T,
           \A a \in Above(p) : a \in DOMAIN T /\ visit_entry(T, O, a) = "entered"
    PROVE  LET walk == collect_source_files(T, O) IN
           /\ visit_entry(T, O, p) = "kept" => p \in walk.files
           /\ visit_entry(T, O, p) \in {"excluded", "unreadable"}
                 => p \in walk.excluded_dirs \cup walk.unreadable_dirs
           /\ visit_entry(T, O, p) \in {"pruned", "nested_repository"}
                 => p \in DOMAIN walk.pruned_dirs
  <1> DEFINE fate == [q \in DOMAIN T |-> visit_entry(T, O, q)]
             met == {q \in DOMAIN T : \A a \in Above(q) : fate[a] = "entered"}
             of(what) == {q \in met : fate[q] = what}
             walk == collect_source_files(T, O)
  <1>1. p \in met /\ fate[p] = visit_entry(T, O, p)
    OBVIOUS
  <1>2. walk = [files |-> of("kept"),
                excluded_dirs |-> of("excluded"),
                unreadable_dirs |-> of("unreadable"),
                pruned_dirs |-> [q \in of("pruned") \cup of("nested_repository") |->
                                   IF fate[q] = "pruned" THEN prune_reason(Last(q)) ELSE fate[q]]]
    BY DEF collect_source_files
  <1>3. /\ walk.files = of("kept") /\ walk.excluded_dirs = of("excluded")
        /\ walk.unreadable_dirs = of("unreadable")
        /\ DOMAIN walk.pruned_dirs = of("pruned") \cup of("nested_repository")
    <2> HIDE DEF met, fate, walk
    <2> QED BY <1>2
  <1> HIDE DEF met, fate, walk
  <1> QED BY <1>1, <1>3 DEF walk

\* A wanted file is read, or it is named, or the topmost directory above it that the
\* walk did not enter is.
LEMMA NothingIsLost ==
    ASSUME ~Oversized, NEW T, IsTree(T), NEW O, NEW p \in DOMAIN T, Wanted(T, O, p)
    PROVE  LET walk == collect_source_files(T, O) IN
           \/ p \in walk.files
           \/ \E a \in Above(p) \cup {p} :
                 a \in walk.excluded_dirs \cup walk.unreadable_dirs \cup DOMAIN walk.pruned_dirs
  <1> DEFINE walk == collect_source_files(T, O)
             In(n) == visit_entry(T, O, SubSeq(p, 1, n)) = "entered"
             Shut == {n \in 1 .. (Len(p) - 1) : ~In(n)}
  <1>1. p \in Seq(STRING) /\ Len(p) \in Nat /\ T[p] \in TreeEntry
        /\ \A a \in Above(p) : a \in DOMAIN T /\ T[a].is = "dir"
    <2>1. /\ p \in Seq(STRING) /\ T[p] \in TreeEntry
          /\ \A a \in Above(p) : a \in DOMAIN T /\ T[a].is = "dir"
      BY Zenon DEF IsTree
    <2>2. Len(p) \in Nat
      BY <2>1
    <2> QED BY <2>1, <2>2, Zenon
  <1>2. CASE Shut = {}
    <2>1. \A a \in Above(p) : a \in DOMAIN T /\ visit_entry(T, O, a) = "entered"
      BY <1>1, <1>2 DEF Above
    <2>2. visit_entry(T, O, p) \in {"pruned", "kept"}
      BY <1>1, FateFacts
    <2> HIDE DEF walk
    <2>3. p \in walk.files \/ p \in DOMAIN walk.pruned_dirs
      BY <2>1, <2>2, MetFacts DEF walk
    <2> QED BY <2>3 DEF walk
  <1>3. CASE Shut # {}
    <2>1. PICK n \in Shut : \A m \in Shut : n <= m
      <3>1. Shut \subseteq Nat
        BY <1>1
      <3> HIDE DEF Shut
      <3> QED BY <1>3, <3>1, LeastNumber
    <2> DEFINE a == SubSeq(p, 1, n)
    <2>2. n \in 1 .. (Len(p) - 1) /\ a \in Above(p) /\ visit_entry(T, O, a) # "entered"
      BY <2>1 DEF Above
    <2>3. a \in DOMAIN T /\ T[a].is = "dir" /\ T[a] \in TreeEntry
      BY <1>1, <2>2 DEF IsTree
    <2>4. ASSUME NEW b \in Above(a) PROVE b \in DOMAIN T /\ visit_entry(T, O, b) = "entered"
      <3>1. Len(a) = n
        BY <1>1, <2>2
      <3>2. PICK m \in 1 .. (n - 1) : b = SubSeq(a, 1, m)
        BY <3>1 DEF Above
      <3>3. b = SubSeq(p, 1, m)
        BY <1>1, <2>2, <3>2
      <3>4. m \in 1 .. (Len(p) - 1) /\ m \notin Shut
        BY <1>1, <2>1, <2>2, <3>2
      <3>5. b \in Above(p)
        BY <3>3, <3>4 DEF Above
      <3> QED BY <1>1, <3>3, <3>4, <3>5
    <2>5. visit_entry(T, O, a) \in {"nested_repository", "pruned", "excluded", "unreadable"}
      BY <2>2, <2>3, FateFacts
    <2> HIDE DEF a, walk
    <2>6. a \in walk.excluded_dirs \cup walk.unreadable_dirs \cup DOMAIN walk.pruned_dirs
      BY <2>3, <2>4, <2>5, MetFacts DEF walk
    <2> QED BY <2>2, <2>6 DEF walk
  <1> QED BY <1>2, <1>3

\* The files of the report under one of several kinds.
Under(F, kinds) == {p \in DOMAIN F : F[p] \in kinds}

LEMMA OneMoreKind ==
    ASSUME NEW F, IsFiniteSet(DOMAIN F), NEW kinds, NEW k, k \notin kinds
    PROVE  /\ Cardinality(Under(F, kinds \cup {k})) = Cardinality(Under(F, kinds)) + counts(F, k)
           /\ counts(F, k) \in Nat /\ Cardinality(Under(F, kinds)) \in Nat
  <1> DEFINE A == Under(F, kinds)
             B == {p \in DOMAIN F : F[p] = k}
  <1>1. A \in SUBSET (DOMAIN F) /\ B \in SUBSET (DOMAIN F) /\ A \cap B = {}
        /\ Under(F, kinds \cup {k}) = A \cup B
    BY DEF Under
  <1>2. counts(F, k) = Cardinality(B)
    BY DEF counts
  <1> HIDE DEF A, B
  <1>3. IsFiniteSet(A) /\ IsFiniteSet(B)
    BY <1>1, FS_Subset
  <1>4. Cardinality(A \cup B) = Cardinality(A) + Cardinality(B) - Cardinality(A \cap B)
    BY <1>3, FS_Union
  <1>5. Cardinality(A) \in Nat /\ Cardinality(B) \in Nat /\ Cardinality({}) = 0
    BY <1>3, FS_CardinalityType, FS_EmptySet
  <1>6. Cardinality(A \cup B) = Cardinality(A) + Cardinality(B)
    <2>1. Cardinality(A \cap B) = 0
      BY <1>1, <1>5
    <2> QED BY ONLY <1>4, <1>5, <2>1
  <1> QED BY <1>1, <1>2, <1>5, <1>6 DEF A

\* Every file of the report is in exactly one bucket.
LEMMA BucketsAddUp ==
    ASSUME NEW F, IsFiniteSet(DOMAIN F), \A p \in DOMAIN F : F[p] \in Kinds
    PROVE  counts(F, "parse_partial") + counts(F, "skipped") + counts(F, "quarantined")
             + counts(F, "outside_build_targets") + counts(F, "unlinked_file")
             + counts(F, "feature_gated") = Cardinality(DOMAIN F)
  <1> DEFINE K1 == {"parse_partial"}
             K2 == K1 \cup {"skipped"}
             K3 == K2 \cup {"quarantined"}
             K4 == K3 \cup {"outside_build_targets"}
             K5 == K4 \cup {"unlinked_file"}
             K6 == K5 \cup {"feature_gated"}
             N(K) == Cardinality(Under(F, K))
  <1>1. N({}) = 0 /\ N({} \cup {"parse_partial"}) = N({}) + counts(F, "parse_partial")
        /\ counts(F, "parse_partial") \in Nat
    <2>1. Under(F, {}) = {}
      BY DEF Under
    <2> QED BY <2>1, OneMoreKind, FS_EmptySet
  <1>2. N(K2) = N(K1) + counts(F, "skipped") /\ counts(F, "skipped") \in Nat
    BY OneMoreKind
  <1>3. N(K3) = N(K2) + counts(F, "quarantined") /\ counts(F, "quarantined") \in Nat
    <2>1. "quarantined" \notin K2
      OBVIOUS
    <2> HIDE DEF K2
    <2> QED BY <2>1, OneMoreKind
  <1>4. N(K4) = N(K3) + counts(F, "outside_build_targets") /\ counts(F, "outside_build_targets") \in Nat
    <2>1. "outside_build_targets" \notin K3
      OBVIOUS
    <2> HIDE DEF K3
    <2> QED BY <2>1, OneMoreKind
  <1>5. N(K5) = N(K4) + counts(F, "unlinked_file") /\ counts(F, "unlinked_file") \in Nat
    <2>1. "unlinked_file" \notin K4
      OBVIOUS
    <2> HIDE DEF K4
    <2> QED BY <2>1, OneMoreKind
  <1>6. N(K6) = N(K5) + counts(F, "feature_gated") /\ counts(F, "feature_gated") \in Nat
    <2>1. "feature_gated" \notin K5
      OBVIOUS
    <2> HIDE DEF K5
    <2> QED BY <2>1, OneMoreKind
  <1>7. K6 = Kinds /\ {} \cup {"parse_partial"} = K1
    BY DEF Kinds, Recomputed
  <1>8. Under(F, Kinds) = DOMAIN F
    BY DEF Under
  <1> HIDE DEF K1, K2, K3, K4, K5, K6
  <1>9. N(K1) = counts(F, "parse_partial")
    BY <1>1, <1>7
  <1>10. N(K6) = Cardinality(DOMAIN F)
    BY <1>7, <1>8
  <1> HIDE DEF N
  <1> QED BY <1>1, <1>2, <1>3, <1>4, <1>5, <1>6, <1>9, <1>10

\* After a full index whose report was saved, a pass of the language server and any
\* change of the tree, of the scope, of the exclusions and of what Cargo says, a refresh
\* under the same filter reports exactly what a full index would; every wanted file is
\* in the graph or accounted for; a failed parse keeps its kind; and the buckets add up.
LEMMA RefreshReportsAreHonest ==
    ASSUME ~Oversized, NEW w, NEW q, IsTree(q.T), q.lost = {},
           q.O.filter \in Filters, q.O.filter = w.O.filter
    PROVE  CoverageIsHonest(w, q)
  <1> DEFINE before == w.T
             P == w.O
             was == w.c
             T == q.T
             O == q.O
             cargo == q.c
             l == O.filter
             walk == collect_source_files(T, O)
             out == walk.excluded_dirs \cup walk.unreadable_dirs
             prior == merge_unlinked(index_full(before, P, was), q.u)
             manifest == next_manifest(before, collect_source_files(before, P))
             R == classify(manifest, T, walk)
             merged == merge_coverage(prior,
                          Over(record_walk(walk),
                               fold_iac_gaps(record_outcome(NoGaps, T, l, R), T, R)),
                          R, walk.files)
             base == Base(T, l, walk)
             F == record_cargo_attributions(base, T, walk.files, cargo)
             first == persist_full_index_sidecars(before, P, was, q.lost)
             disk == merge_into_sidecar(first, q.u)
             after == Refreshed(w, q)
             report == after.report
             full == index_full(T, O, cargo)
             said == coverage_summary(report, 1)
  <1>1. merged = base
    BY MergedFacts
  <1>2. report = refresh_merged(T, walk, cargo, merged) /\ after.manifest = next_manifest(T, walk)
    <2>1. first = [manifest |-> manifest, present |-> TRUE, report |-> index_full(before, P, was)]
      BY DEF persist_full_index_sidecars
    <2>2. disk = [manifest |-> manifest, present |-> TRUE, report |-> prior]
      <3> HIDE DEF first, manifest
      <3> QED BY <2>1 DEF merge_into_sidecar
    <2>3. after = index_incremental(disk, T, O, cargo, {})
      BY DEF Refreshed
    <2>4. after.report = refresh_walked(disk, T, l, walk, cargo)
          /\ after.manifest = next_manifest(T, walk)
      <3> HIDE DEF disk, after
      <3> QED BY <2>3 DEF index_incremental
    <2>5. refresh_walked(disk, T, l, walk, cargo) = refresh_reparsed(prior, T, l, walk, cargo, R)
      <3> HIDE DEF disk, prior, manifest, walk
      <3> QED BY <2>2 DEF refresh_walked
    <2>6. refresh_reparsed(prior, T, l, walk, cargo, R) = refresh_merged(T, walk, cargo, merged)
      <3> HIDE DEF prior, R, walk
      <3> QED BY DEF refresh_reparsed
    <2> HIDE DEF after, merged, walk, disk, prior, R
    <2> QED BY <2>4, <2>5, <2>6
  <1>3. report.files = F /\ report.pruned_dirs = walk.pruned_dirs /\ DOMAIN after.manifest = walk.files
    <2> HIDE DEF merged, base, walk, after
    <2> QED BY <1>1, <1>2 DEF refresh_merged, overlay_cargo_attributions, next_manifest
  <1>4. full.files = F /\ full.pruned_dirs = walk.pruned_dirs
    BY DEF index_full, index_walked, Base
  <1>5. /\ walk.files \subseteq DOMAIN T /\ out \subseteq DOMAIN T
        /\ \A p \in walk.files : p \notin out
    BY WalkFacts
  <1>6. IsBase(base, T, l, walk)
    BY BaseFacts
  <1>7. Attributes(F, base, walk.files)
    BY CargoFacts
  <1>8. ASSUME NEW p \in DOMAIN T, Wanted(T, O, p)
        PROVE  p \in DOMAIN after.manifest \/ Named(report, p)
    <2>1. \/ p \in walk.files
          \/ \E a \in Above(p) \cup {p} : a \in out \cup DOMAIN walk.pruned_dirs
      BY <1>8, NothingIsLost
    <2> HIDE DEF walk, out, base, F, after
    <2>2. out \subseteq DOMAIN F
      BY <1>6, <1>7 DEF IsBase, Attributes, out
    <2> QED BY <1>3, <2>1, <2>2 DEF Named
  <1>9. ASSUME NEW p \in DOMAIN after.manifest, T[p].parse[l] \in {"skipped", "quarantined"}
        PROVE  report.files[p] = T[p].parse[l]
    <2>1. p \in walk.files /\ p \in DOMAIN T
      BY <1>3, <1>5
    <2>2. /\ T[p].iac \in {"none", "partial", "skipped"}
          /\ T[p].parse[l] = "quarantined" => T[p].iac = "none"
          /\ T[p].parse[l] = "skipped" => T[p].iac # "partial"
      BY <2>1 DEF IsTree, TreeEntry
    <2>3. GapOf(T[p], l) = T[p].parse[l] /\ GapOf(T[p], l) # ""
      BY <1>9, <2>2 DEF GapOf
    <2>4. p \in Lacking(T, l, walk.files)
      BY <2>1, <2>3 DEF Lacking
    <2> HIDE DEF l, walk, out, base, F, after
    <2>5. p \in DOMAIN base /\ base[p] = GapOf(T[p], l)
      BY <1>6, <2>4 DEF IsBase
    <2> QED BY <1>3, <1>7, <2>3, <2>5 DEF Attributes
  <1>10. IsFiniteSet(DOMAIN F) /\ \A p \in DOMAIN F : F[p] \in Kinds
    <2> HIDE DEF l, walk, base, F
    <2>1. Lacking(T, l, walk.files) \subseteq walk.files
      BY DEF Lacking
    <2>2. DOMAIN F \in SUBSET (DOMAIN T)
      BY <1>5, <1>6, <1>7, <2>1 DEF IsBase, Attributes
    <2>3. IsFiniteSet(DOMAIN F)
      BY <2>2, FS_Subset DEF IsTree
    <2>4. ASSUME NEW p \in DOMAIN base PROVE base[p] \in Kinds
      <3>1. CASE p \in Lacking(T, l, walk.files)
        <4>1. base[p] = GapOf(T[p], l) /\ GapOf(T[p], l) # ""
          BY <1>6, <3>1 DEF IsBase, Lacking
        <4> QED BY <4>1, GapKinds DEF Kinds
      <3>2. CASE p \notin Lacking(T, l, walk.files)
        <4>1. p \in out
          BY <1>6, <3>2 DEF IsBase
        <4>2. base[p] = "skipped"
          BY <1>5, <1>6, <4>1 DEF IsBase
        <4> QED BY <4>2 DEF Kinds
      <3> QED BY <3>1, <3>2
    <2>5. Recomputed \subseteq Kinds
      BY DEF Kinds
    <2>6. ASSUME NEW p \in DOMAIN F PROVE F[p] \in Kinds
      BY <1>7, <2>4, <2>5 DEF Attributes
    <2> QED BY <2>3, <2>6
  <1>11. said["parse_partial"].count + said["skipped"].count + said["quarantined"].count
          + said["outside_build_targets"].count + said["unlinked_file"].count
          + said["feature_gated"].count = Cardinality(DOMAIN report.files)
    <2> HIDE DEF F, after
    <2>1. ASSUME NEW k \in Kinds PROVE said[k].count = counts(F, k)
      BY <1>3 DEF coverage_summary
    <2>2. /\ "parse_partial" \in Kinds /\ "skipped" \in Kinds /\ "quarantined" \in Kinds
          /\ "outside_build_targets" \in Kinds /\ "unlinked_file" \in Kinds
          /\ "feature_gated" \in Kinds
      BY DEF Kinds, Recomputed
    <2> HIDE DEF said
    <2>3. counts(F, "parse_partial") + counts(F, "skipped") + counts(F, "quarantined")
             + counts(F, "outside_build_targets") + counts(F, "unlinked_file")
             + counts(F, "feature_gated") = Cardinality(DOMAIN F)
      BY <1>10, BucketsAddUp
    <2> QED BY <1>3, <2>1, <2>2, <2>3
  <1> HIDE DEF F
  <1>12. report.files = full.files /\ report.pruned_dirs = full.pruned_dirs
    BY <1>3, <1>4
  <1>13. ReportIsHonest(T, O, after, full, said)
    <2> HIDE DEF after, full, said
    <2> QED BY <1>8, <1>9, <1>11, <1>12 DEF ReportIsHonest
  <1> QED BY <1>13 DEF CoverageIsHonest, RefreshIsHonest

\* Whatever was read, the report of a refresh is that of a full index and every regular
\* file under the size cap that the language filter keeps is in the graph or accounted
\* for by its own name or a directory's.  Assumed (PosedWalk): a tree that a walk can
\* meet, the filter of the pass before, whose report was saved.  Files over the cap are
\* what ~Oversized leaves out; links and filtered files are not wanted.
THEOREM CoverageStaysHonest ==
    ASSUME PosedWalk, ~Oversized PROVE WalkIsHonest
  BY RefreshReportsAreHonest DEF PosedWalk, WalkIsHonest

-----------------------------------------------------------------------------
(* The infrastructure files.                                                 *)

Emitted(f, text) == Inf!emit_nodes(f, text).nodes
Declared(f, text) == Inf!emit_nodes(f, text).edges
Referred(f, text, tree, nodes, dir) ==
    Inf!emit_reference_edges(f, text,
        Inf!ResolutionIndexes(tree, [nodes |-> nodes, edges |-> {}], dir), DOMAIN tree)

\* What a file yields is its own, and its inner edges stay inside it.
LEMMA EmittedFacts ==
    ASSUME NEW f, NEW text
    PROVE  /\ \A n \in Emitted(f, text) : n.file = f /\ n.label # "File"
           /\ \A e \in Declared(f, text) :
                 /\ e.from.file = f /\ e.from \in Emitted(f, text) \cup {Inf!File(f)}
                 /\ e.to \in Emitted(f, text)
  <1> USE DEF Emitted, Declared
  <1>1. CASE Inf!IsDockerfile(text)
    <2>1. Inf!emit_nodes(f, text) = Inf!emit_dockerfile_nodes(f, text)
      BY <1>1 DEF Inf!emit_nodes
    <2> QED
      BY <2>1 DEF Inf!emit_dockerfile_nodes, Inf!Resource, Inf!Image, Inf!Edge, Inf!File
  <1>2. CASE ~Inf!IsDockerfile(text) /\ Inf!IsOverlay(text)
    <2>1. Inf!emit_nodes(f, text) = Inf!emit_module_node(f)
      BY <1>2 DEF Inf!emit_nodes
    <2> QED
      BY <2>1 DEF Inf!emit_module_node, Inf!Module, Inf!Edge, Inf!File
  <1>3. CASE ~Inf!IsDockerfile(text) /\ ~Inf!IsOverlay(text)
    <2>1. Inf!emit_nodes(f, text) = Inf!emit_manifest_nodes(f, text)
      BY <1>3 DEF Inf!emit_nodes
    <2> QED
      BY <2>1 DEF Inf!emit_manifest_nodes, Inf!Resource, Inf!Image, Inf!Edge, Inf!File
  <1> QED BY <1>1, <1>2, <1>3

\* Which files have nodes of their own.
LEMMA EmittedWhen ==
    ASSUME NEW f, NEW text
    PROVE  /\ Inf!IsDockerfile(text) => Inf!Resource(f, 0) \in Emitted(f, text)
           /\ Inf!IsOverlay(text) => Inf!Module(f) \in Emitted(f, text)
           /\ \A n \in DOMAIN Inf!Docs(text) : Inf!Resource(f, n) \in Emitted(f, text)
           /\ /\ text.is \in {"dockerfile", "kustomization"}
              /\ ~Inf!IsDockerfile(text) /\ ~Inf!IsOverlay(text)
              => Emitted(f, text) = {}
  <1> USE DEF Emitted
  <1>1. Inf!IsDockerfile(text) => Inf!Resource(f, 0) \in Emitted(f, text)
    BY DEF Inf!emit_nodes, Inf!emit_dockerfile_nodes
  <1>2. ASSUME Inf!IsOverlay(text) PROVE Inf!Module(f) \in Emitted(f, text)
    <2>1. ~Inf!IsDockerfile(text)
      BY <1>2 DEF Inf!IsOverlay, Inf!IsDockerfile
    <2> QED BY <1>2, <2>1 DEF Inf!emit_nodes, Inf!emit_module_node
  <1>3. ASSUME text.is # "yaml" PROVE DOMAIN Inf!Docs(text) = {}
    BY <1>3 DEF Inf!Docs
  <1>4. ASSUME NEW n \in DOMAIN Inf!Docs(text)
        PROVE  Inf!Resource(f, n) \in Emitted(f, text)
    <2>1. ~Inf!IsDockerfile(text) /\ ~Inf!IsOverlay(text)
      BY <1>3, <1>4 DEF Inf!IsOverlay, Inf!IsDockerfile
    <2> QED BY <1>4, <2>1 DEF Inf!emit_nodes, Inf!emit_manifest_nodes
  <1>5. ASSUME text.is \in {"dockerfile", "kustomization"},
               ~Inf!IsDockerfile(text), ~Inf!IsOverlay(text)
        PROVE  Emitted(f, text) = {}
    BY <1>3, <1>5 DEF Inf!emit_nodes, Inf!emit_manifest_nodes
  <1> QED BY <1>1, <1>2, <1>4, <1>5

\* A reference leaves a node of its file and reaches a file of the tree or a node.
LEMMA ReferredFacts ==
    ASSUME NEW f, NEW text, NEW tree, NEW nodes, NEW dir,
           NEW e \in Referred(f, text, tree, nodes, dir)
    PROVE  /\ e.from.file = f /\ e.from \in Emitted(f, text)
           /\ e.to \in {Inf!File(p) : p \in DOMAIN tree} \cup nodes
  <1> DEFINE graph == [nodes |-> nodes, edges |-> {}]
             idx == Inf!ResolutionIndexes(tree, graph, dir)
  <1>1. graph.nodes = nodes
    OBVIOUS
  <1>2. /\ \A i \in DOMAIN idx.dockerfile : idx.dockerfile[i] \subseteq DOMAIN tree
        /\ \A x \in idx.resource : x[2] \in DOMAIN tree
        /\ \A p \in idx.modules : Inf!Module(p) \in nodes
    <2>1. \A i \in DOMAIN idx.dockerfile : idx.dockerfile[i] \subseteq DOMAIN tree
      BY DEF Inf!ResolutionIndexes
    <2>2. ASSUME NEW x \in idx.resource PROVE x[2] \in DOMAIN tree
      <3>1. idx.resource
              = UNION {{<<Inf!Docs(tree[f_])[n], f_>> :
                          n \in {k \in DOMAIN Inf!Docs(tree[f_]) :
                                   /\ Inf!Resource(f_, k) \in graph.nodes
                                   /\ Inf!Docs(tree[f_])[k].name # ""}} :
                       f_ \in DOMAIN tree}
        BY DEF Inf!ResolutionIndexes
      <3>2. \E f_ \in DOMAIN tree : \E d : x = <<d, f_>>
        BY <3>1
      <3> QED BY <3>2
    <2>3. \A p \in idx.modules : Inf!Module(p) \in nodes
      BY DEF Inf!ResolutionIndexes
    <2> QED BY <2>1, <2>2, <2>3
  <1>3. Inf!Targets(text, DOMAIN tree) \subseteq DOMAIN tree
    BY DEF Inf!Targets, Inf!resolve_path
  <1>4. \/ e \in Inf!copy_edges(f, text, DOMAIN tree)
        \/ e \in Inf!manifest_edges(f, text, idx)
        \/ e \in Inf!overlay_edges(f, text, idx, DOMAIN tree)
    BY DEF Referred, Inf!emit_reference_edges
  <1> HIDE DEF idx, graph
  <1>5. CASE e \in Inf!copy_edges(f, text, DOMAIN tree)
    <2>1. PICK p \in DOMAIN tree :
            Inf!IsDockerfile(text)
            /\ e = Inf!Edge(Inf!Resource(f, 0), Inf!File(p), "iac-copy-source")
      BY <1>3, <1>5 DEF Inf!copy_edges
    <2>2. e.from = Inf!Resource(f, 0) /\ e.to = Inf!File(p)
      BY <2>1 DEF Inf!Edge
    <2>3. e.from \in Emitted(f, text)
      BY <2>1, <2>2, EmittedWhen
    <2> QED BY <2>2, <2>3, EmittedFacts
  <1>6. CASE e \in Inf!manifest_edges(f, text, idx)
    <2>1. PICK n \in DOMAIN Inf!Docs(text) :
            \/ \E p \in DOMAIN tree : e = Inf!Edge(Inf!Resource(f, n), Inf!File(p), "iac-image-build")
            \/ \E p \in DOMAIN tree : e = Inf!Edge(Inf!Resource(f, n), Inf!File(p), "iac-name-match")
      BY <1>2, <1>6 DEF Inf!manifest_edges
    <2>2. e.from = Inf!Resource(f, n) /\ \E p \in DOMAIN tree : e.to = Inf!File(p)
      BY <2>1 DEF Inf!Edge
    <2> QED BY <2>1, <2>2, EmittedWhen, EmittedFacts
  <1>7. CASE e \in Inf!overlay_edges(f, text, idx, DOMAIN tree)
    <2>1. PICK p \in DOMAIN tree :
            /\ Inf!IsOverlay(text)
            /\ \/ p \in idx.modules
                  /\ e = Inf!Edge(Inf!Module(f), Inf!Module(p), "kustomize-base")
               \/ e = Inf!Edge(Inf!Module(f), Inf!File(p), "kustomize-ref")
      BY <1>3, <1>7 DEF Inf!overlay_edges
    <2>2. e.from = Inf!Module(f) /\ (e.to = Inf!File(p) \/ (p \in idx.modules /\ e.to = Inf!Module(p)))
      BY <2>1 DEF Inf!Edge
    <2>3. e.from \in Emitted(f, text)
      BY <2>1, <2>2, EmittedWhen
    <2> QED BY <1>2, <2>2, <2>3, EmittedFacts
  <1> QED BY <1>4, <1>5, <1>6, <1>7

PassNodes(sources, tree, nodes) ==
    nodes \cup UNION {Emitted(f, tree[f]) : f \in sources}
PassEdges(sources, tree, nodes, edges, dir) ==
    edges \cup (UNION {Declared(f, tree[f]) : f \in sources})
          \cup UNION {Referred(f, tree[f], tree, PassNodes(sources, tree, nodes), dir) :
                         f \in sources}

\* The pass adds what the files it is given yield, and resolves their references
\* against the nodes that are then in the graph.
LEMMA PassFacts ==
    ASSUME NEW sources, NEW tree, NEW nodes, NEW edges, NEW dir
    PROVE  Inf!run_iac_pass_for(sources, tree, [nodes |-> nodes, edges |-> edges], dir)
             = [nodes |-> PassNodes(sources, tree, nodes),
                edges |-> PassEdges(sources, tree, nodes, edges, dir)]
  <1> DEFINE graph == [nodes |-> nodes, edges |-> edges]
             own == [f \in sources |-> Inf!emit_nodes(f, tree[f])]
             all == PassNodes(sources, tree, nodes)
             inner == edges \cup UNION {Declared(f, tree[f]) : f \in sources}
             noded == [nodes |-> graph.nodes \cup UNION {own[f].nodes : f \in sources},
                       edges |-> graph.edges \cup UNION {own[f].edges : f \in sources}]
             idx == Inf!ResolutionIndexes(tree, noded, dir)
             refs == UNION {Inf!emit_reference_edges(f, tree[f], idx, DOMAIN tree) : f \in sources}
             after == Inf!run_iac_pass_for(sources, tree, graph, dir)
  <1>1. noded = [nodes |-> all, edges |-> inner]
    BY DEF Emitted, Declared, PassNodes
  <1>2. idx = Inf!ResolutionIndexes(tree, [nodes |-> all, edges |-> {}], dir)
    <2>1. noded.nodes = all
      BY <1>1
    <2>2. [nodes |-> all, edges |-> {}].nodes = all
      OBVIOUS
    <2> HIDE DEF noded
    <2> QED BY <2>1, <2>2 DEF Inf!ResolutionIndexes
  <1>3. refs = UNION {Referred(f, tree[f], tree, all, dir) : f \in sources}
    <2> HIDE DEF idx
    <2> QED BY <1>2 DEF Referred
  <1>4. after = [noded EXCEPT !.edges = @ \cup refs]
    BY DEF Inf!run_iac_pass_for, Inf!Emitted
  <1> HIDE DEF noded, idx, refs, after, inner
  <1>5. after = [nodes |-> all, edges |-> inner \cup refs]
    BY <1>1, <1>4
  <1>6. inner \cup refs = PassEdges(sources, tree, nodes, edges, dir)
    <2> DEFINE D == UNION {Declared(f, tree[f]) : f \in sources}
               R == UNION {Referred(f, tree[f], tree, all, dir) : f \in sources}
    <2>1. inner = edges \cup D
      BY DEF inner
    <2>2. PassEdges(sources, tree, nodes, edges, dir) = edges \cup D \cup R
      BY DEF PassEdges
    <2>3. refs = R
      BY <1>3
    <2> HIDE DEF D, R
    <2> QED BY <2>1, <2>2, <2>3
  <1> QED BY <1>5, <1>6 DEF after

Nodes(tree) == {Inf!File(f) : f \in DOMAIN tree} \cup UNION {Emitted(f, tree[f]) : f \in DOMAIN tree}
Out(f, tree, dir) == Declared(f, tree[f]) \cup Referred(f, tree[f], tree, Nodes(tree), dir)

\* A full index has the nodes of every file and the edges out of every file.
LEMMA FullInfraFacts ==
    ASSUME NEW tree, NEW dir
    PROVE  /\ Inf!full_index(tree, dir).nodes = Nodes(tree)
           /\ Inf!full_index(tree, dir).edges = UNION {Out(f, tree, dir) : f \in DOMAIN tree}
  <1> DEFINE files == {Inf!File(f) : f \in DOMAIN tree}
             all == PassNodes(DOMAIN tree, tree, files)
  <1>1. all = Nodes(tree)
    BY DEF Nodes, PassNodes
  <1>2. Inf!full_index(tree, dir)
          = Inf!run_iac_pass_for(DOMAIN tree, tree, [nodes |-> files, edges |-> {}], dir)
    BY DEF Inf!full_index
  <1>3. PassEdges(DOMAIN tree, tree, files, {}, dir) = UNION {Out(f, tree, dir) : f \in DOMAIN tree}
    <2>1. PassEdges(DOMAIN tree, tree, files, {}, dir)
            = {} \cup (UNION {Declared(f, tree[f]) : f \in DOMAIN tree})
                 \cup UNION {Referred(f, tree[f], tree, Nodes(tree), dir) : f \in DOMAIN tree}
      BY <1>1 DEF PassEdges
    <2>2. ASSUME NEW e
          PROVE  e \in PassEdges(DOMAIN tree, tree, files, {}, dir)
                   <=> \E f \in DOMAIN tree : e \in Out(f, tree, dir)
      <3> DEFINE D == UNION {Declared(f, tree[f]) : f \in DOMAIN tree}
                 R == UNION {Referred(f, tree[f], tree, Nodes(tree), dir) : f \in DOMAIN tree}
      <3>1. e \in D <=> \E f \in DOMAIN tree : e \in Declared(f, tree[f])
        OBVIOUS
      <3>2. e \in R <=> \E f \in DOMAIN tree : e \in Referred(f, tree[f], tree, Nodes(tree), dir)
        OBVIOUS
      <3>3. PassEdges(DOMAIN tree, tree, files, {}, dir) = {} \cup D \cup R
        BY <2>1
      <3> HIDE DEF D, R, files
      <3> QED BY <3>1, <3>2, <3>3 DEF Out
    <2>3. ASSUME NEW e
          PROVE  e \in UNION {Out(f, tree, dir) : f \in DOMAIN tree}
                   <=> \E f \in DOMAIN tree : e \in Out(f, tree, dir)
      OBVIOUS
    <2> HIDE DEF files
    <2> QED BY <2>2, <2>3, Zenon
  <1> HIDE DEF files
  <1>4. Inf!full_index(tree, dir)
          = [nodes |-> all, edges |-> PassEdges(DOMAIN tree, tree, files, {}, dir)]
    BY <1>2, PassFacts
  <1> HIDE DEF all
  <1> QED BY <1>1, <1>3, <1>4

\* The edges out of a file leave it, and have both ends in the graph.
LEMMA OutFacts ==
    ASSUME NEW tree, NEW dir, NEW f \in DOMAIN tree, NEW e \in Out(f, tree, dir)
    PROVE  /\ e.from.file = f /\ e.from \in Nodes(tree) /\ e.to \in Nodes(tree)
           /\ e.from.label = "File" => e.to.file = f /\ e.to.label # "File"
  <1>1. CASE e \in Declared(f, tree[f])
    <2>1. /\ e.from.file = f /\ e.from \in Emitted(f, tree[f]) \cup {Inf!File(f)}
          /\ e.to \in Emitted(f, tree[f]) /\ e.to.file = f /\ e.to.label # "File"
      BY <1>1, EmittedFacts
    <2> QED BY <2>1 DEF Nodes
  <1>2. CASE e \in Referred(f, tree[f], tree, Nodes(tree), dir)
    <2>1. /\ e.from.file = f /\ e.from \in Emitted(f, tree[f])
          /\ e.to \in {Inf!File(p) : p \in DOMAIN tree} \cup Nodes(tree)
      BY <1>2, ReferredFacts
    <2>2. e.from.label # "File"
      BY <2>1, EmittedFacts
    <2> QED BY <2>1, <2>2 DEF Nodes
  <1> QED BY <1>1, <1>2 DEF Out

\* A node of the graph is a file's own node or its File node.
LEMMA NodeFacts ==
    ASSUME NEW tree, NEW n \in Nodes(tree)
    PROVE  /\ n.file \in DOMAIN tree
           /\ n = Inf!File(n.file) \/ n \in Emitted(n.file, tree[n.file])
           /\ n.label = "File" <=> n = Inf!File(n.file)
  <1>1. PICK f \in DOMAIN tree : n = Inf!File(f) \/ n \in Emitted(f, tree[f])
    BY DEF Nodes
  <1>2. CASE n = Inf!File(f)
    <2>1. n.file = f /\ n.label = "File"
      BY <1>2 DEF Inf!File
    <2> QED BY <1>2, <2>1
  <1>3. CASE n \in Emitted(f, tree[f])
    <2>1. n.file = f /\ n.label # "File"
      BY <1>3, EmittedFacts
    <2>2. Inf!File(f).label = "File"
      BY DEF Inf!File
    <2> QED BY <1>3, <2>1, <2>2
  <1> QED BY <1>1, <1>2, <1>3

Changed(old, new) == {f \in DOMAIN old \cap DOMAIN new : old[f] # new[f]}
Reparsed(old, new) == Changed(old, new) \cup (DOMAIN new \ DOMAIN old)
Purged(old, new) ==
    {n \in Nodes(old) : \/ n.file \in DOMAIN old \ DOMAIN new
                        \/ n.file \in Changed(old, new) /\ n.label # "File"}

\* What the purge leaves is in the new graph; nothing of the new graph is lost.
LEMMA LeftNodes ==
    ASSUME NEW old, NEW new, NEW n \in Nodes(old)
    PROVE  n \notin Purged(old, new) => n \in Nodes(new)
  <1> SUFFICES ASSUME n \notin Purged(old, new) PROVE n \in Nodes(new)
    OBVIOUS
  <1>1. /\ n.file \in DOMAIN old
        /\ n = Inf!File(n.file) \/ n \in Emitted(n.file, old[n.file])
        /\ n.label = "File" <=> n = Inf!File(n.file)
    BY NodeFacts
  <1>2. n.file \in DOMAIN new /\ (n.file \in Changed(old, new) => n.label = "File")
    BY <1>1 DEF Purged
  <1>3. CASE n = Inf!File(n.file)
    BY <1>2, <1>3 DEF Nodes
  <1>4. CASE n # Inf!File(n.file)
    <2>1. old[n.file] = new[n.file]
      BY <1>1, <1>2, <1>4 DEF Changed
    <2>2. n \in Emitted(n.file, new[n.file])
      BY <1>1, <1>4, <2>1
    <2> QED BY <1>2, <2>2 DEF Nodes
  <1> QED BY <1>3, <1>4

LEMMA RefreshedNodes ==
    ASSUME NEW old, NEW new
    PROVE  PassNodes(Reparsed(old, new), new,
                     (Nodes(old) \ Purged(old, new))
                        \cup {Inf!File(f) : f \in DOMAIN new \ DOMAIN old}) = Nodes(new)
  <1> DEFINE left == Nodes(old) \ Purged(old, new)
             files == {Inf!File(f) : f \in DOMAIN new \ DOMAIN old}
             own == UNION {Emitted(f, new[f]) : f \in Reparsed(old, new)}
  <1>1. left \subseteq Nodes(new)
    BY LeftNodes
  <1>2. files \subseteq Nodes(new)
    BY DEF Nodes
  <1>3. own \subseteq Nodes(new)
    BY DEF Nodes, Reparsed, Changed
  <1>4. ASSUME NEW n \in Nodes(new) PROVE n \in left \cup files \cup own
    <2>1. /\ n.file \in DOMAIN new
          /\ n = Inf!File(n.file) \/ n \in Emitted(n.file, new[n.file])
          /\ n.label = "File" <=> n = Inf!File(n.file)
      BY NodeFacts
    <2>2. CASE n = Inf!File(n.file)
      <3>1. CASE n.file \in DOMAIN old
        <4>1. n \in Nodes(old)
          BY <2>2, <3>1 DEF Nodes
        <4>2. n \notin Purged(old, new)
          BY <2>1, <2>2 DEF Purged
        <4> QED BY <4>1, <4>2
      <3>2. CASE n.file \notin DOMAIN old
        BY <2>1, <2>2, <3>2
      <3> QED BY <3>1, <3>2
    <2>3. CASE n \in Emitted(n.file, new[n.file])
      <3>1. CASE n.file \in Reparsed(old, new)
        BY <2>3, <3>1
      <3>2. CASE n.file \notin Reparsed(old, new)
        <4>1. n.file \in DOMAIN old /\ n.file \notin Changed(old, new)
          BY <2>1, <3>2 DEF Reparsed
        <4>2. old[n.file] = new[n.file]
          BY <2>1, <4>1 DEF Changed
        <4>3. n \in Emitted(n.file, old[n.file])
          BY <2>3, <4>2
        <4>4. n \in Nodes(old)
          BY <4>1, <4>3 DEF Nodes
        <4>5. n \notin Purged(old, new)
          BY <2>1, <4>1 DEF Purged
        <4> QED BY <4>4, <4>5
      <3> QED BY <3>1, <3>2
    <2> QED BY <2>1, <2>2, <2>3
  <1>5. PassNodes(Reparsed(old, new), new, left \cup files) = left \cup files \cup own
    BY DEF PassNodes
  <1> HIDE DEF left, files, own
  <1>6. left \cup files \cup own = Nodes(new)
    BY <1>1, <1>2, <1>3, <1>4
  <1> QED BY <1>5, <1>6 DEF left, files

\* A refresh, step by step: the edges that survive the purge, those of the re-parsed
\* files, and the relinked ones whose ends are there.
Survivors(old, new, dir) ==
    {e \in Inf!full_index(old, dir).edges : {e.from, e.to} \cap Purged(old, new) = {}}
Relinked(old, new, dir) ==
    {e \in Inf!full_index(old, dir).edges :
        /\ e.to.label # "File" /\ e.to.file \in Changed(old, new)
        /\ e.from.file \notin Reparsed(old, new)
        /\ {e.from, e.to} \subseteq Nodes(new)}

LEMMA RefreshShape ==
    ASSUME NEW old, NEW new, NEW dir
    PROVE  /\ Inf!apply_changes(Inf!full_index(old, dir), old, new, dir, "none").nodes = Nodes(new)
           /\ Inf!apply_changes(Inf!full_index(old, dir), old, new, dir, "none").edges
                = Survivors(old, new, dir)
                    \cup (UNION {Out(f, new, dir) : f \in Reparsed(old, new)})
                    \cup Relinked(old, new, dir)
  <1> DEFINE graph == Inf!full_index(old, dir)
             deleted == DOMAIN old \ DOMAIN new
             changed == {f \in DOMAIN old \cap DOMAIN new : old[f] # new[f]}
             added == DOMAIN new \ DOMAIN old
             reparsed == changed \cup added
             saved == Inf!snapshot_inbound_edges(graph, changed, reparsed)
             gone == {n \in graph.nodes : \/ n.file \in deleted
                                          \/ (n.file \in changed /\ n.label # "File")}
             purged == Inf!purge(graph, gone)
             filed == [purged EXCEPT !.nodes = @ \cup {Inf!File(f) : f \in added}]
             passed == Inf!run_iac_pass_for(reparsed, new, filed, dir)
             start == (Nodes(old) \ Purged(old, new)) \cup {Inf!File(f) : f \in added}
             refreshed == UNION {Out(f, new, dir) : f \in Reparsed(old, new)}
  <1>1. Inf!apply_changes(graph, old, new, dir, "none") = Inf!relink_inbound_edges(passed, saved)
    <2>1. Inf!iac_pass(reparsed, new, filed, dir, "none") = passed
      BY Zenon DEF Inf!iac_pass
    <2> QED BY <2>1, Zenon DEF Inf!apply_changes
  <1>2. changed = Changed(old, new) /\ reparsed = Reparsed(old, new)
    BY DEF Changed, Reparsed
  <1>3. graph.nodes = Nodes(old)
    BY FullInfraFacts
  <1>4. gone = Purged(old, new)
    BY <1>3 DEF Purged, Changed
  <1>5. purged = [nodes |-> Nodes(old) \ Purged(old, new), edges |-> Survivors(old, new, dir)]
    <2> HIDE DEF gone
    <2> QED BY <1>3, <1>4 DEF Inf!purge, Survivors
  <1>6. filed = [nodes |-> start, edges |-> Survivors(old, new, dir)]
    <2> HIDE DEF purged
    <2> QED BY <1>5
  <1>7. PassNodes(Reparsed(old, new), new, start) = Nodes(new)
    BY RefreshedNodes
  <1>8. passed = [nodes |-> Nodes(new),
                  edges |-> PassEdges(Reparsed(old, new), new, start, Survivors(old, new, dir), dir)]
    <2> HIDE DEF filed, start, reparsed
    <2> QED BY <1>2, <1>6, <1>7, PassFacts
  <1>9. PassEdges(Reparsed(old, new), new, start, Survivors(old, new, dir), dir)
          = Survivors(old, new, dir) \cup refreshed
    <2> DEFINE D == UNION {Declared(f, new[f]) : f \in Reparsed(old, new)}
               R == UNION {Referred(f, new[f], new, Nodes(new), dir) : f \in Reparsed(old, new)}
    <2>1. PassEdges(Reparsed(old, new), new, start, Survivors(old, new, dir), dir)
            = Survivors(old, new, dir) \cup D \cup R
      <3> HIDE DEF start
      <3> QED BY <1>7 DEF PassEdges
    <2>2. D \cup R = refreshed
      <3>1. ASSUME NEW e
            PROVE  e \in D <=> \E f \in Reparsed(old, new) : e \in Declared(f, new[f])
        OBVIOUS
      <3>2. ASSUME NEW e
            PROVE  e \in R <=> \E f \in Reparsed(old, new) :
                                 e \in Referred(f, new[f], new, Nodes(new), dir)
        OBVIOUS
      <3>3. ASSUME NEW e
            PROVE  e \in refreshed <=> \E f \in Reparsed(old, new) : e \in Out(f, new, dir)
        OBVIOUS
      <3> HIDE DEF D, R, refreshed
      <3> QED BY <3>1, <3>2, <3>3 DEF Out
    <2> HIDE DEF D, R, refreshed, start
    <2> QED BY <2>1, <2>2
  <1> HIDE DEF passed, saved, start, refreshed
  <1>10. passed.nodes = Nodes(new) /\ passed.edges = Survivors(old, new, dir) \cup refreshed
         /\ passed = [nodes |-> passed.nodes, edges |-> passed.edges]
    BY <1>8, <1>9
  <1>11. {e \in saved : {e.from, e.to} \subseteq passed.nodes} = Relinked(old, new, dir)
    BY <1>2, <1>10 DEF saved, Inf!snapshot_inbound_edges, Relinked
  <1>12. Inf!relink_inbound_edges(passed, saved)
           = [passed EXCEPT !.edges = @ \cup {e \in saved : {e.from, e.to} \subseteq passed.nodes}]
    BY DEF Inf!relink_inbound_edges
  <1>13. Inf!relink_inbound_edges(passed, saved)
           = [nodes |-> Nodes(new),
              edges |-> Survivors(old, new, dir) \cup refreshed \cup Relinked(old, new, dir)]
    BY <1>10, <1>11, <1>12
  <1> QED BY <1>1, <1>13 DEF refreshed

\* An incremental refresh of the infrastructure files agrees with a full index of the
\* new tree, for every two trees: the same nodes, the same references out of every
\* re-parsed file, no reference of an untouched file lost but with the node it reached,
\* no edge without its ends, and a gap reported exactly where there are no nodes.
LEMMA InfraRefreshHolds ==
    ASSUME NEW old, NEW new, NEW dir,
           \A f \in DOMAIN new : /\ new[f].is \in {"dockerfile", "kustomization", "yaml", "other"}
                                 /\ new[f].readable \in BOOLEAN
    PROVE  Inf!InfraRefreshIsExact(old, new, dir, "none")
  <1> DEFINE before == Inf!full_index(old, dir)
             after == Inf!apply_changes(before, old, new, dir, "none")
             fresh == Inf!full_index(new, dir)
  <1>1. /\ after.nodes = Nodes(new)
        /\ after.edges = Survivors(old, new, dir)
                           \cup (UNION {Out(f, new, dir) : f \in Reparsed(old, new)})
                           \cup Relinked(old, new, dir)
    BY RefreshShape
  <1>2. before.nodes = Nodes(old) /\ before.edges = UNION {Out(f, old, dir) : f \in DOMAIN old}
    BY FullInfraFacts
  <1>3. fresh.nodes = Nodes(new) /\ fresh.edges = UNION {Out(f, new, dir) : f \in DOMAIN new}
    BY FullInfraFacts
  <1>4. ASSUME NEW e
        PROVE  e \in after.edges <=> \/ e \in Survivors(old, new, dir)
                                     \/ \E f \in Reparsed(old, new) : e \in Out(f, new, dir)
                                     \/ e \in Relinked(old, new, dir)
    BY <1>1
  <1>5. ASSUME NEW e \in before.edges
        PROVE  /\ e.from \in Nodes(old) /\ e.to \in Nodes(old)
               /\ e.from.file \in DOMAIN old
               /\ e.from.label = "File" => e.to.file = e.from.file /\ e.to.label # "File"
    <2>1. PICK f \in DOMAIN old : e \in Out(f, old, dir)
      BY <1>2
    <2> QED BY <2>1, OutFacts
  <1>6. Reparsed(old, new) \subseteq DOMAIN new /\ Changed(old, new) \subseteq Reparsed(old, new)
    BY DEF Reparsed, Changed
  <1>7. Survivors(old, new, dir) \subseteq before.edges
        /\ Relinked(old, new, dir) \subseteq before.edges
    BY DEF Survivors, Relinked
  <1>8. ASSUME NEW e \in Survivors(old, new, dir)
        PROVE  e.from \notin Purged(old, new) /\ e.to \notin Purged(old, new)
    BY DEF Survivors
  \* no edge of the old graph leaves a re-parsed file
  <1>9. ASSUME NEW e \in Survivors(old, new, dir), e.from.file \in Reparsed(old, new)
        PROVE  FALSE
    <2>1. e \in before.edges
      BY <1>7
    <2>2. e.from.file \in Changed(old, new)
      BY <1>5, <1>9, <2>1 DEF Reparsed
    <2>3. e.from.label = "File"
      BY <1>5, <1>8, <2>1, <2>2 DEF Purged
    <2>4. e.to \in Purged(old, new)
      BY <1>5, <2>1, <2>2, <2>3 DEF Purged
    <2> QED BY <1>8, <2>4
  <1> HIDE DEF before, after, fresh
  <1>10. ASSUME NEW f \in DOMAIN new, f \in DOMAIN old, old[f] = new[f]
         PROVE  Inf!OutOf(after, f) = {e \in Inf!OutOf(before, f) : e.to \in after.nodes}
    <2>1. f \notin Reparsed(old, new) /\ f \notin Changed(old, new)
      BY <1>10 DEF Reparsed, Changed
    <2>2. ASSUME NEW e \in after.edges, e.from.file = f
          PROVE  e \in before.edges /\ e.to \in after.nodes
      <3>1. CASE e \in Survivors(old, new, dir)
        <4>1. e \in before.edges /\ e.to \in Nodes(old)
          BY <1>5, <1>7, <3>1
        <4>2. e.to \notin Purged(old, new)
          BY <1>8, <3>1
        <4> QED BY <1>1, <4>1, <4>2, LeftNodes
      <3>2. ASSUME NEW g \in Reparsed(old, new), e \in Out(g, new, dir) PROVE FALSE
        <4>1. e.from.file = g
          BY <1>6, <3>2, OutFacts
        <4> QED BY <2>1, <2>2, <4>1
      <3>3. CASE e \in Relinked(old, new, dir)
        BY <1>1, <1>7, <3>3 DEF Relinked
      <3> QED BY <1>4, <3>1, <3>2, <3>3
    <2>3. ASSUME NEW e \in before.edges, e.from.file = f, e.to \in after.nodes
          PROVE  e \in after.edges
      <3>1. e.from \in Nodes(old) /\ e.to \in Nodes(old)
        BY <1>5
      <3>2. e.from \notin Purged(old, new)
        BY <2>1, <2>3, <1>10 DEF Purged
      <3>3. CASE e.to \notin Purged(old, new)
        <4>1. e \in Survivors(old, new, dir)
          BY <3>2, <3>3 DEF Survivors, before
        <4> QED BY <1>4, <4>1
      <3>4. CASE e.to \in Purged(old, new)
        <4>1. e.to.file \in DOMAIN new
          BY <1>1, <2>3, NodeFacts
        <4>2. e.to.file \in Changed(old, new) /\ e.to.label # "File"
          BY <3>4, <4>1 DEF Purged
        <4>3. e.from \in Nodes(new)
          BY <3>1, <3>2, LeftNodes
        <4>4. e \in Relinked(old, new, dir)
          BY <1>1, <2>1, <2>3, <4>2, <4>3 DEF Relinked, before
        <4> QED BY <1>4, <4>4
      <3> QED BY <3>3, <3>4
    <2> QED BY <2>2, <2>3 DEF Inf!OutOf
  <1>11. ASSUME NEW f \in DOMAIN new, ~(f \in DOMAIN old /\ old[f] = new[f])
         PROVE  Inf!OutOf(after, f) = Inf!OutOf(fresh, f)
    <2>1. f \in Reparsed(old, new)
      BY <1>11 DEF Reparsed, Changed
    <2>2. ASSUME NEW e \in after.edges, e.from.file = f PROVE e \in fresh.edges
      <3>1. e \notin Survivors(old, new, dir)
        BY <1>9, <2>1, <2>2
      <3>2. e \notin Relinked(old, new, dir)
        BY <2>1, <2>2 DEF Relinked
      <3>3. PICK g \in Reparsed(old, new) : e \in Out(g, new, dir)
        BY <1>4, <3>1, <3>2
      <3> QED BY <1>3, <1>6, <3>3
    <2>3. ASSUME NEW e \in fresh.edges, e.from.file = f PROVE e \in after.edges
      <3>1. PICK g \in DOMAIN new : e \in Out(g, new, dir)
        BY <1>3
      <3>2. g = f
        BY <2>3, <3>1, OutFacts
      <3> QED BY <1>4, <2>1, <3>1, <3>2
    <2> QED BY <2>2, <2>3 DEF Inf!OutOf
  <1>12. ASSUME NEW e \in after.edges PROVE {e.from, e.to} \subseteq after.nodes
    <2>1. CASE e \in Survivors(old, new, dir)
      <3>1. e.from \in Nodes(old) /\ e.to \in Nodes(old)
        BY <1>5, <1>7, <2>1
      <3>2. e.from \in Nodes(new) /\ e.to \in Nodes(new)
        BY <1>8, <2>1, <3>1, LeftNodes
      <3> QED BY <1>1, <3>2
    <2>2. ASSUME NEW g \in Reparsed(old, new), e \in Out(g, new, dir)
          PROVE  {e.from, e.to} \subseteq after.nodes
      BY <1>1, <1>6, <2>2, OutFacts
    <2>3. CASE e \in Relinked(old, new, dir)
      BY <1>1, <2>3 DEF Relinked
    <2> QED BY <1>4, <2>1, <2>2, <2>3
  <1>13. ASSUME NEW f \in DOMAIN new, new[f].is \in {"dockerfile", "kustomization"}
         PROVE  (Inf!gap(new[f]) = "none") <=> (\E n \in after.nodes : Inf!Owned(f, n))
    <2> DEFINE text == new[f]
    <2>1. text.readable = TRUE \/ text.readable = FALSE
      OBVIOUS
    <2>2. (\E n \in after.nodes : Inf!Owned(f, n)) <=> \E n : n \in Emitted(f, text)
      <3>1. ASSUME NEW n \in after.nodes, Inf!Owned(f, n) PROVE n \in Emitted(f, text)
        <4>1. n.file = f /\ n.label # "File"
          BY <3>1 DEF Inf!Owned
        <4> QED BY <1>1, <4>1, NodeFacts
      <3>2. ASSUME NEW n \in Emitted(f, text) PROVE n \in after.nodes /\ Inf!Owned(f, n)
        <4>1. n.file = f /\ n.label # "File"
          BY EmittedFacts
        <4>2. n \in Nodes(new)
          BY DEF Nodes
        <4> QED BY <1>1, <4>1, <4>2 DEF Inf!Owned
      <3> QED BY <3>1, <3>2
    <2>3. (\E n : n \in Emitted(f, text)) <=> (Inf!IsDockerfile(text) \/ Inf!IsOverlay(text))
      BY <1>13, EmittedWhen
    <2>4. CASE text.is = "dockerfile" /\ text.readable = TRUE
      <3>1. Inf!gap(text) = IF text.images = {} THEN "partial" ELSE "none"
        BY <2>4 DEF Inf!gap
      <3> QED BY <2>2, <2>3, <2>4, <3>1 DEF Inf!IsDockerfile, Inf!IsOverlay
    <2>5. CASE text.is = "dockerfile" /\ text.readable = FALSE
      <3>1. Inf!gap(text) = "skipped"
        BY <2>5 DEF Inf!gap
      <3> QED BY <2>2, <2>3, <2>5, <3>1 DEF Inf!IsDockerfile, Inf!IsOverlay
    <2>6. CASE text.is = "kustomization"
      <3>1. Inf!gap(text) = IF text.readable THEN "none" ELSE "skipped"
        BY <2>6 DEF Inf!gap
      <3> QED BY <2>1, <2>2, <2>3, <2>6, <3>1 DEF Inf!IsDockerfile, Inf!IsOverlay
    <2> QED BY <1>13, <2>1, <2>4, <2>5, <2>6
  <1>14. after.nodes = fresh.nodes
    BY <1>1, <1>3
  <1> QED
    BY <1>10, <1>11, <1>12, <1>13, <1>14
    DEF Inf!InfraRefreshIsExact, before, after, fresh

\* Whatever was read and whatever changed, a refresh of the infrastructure files agrees
\* with a full index, unless a statement of its pass failed.
THEOREM InfraStaysExact ==
    ASSUME PosedInfra PROVE InfraIsExact
  BY InfraRefreshHolds DEF PosedInfra, InfraIsExact, AreTexts

-----------------------------------------------------------------------------
(* The impact answer, for worlds of any size.                                *)

\* A type that does not dereference is looked up on alone.
LEMMA NoDeref ==
    ASSUME NEW W, NEW T, T \notin DOMAIN W.deref
    PROVE  Imp!Autoderef(W, T) = {T}
  BY DEF Imp!Autoderef

\* No site that the filter of other owners drops can call the target.
LEMMA DroppedCannotCall ==
    ASSUME NEW W, Plausible(W), NEW s \in W.sites, Imp!for_target(W), Imp!excludes(W, s),
           s.reason = "external_callee" => s.names \in {"Vec", "Box", "Tr"}
    PROVE  ~Imp!CanCall(W, s)
  <1> SUFFICES ASSUME Imp!CanCall(W, s) PROVE FALSE
    OBVIOUS
  <1>0. W.target.label = "Method" /\ s.language = "rust" /\ W.target.owner \in W.types
    BY DEF Imp!for_target, Imp!excludes
  <1>1. CASE s.shape = "recv"
    <2>1. /\ s.names # Imp!NONE /\ s.names # "Self" /\ s.names # W.target.owner
          /\ s.names \notin DOMAIN W.alias
          /\ IF s.names \in W.types THEN s.names \notin DOMAIN W.deref
                                    ELSE s.names \in {"Vec", "String"}
      BY <1>1 DEF Imp!excludes, Imp!receiver_is_another_type, Imp!is_self_or_owner,
                  Imp!is_aliased, Imp!is_repo_type, Imp!type_derefs, Imp!ClosedStdTypes,
                  Imp!NONE
    <2>2. Imp!Denotes(W, s.names) = s.names
      BY <2>1 DEF Imp!Denotes
    <2>3. s.names \notin DOMAIN W.deref /\ s.names \notin {"Box", "Tr"}
      BY <2>1 DEF Plausible
    <2>4. Imp!Autoderef(W, s.names) = {s.names}
      BY <2>3, NoDeref
    <2> QED
      BY <1>0, <1>1, <2>1, <2>2, <2>3, <2>4 DEF Imp!CanCall
  <1>2. CASE s.shape = "path"
    <2>1. /\ s.names # "Self" /\ s.names # W.target.owner /\ s.names \notin DOMAIN W.alias
          /\ \/ s.names \in W.types
             \/ W.target.trait = Imp!NONE /\ s.reason = "external_callee"
             \/ s.names \in {"Vec", "String"}
      BY <1>2 DEF Imp!excludes, Imp!path_is_another_owner, Imp!is_self_or_owner,
                  Imp!is_aliased, Imp!is_repo_type, Imp!ClosedStdTypes
    <2>2. Imp!Denotes(W, s.names) = s.names
      BY <2>1 DEF Imp!Denotes
    <2>3. ~(s.names = "Tr" /\ W.target.trait = "Tr")
      BY <2>1 DEF Plausible, Imp!NONE
    <2>4. s.names # Imp!NONE
      BY <2>1 DEF Plausible, Imp!NONE
    <2> QED
      BY <1>0, <1>2, <2>1, <2>2, <2>3, <2>4 DEF Imp!CanCall
  <1> QED
    BY <1>1, <1>2 DEF Imp!excludes

\* An impact answer called exact has left out no call site, in a world of any size: what
\* the filter of other owners drops cannot call the target, every other open site makes
\* the answer a lower bound, and what the index does not hold is a gap of its record.
\* Assumed of the world: IsWorld without dynamic dispatch through a trait, and Plausible.
LEMMA ExactAnswersAreExhaustive ==
    ASSUME NEW W, Imp!IsWorld(W, FALSE), Plausible(W)
    PROVE  Imp!ExactIsExhaustive(W)
  <1> SUFFICES ASSUME Imp!impact_response(W) = "exact"
               PROVE  ~W.unseen /\ \A s \in W.sites : s.calls => s.state = "target"
    BY DEF Imp!ExactIsExhaustive
  <1>1. Imp!get_impact(W) = "exact" /\ ~Imp!missing_evidence(W)
    BY DEF Imp!impact_response
  <1>2. ~W.unseen
    BY <1>1 DEF Imp!IsWorld, Imp!missing_evidence
  <1>3. Imp!build_epistemic_reasons(W) = {}
    BY <1>1 DEF Imp!get_impact
  <1>4. Imp!unresolved_callsite_attribution(W) = {}
    <2> DEFINE r == "unresolved_sites"
    <2>1. Imp!unresolved_callsite_attribution(W) # {} =>
             r \in Imp!build_epistemic_reasons(W)
      <3> HIDE DEF Imp!unresolved_callsite_attribution
      <3> QED BY DEF Imp!build_epistemic_reasons
    <2> QED
      BY <1>3, <2>1
  <1>5. ASSUME NEW s \in W.sites, s.calls
        PROVE  s.state = "target"
    <2>1. Imp!CanCall(W, s) /\ s.state # "other"
      BY <1>5 DEF Imp!IsWorld
    <2>2. s.reason = "external_callee" => s.names \in {"Vec", "Box", "Tr"}
      BY DEF Imp!IsWorld
    <2>3. ~(Imp!for_target(W) /\ Imp!excludes(W, s))
      BY <2>1, <2>2, DroppedCannotCall
    <2>4. s.state # "open"
      BY <1>4, <2>3 DEF Imp!unresolved_callsite_attribution, Imp!drop_other_owner_sites,
                        Imp!open_sites
    <2> QED
      BY <2>1, <2>4 DEF Plausible
  <1> QED
    BY <1>2, <1>5

\* In every world that IsWorld and Plausible describe, without dynamic dispatch through a
\* trait, an exact impact answer is exhaustive.
THEOREM ImpactStaysExhaustive ==
    ASSUME PosedImpact PROVE ImpactIsExhaustive
  BY ExactAnswersAreExhaustive DEF PosedImpact, ImpactIsExhaustive

-----------------------------------------------------------------------------
(* What a document says of the number of tests and proofs.                   *)

\* A claim that a scope has so many tests or proofs, or at least so many.
CountClaim(claim) ==
    /\ claim.kind \in {"test_count", "proof_count"}
    /\ claim.expected \in Nat /\ claim.atLeast \in BOOLEAN

Harness(claim) == IF claim.kind = "test_count" THEN TESTS ELSE PROOFS

\* The functions a claim is about, those certainly compiled, and those a build compiles.
Seen(T, claim) == scoped(T, claim.subject.file, Harness(claim))
Sure(T, claim) ==
    {d \in Seen(T, claim) :
        /\ file_gates(T, d.file, Harness(claim))
        /\ function_verdict(function_gates(T, d.file), d.line, Harness(claim))}
Built(T, claim, build) ==
    {d \in T.decls :
        /\ d.label = "Function" /\ d.entry = Harness(claim).entry /\ ~d.nested
        /\ claim.subject.file \in {"", d.file}
        /\ T.ctx[d.file] \in Harness(claim).contexts
        /\ T.gate[d.file] \in {"", Harness(claim).option} \cup build
        /\ Compiled(d, {Harness(claim).option} \cup build)}

\* What is certainly compiled is compiled in every build, and what a build compiles a
\* parser has seen, macro output aside.
LEMMA CountsAreBounds ==
    ASSUME NEW T, CountableTree(T), NEW claim, NEW build
    PROVE  /\ Sure(T, claim) \subseteq Built(T, claim, build)
           /\ (\A d \in T.decls : ~d.macro) => Built(T, claim, build) \subseteq Seen(T, claim)
  <1> DEFINE h == Harness(claim)
  <1> HIDE DEF h
  <1>1. ASSUME NEW d \in Sure(T, claim)
        PROVE  d \in Built(T, claim, build)
    <2>1. /\ d \in Rows(T) /\ d.label = "Function" /\ d.entry = h.entry
          /\ claim.subject.file \in {"", d.file}
          /\ T.ctx[d.file] \in h.contexts /\ T.gate[d.file] \in {"", h.option}
          /\ function_verdict(function_gates(T, d.file), d.line, h)
      BY DEF Sure, Seen, scoped, file_gates, h
    <2>2. PICK g \in function_gates(T, d.file) :
              g.line = d.line /\ ~g.nested /\ ~g.cfg_attr /\ g.gate \in {"", h.option}
      BY <2>1 DEF function_verdict
    <2>3. PICK e \in Rows(T) :
              /\ e.file = d.file /\ e.label \in {"Function", "Method"}
              /\ g = [line |-> e.line, gate |-> e.gate, cfg_attr |-> e.attr, nested |-> e.nested]
      BY <2>2 DEF function_gates
    <2>4. e = d
      BY <2>1, <2>2, <2>3 DEF CountableTree
    <2>5. ~d.nested /\ ~d.attr /\ d.gate \in {"", h.option}
      BY <2>2, <2>3, <2>4
    <2>6. Compiled(d, {h.option} \cup build)
      BY <2>5 DEF Compiled
    <2>7. d \in T.decls
      BY <2>1 DEF Rows
    <2> QED
      BY <2>1, <2>5, <2>6, <2>7 DEF Built, h
  <1>2. (\A d \in T.decls : ~d.macro) => Built(T, claim, build) \subseteq Seen(T, claim)
    BY DEF Built, Seen, scoped, Rows
  <1> QED
    BY <1>1, <1>2

\* The verdict on a count, by the two numbers it is given.
LEMMA CountVerdicts ==
    ASSUME NEW claim, CountClaim(claim), NEW seen \in Nat, NEW floor \in Nat
    PROVE  /\ count_verdict(claim, seen, floor).verdict = "contradicted" =>
                 claim.atLeast = FALSE /\ floor > claim.expected
           /\ count_verdict(claim, seen, floor).verdict = "supported" =>
                 \/ claim.atLeast = TRUE /\ floor >= claim.expected
                 \/ claim.atLeast = FALSE /\ floor = claim.expected /\ seen = claim.expected
  BY DEF count_verdict, Verdict, not_verifiable, CountClaim

\* A verdict on a count of tests or proofs holds in every build, for every tree: what is
\* "contradicted" no build bears out, and what is "supported" every build does, macro
\* output aside for an exact count.
LEMMA CountVerdictsHold ==
    ASSUME NEW T, CountableTree(T), NEW claim, CountClaim(claim)
    PROVE  DocVerdictHolds(T, claim)
  <1> DEFINE h == Harness(claim)
             seen == Cardinality(Seen(T, claim))
             floor == Cardinality(Sure(T, claim))
             n(b) == Cardinality(Built(T, claim, b))
             verdict == check_one(T, claim).verdict
  <1>1. ASSUME NEW b
        PROVE  Holds(T, claim, b) <=> Counts(claim, n(b))
    <2>1. Measured(T, claim.subject.file, h, b) = n(b)
      BY DEF Measured, Built
    <2>2. CASE claim.kind = "test_count"
      <3>1. h = TESTS
        BY <2>2 DEF Harness
      <3>2. Holds(T, claim, b)
              <=> Counts(claim, Measured(T, claim.subject.file, TESTS, b))
        BY ONLY <2>2 DEF Holds
      <3> QED
        BY <2>1, <3>1, <3>2
    <2>3. CASE claim.kind = "proof_count"
      <3>1. h = PROOFS
        BY <2>3 DEF Harness
      <3>2. Holds(T, claim, b)
              <=> Counts(claim, Measured(T, claim.subject.file, PROOFS, b))
        BY ONLY <2>3 DEF Holds
      <3> QED
        BY <2>1, <3>1, <3>2
    <2> QED
      BY <2>2, <2>3 DEF CountClaim
  <1>2. \/ verdict = "rejected_anchor"
        \/ verdict = count_verdict(claim, seen, floor).verdict
    <2>1. entry_count(T, claim, h) = count_verdict(claim, seen, floor)
      BY DEF entry_count, compiled_floor, Seen, Sure
    <2>2. CASE ~claim.anchored
      BY <2>2 DEF check_one, Verdict
    <2>3. CASE claim.anchored /\ claim.kind = "test_count"
      <3>1. h = TESTS
        BY <2>3 DEF Harness
      <3>2. check_one(T, claim) = entry_count(T, claim, TESTS)
        BY ONLY <2>3 DEF check_one
      <3> QED
        BY <2>1, <3>1, <3>2
    <2>4. CASE claim.anchored /\ claim.kind = "proof_count"
      <3>1. h = PROOFS
        BY <2>4 DEF Harness
      <3>2. check_one(T, claim) = entry_count(T, claim, PROOFS)
        BY ONLY <2>4 DEF check_one
      <3> QED
        BY <2>1, <3>1, <3>2
    <2> QED
      BY <2>2, <2>3, <2>4 DEF CountClaim
  <1>3. /\ IsFiniteSet(Seen(T, claim)) /\ IsFiniteSet(Sure(T, claim))
        /\ \A b : IsFiniteSet(Built(T, claim, b))
    <2>1. /\ Seen(T, claim) \subseteq T.decls /\ Sure(T, claim) \subseteq Seen(T, claim)
          /\ \A b : Built(T, claim, b) \subseteq T.decls
      BY DEF Seen, Sure, Built, scoped, Rows
    <2> QED
      BY <2>1, FS_Subset DEF CountableTree
  <1>4. seen \in Nat /\ floor \in Nat /\ \A b : n(b) \in Nat
    BY <1>3, FS_CardinalityType
  <1>5. \A b : floor <= n(b)
    BY <1>3, CountsAreBounds, FS_Subset
  <1>6. ASSUME \A d \in T.decls : ~d.macro, NEW b
        PROVE  n(b) <= seen
    <2>1. Built(T, claim, b) \subseteq Seen(T, claim)
      BY <1>6, CountsAreBounds
    <2> QED
      BY <1>3, <2>1, FS_Subset
  <1> HIDE DEF h, seen, floor, n, verdict
  <1>7. claim.expected \in Nat
    BY DEF CountClaim
  <1>8. ASSUME verdict = "contradicted", NEW b \in Builds
        PROVE  ~Holds(T, claim, b)
    <2>1. claim.atLeast = FALSE /\ floor > claim.expected
      BY <1>2, <1>4, <1>8, CountVerdicts
    <2>2. n(b) # claim.expected
      BY <1>4, <1>5, <1>7, <2>1
    <2> QED
      BY <1>1, <2>1, <2>2 DEF Counts
  <1>9. ASSUME verdict = "supported",
               claim.atLeast = TRUE \/ \A d \in T.decls : ~d.macro,
               NEW b \in Builds
        PROVE  Holds(T, claim, b)
    <2>1. \/ claim.atLeast = TRUE /\ floor >= claim.expected
          \/ claim.atLeast = FALSE /\ floor = claim.expected /\ seen = claim.expected
      BY <1>2, <1>4, <1>9, CountVerdicts
    <2>2. CASE claim.atLeast = TRUE /\ floor >= claim.expected
      <3>1. n(b) >= claim.expected
        BY <1>4, <1>5, <1>7, <2>2
      <3> QED
        BY <1>1, <2>2, <3>1 DEF Counts
    <2>3. CASE claim.atLeast = FALSE /\ floor = claim.expected /\ seen = claim.expected
      <3>1. n(b) <= seen
        BY <1>6, <1>9, <2>3
      <3>2. n(b) = claim.expected
        BY <1>4, <1>5, <1>7, <2>3, <3>1
      <3> QED
        BY <1>1, <2>3, <3>2 DEF Counts
    <2> QED
      BY <2>1, <2>2, <2>3
  <1> QED
    BY <1>8, <1>9 DEF DocVerdictHolds, CountClaim, verdict

-----------------------------------------------------------------------------
(* What a document says of names, visibility and variants.                   *)

\* What is looked up is what is declared.
LEMMA LookupFacts ==
    ASSUME NEW T, NEW claim, SubjectIsWritten(T, claim), NEW labels
    PROVE  lookup(T, claim.subject, labels) = {d \in NamedBy(T, claim) : d.label \in labels}
  BY DEF lookup, Rows, NamedBy, SubjectIsWritten

\* The verdict of an answer.
LEMMA VerdictOf ==
    ASSUME NEW v, NEW r
    PROVE  Verdict(v, r).verdict = v /\ not_verifiable(r).verdict = "not_verifiable"
  BY DEF Verdict, not_verifiable

\* What is absent is neither supported nor contradicted.
LEMMA AbsentVerdict ==
    ASSUME NEW T, NEW subject
    PROVE  absent(T, subject).verdict \in {"not_verifiable", "not_found"}
  <1>1. CASE subject.file # "" /\ subject.file \notin DOMAIN T.ctx
    BY <1>1 DEF absent, not_verifiable, Verdict
  <1>2. CASE ~(subject.file # "" /\ subject.file \notin DOMAIN T.ctx)
    BY <1>2 DEF absent, Verdict
  <1> QED
    BY <1>1, <1>2

\* What symbol_exists answers, by what it finds.
LEMMA SymbolVerdict ==
    ASSUME NEW T, NEW subject, NEW labels
    PROVE  /\ symbol_exists(T, subject, labels).verdict # "contradicted"
           /\ symbol_exists(T, subject, labels).verdict = "supported" =>
                 lookup(T, subject, labels) # {}
  <1>1. CASE lookup(T, subject, labels) = {}
    <2>1. symbol_exists(T, subject, labels) = absent(T, subject)
      BY <1>1 DEF symbol_exists
    <2> QED
      BY <2>1, AbsentVerdict
  <1>2. CASE lookup(T, subject, labels) # {}
    BY <1>2 DEF symbol_exists, Verdict
  <1> QED
    BY <1>1, <1>2

\* A claim that something exists is supported only when it does.
LEMMA ExistenceHolds ==
    ASSUME NEW T, NEW claim, SubjectIsWritten(T, claim), claim.anchored,
           claim.kind \in {"symbol_exists", "module_exists", "file_exists"}
    PROVE  /\ check_one(T, claim).verdict # "contradicted"
           /\ check_one(T, claim).verdict = "supported" => \A b : Holds(T, claim, b)
  <1>1. CASE claim.kind = "symbol_exists"
    <2>1. check_one(T, claim) = symbol_exists(T, claim.subject, AnySymbol)
      BY <1>1 DEF check_one
    <2>2. \A b : Holds(T, claim, b) <=> NamedBy(T, claim) # {}
      BY <1>1 DEF Holds, NamedBy
    <2>3. lookup(T, claim.subject, AnySymbol)
            = {d \in NamedBy(T, claim) : d.label \in AnySymbol}
      BY LookupFacts
    <2>4. /\ check_one(T, claim).verdict # "contradicted"
          /\ check_one(T, claim).verdict = "supported" => NamedBy(T, claim) # {}
      BY <2>1, <2>3, SymbolVerdict
    <2> QED
      BY ONLY <2>2, <2>4
  <1>2. CASE claim.kind = "module_exists"
    <2>1. check_one(T, claim) = symbol_exists(T, claim.subject, {"Module"})
      BY <1>2 DEF check_one
    <2>2. \A b : Holds(T, claim, b) <=> \E d \in NamedBy(T, claim) : d.label = "Module"
      BY <1>2 DEF Holds, NamedBy
    <2>3. lookup(T, claim.subject, {"Module"})
            = {d \in NamedBy(T, claim) : d.label \in {"Module"}}
      BY LookupFacts
    <2>4. /\ check_one(T, claim).verdict # "contradicted"
          /\ check_one(T, claim).verdict = "supported" =>
                \E d \in NamedBy(T, claim) : d.label = "Module"
      BY <2>1, <2>3, SymbolVerdict
    <2> QED
      BY ONLY <2>2, <2>4
  <1>3. CASE claim.kind = "file_exists"
    <2>1. check_one(T, claim) = file_exists(T, claim.subject)
      BY <1>3 DEF check_one
    <2>2. \A b : Holds(T, claim, b) <=> claim.subject.file \in DOMAIN T.ctx \cup T.others
      BY <1>3 DEF Holds
    <2>3. /\ check_one(T, claim).verdict # "contradicted"
          /\ check_one(T, claim).verdict = "supported" =>
                claim.subject.file \in DOMAIN T.ctx \cup T.others
      <3>1. CASE claim.subject.file \in DOMAIN T.ctx \cup T.others
        <4>1. file_exists(T, claim.subject) = Verdict("supported", "")
          BY <3>1 DEF file_exists
        <4>2. check_one(T, claim).verdict = "supported"
          BY ONLY <2>1, <4>1, VerdictOf
        <4> QED
          BY ONLY <3>1, <4>2
      <3>2. CASE ~(claim.subject.file \in DOMAIN T.ctx \cup T.others)
        <4>1. file_exists(T, claim.subject) = Verdict("not_found", "absent")
          BY <3>2 DEF file_exists
        <4> QED
          BY <2>1, <4>1 DEF Verdict
      <3> QED
        BY <3>1, <3>2
    <2> QED
      BY ONLY <2>2, <2>3
  <1> QED
    BY <1>1, <1>2, <1>3

\* A verdict on `pub` is about every declaration of the name.
LEMMA VisibilityHolds ==
    ASSUME NEW T, WrittenTree(T), NEW claim, SubjectIsWritten(T, claim), claim.anchored,
           claim.kind = "is_public"
    PROVE  /\ check_one(T, claim).verdict = "contradicted" => \A b : ~Holds(T, claim, b)
           /\ check_one(T, claim).verdict = "supported" => \A b : Holds(T, claim, b)
  <1> DEFINE found == lookup(T, claim.subject, AnySymbol)
             named == NamedBy(T, claim)
             items == distinct_items(found)
  <1>1. check_one(T, claim) = is_public(T, claim.subject)
    BY DEF check_one
  <1>2. found = named
    <2>1. found = {d \in named : d.label \in AnySymbol}
      BY LookupFacts
    <2>2. \A d \in named : d.label \in AnySymbol
      BY DEF NamedBy, WrittenTree
    <2> QED
      BY ONLY <2>1, <2>2
  <1>3. \A b : Holds(T, claim, b) <=> {d \in named : d.vis = "pub" \/ d.trait = "decl"} = named
    BY DEF Holds, NamedBy
  <1>4. /\ Cardinality(items) \in Nat
        /\ found = {} => Cardinality(items) = 0
        /\ found # {} => Cardinality(items) > 1 \/ Cardinality(items) = 1
    <2>1. IsFiniteSet(found)
      BY FS_Subset DEF lookup, Rows, WrittenTree, CountableTree
    <2>2. IsFiniteSet(items)
      <3> DEFINE f == [d \in found |-> <<d.file, d.name>>]
      <3>1. f \in Surjection(found, items)
        BY Fun_IsSurj DEF distinct_items
      <3> HIDE DEF f, items, found
      <3> QED
        BY <2>1, <3>1, FS_Surjection
    <2>3. found = {} <=> items = {}
      BY DEF distinct_items
    <2> HIDE DEF items, found
    <2> QED
      BY <2>2, <2>3, FS_CardinalityType, FS_EmptySet
  <1>5. /\ is_public(T, claim.subject).verdict = "contradicted" =>
              found # {} /\ \A d \in found : declared(d) = "not_pub"
        /\ is_public(T, claim.subject).verdict = "supported" =>
              found # {} /\ \A d \in found : declared(d) = "pub"
    <2> DEFINE agreed ==
              CASE \A d \in found : declared(d) = "pub" -> Verdict("supported", "")
                [] \A d \in found : declared(d) = "not_pub"
                     -> Verdict("contradicted", "declared otherwise")
                [] OTHER -> not_verifiable("unknown, or twins disagree")
    <2>0. is_public(T, claim.subject) =
              CASE found = {} -> absent(T, claim.subject)
                [] Cardinality(items) > 1 -> not_verifiable("ambiguous_subject")
                [] Cardinality(items) = 1 -> agreed
      BY DEF is_public
    <2> HIDE DEF found, items, agreed
    <2>1. CASE found = {}
      <3>1. is_public(T, claim.subject) = absent(T, claim.subject)
        BY ONLY <1>4, <2>0, <2>1
      <3> QED
        BY <2>1, <3>1, AbsentVerdict
    <2>2. CASE found # {} /\ Cardinality(items) > 1
      <3>1. is_public(T, claim.subject) = not_verifiable("ambiguous_subject")
        BY ONLY <1>4, <2>0, <2>2
      <3> QED
        BY <3>1 DEF not_verifiable, Verdict
    <2>3. CASE found # {} /\ Cardinality(items) = 1
      <3>0. is_public(T, claim.subject) = agreed
        BY ONLY <1>4, <2>0, <2>3
      <3>1. is_public(T, claim.subject) =
              CASE \A d \in found : declared(d) = "pub" -> Verdict("supported", "")
                [] \A d \in found : declared(d) = "not_pub"
                     -> Verdict("contradicted", "declared otherwise")
                [] OTHER -> not_verifiable("unknown, or twins disagree")
        BY ONLY <3>0 DEF agreed
      <3>2. ~((\A d \in found : declared(d) = "pub") /\ (\A d \in found : declared(d) = "not_pub"))
        BY <2>3
      <3>3. CASE \A d \in found : declared(d) = "pub"
        <4>1. is_public(T, claim.subject) = Verdict("supported", "")
          BY ONLY <3>1, <3>2, <3>3
        <4>2. is_public(T, claim.subject).verdict = "supported"
          BY ONLY <4>1, VerdictOf
        <4> QED
          BY ONLY <2>3, <3>3, <4>2
      <3>4. CASE \A d \in found : declared(d) = "not_pub"
        <4>1. is_public(T, claim.subject) = Verdict("contradicted", "declared otherwise")
          BY ONLY <3>1, <3>2, <3>4
        <4>2. is_public(T, claim.subject).verdict = "contradicted"
          BY ONLY <4>1, VerdictOf
        <4> QED
          BY ONLY <2>3, <3>4, <4>2
      <3>5. CASE /\ ~(\A d \in found : declared(d) = "pub")
                 /\ ~(\A d \in found : declared(d) = "not_pub")
        <4>1. is_public(T, claim.subject) = not_verifiable("unknown, or twins disagree")
          BY ONLY <3>1, <3>5
        <4> QED
          BY ONLY <4>1, VerdictOf
      <3> QED
        BY <3>3, <3>4, <3>5
    <2> QED
      BY <1>4, <2>1, <2>2, <2>3
  <1>6. ASSUME NEW d \in named
        PROVE  /\ declared(d) = "pub" => d.vis = "pub"
               /\ declared(d) = "not_pub" => d.vis # "pub" /\ d.trait # "decl"
    BY DEF declared, WrittenTree, NamedBy
  <1> HIDE DEF found, named, items
  <1> QED
    BY <1>1, <1>2, <1>3, <1>5, <1>6

\* The variants of a build are between those without a gate and all of them.
LEMMA VariantBounds ==
    ASSUME NEW d, d.variants \in Seq(BOOLEAN), NEW b
    PROVE  /\ rust_gated_variants(d).declared = Len(d.variants)
           /\ Len(d.variants) \in Nat /\ rust_gated_variants(d).gated \in Nat
           /\ rust_gated_variants(d).gated <= Len(d.variants)
           /\ Variants(d, b) \in Nat /\ Variants(d, b) <= Len(d.variants)
           /\ Variants(d, b) >= Len(d.variants) - rust_gated_variants(d).gated
           /\ (\A i \in DOMAIN d.variants : d.variants[i] = FALSE) =>
                 rust_gated_variants(d).gated = 0
  <1> DEFINE D == DOMAIN d.variants
             G == {i \in D : d.variants[i]}
             V == {i \in D : d.variants[i] => "unix" \in b}
  <1>1. /\ rust_gated_variants(d).declared = Len(d.variants)
        /\ rust_gated_variants(d).gated = Cardinality(G)
        /\ Variants(d, b) = Cardinality(V)
    BY DEF rust_gated_variants, Variants
  <1>2. /\ IsFiniteSet(D) /\ Cardinality(D) = Len(d.variants) /\ Len(d.variants) \in Nat
    <2>1. D = 1 .. Len(d.variants) /\ Len(d.variants) \in Nat
      OBVIOUS
    <2> HIDE DEF D
    <2> QED
      BY <2>1, FS_Interval
  <1>3. G \in SUBSET D /\ V \in SUBSET D /\ D \ G \in SUBSET V /\ D \cap G = G
    OBVIOUS
  <1>4. (\A i \in D : d.variants[i] = FALSE) => G = {}
    OBVIOUS
  <1> HIDE DEF D, G, V
  <1>5. /\ IsFiniteSet(G) /\ Cardinality(G) <= Cardinality(D)
        /\ IsFiniteSet(V) /\ Cardinality(V) <= Cardinality(D)
    BY <1>2, <1>3, FS_Subset
  <1>6. Cardinality(D \ G) = Cardinality(D) - Cardinality(G)
    <2>1. IsFiniteSet(D)
      BY <1>2
    <2>2. Cardinality(D \ G) = Cardinality(D) - Cardinality(D \cap G)
      BY ONLY <2>1, FS_Difference
    <2> QED
      BY ONLY <1>3, <2>2
  <1>7. Cardinality(D \ G) <= Cardinality(V)
    BY <1>3, <1>5, FS_Subset
  <1>8. Cardinality(G) \in Nat /\ Cardinality(V) \in Nat
    BY <1>5, FS_CardinalityType
  <1>9. G = {} => Cardinality(G) = 0
    BY FS_EmptySet
  <1> QED
    BY <1>1, <1>2, <1>4, <1>5, <1>6, <1>7, <1>8, <1>9 DEF D

\* The verdict on the variants of a Rust enum, by how many are declared and gated.
LEMMA VariantVerdict ==
    ASSUME NEW claim, claim.expected \in Nat, claim.atLeast \in BOOLEAN,
           NEW shape, shape.declared \in Nat, shape.gated \in Nat, shape.gated <= shape.declared,
           NEW n \in Nat, shape.declared - shape.gated <= n, n <= shape.declared
    PROVE  /\ variant_verdict(claim, shape).verdict = "contradicted" => ~Counts(claim, n)
           /\ variant_verdict(claim, shape).verdict = "supported" => Counts(claim, n)
  <1> DEFINE ungated == shape.declared - shape.gated
             off == (claim.atLeast = FALSE /\ claim.expected < ungated)
                       \/ claim.expected > shape.declared
             certain == IF claim.atLeast = TRUE THEN claim.expected <= ungated ELSE shape.gated = 0
  <1>1. variant_verdict(claim, shape) =
            IF off THEN Verdict("contradicted", "variant_count_differs")
            ELSE IF certain THEN Verdict("supported", "") ELSE not_verifiable("build_dependent")
    BY DEF variant_verdict
  <1>2. /\ off => ~Counts(claim, n)
        /\ ~off /\ certain => Counts(claim, n)
    <2>1. CASE claim.atLeast = TRUE
      BY <2>1 DEF Counts
    <2>2. CASE claim.atLeast = FALSE
      BY <2>2 DEF Counts
    <2> QED
      BY <2>1, <2>2
  <1> HIDE DEF off, certain
  <1>3. CASE off
    <2>1. variant_verdict(claim, shape).verdict = "contradicted"
      BY ONLY <1>1, <1>3, VerdictOf
    <2> QED
      BY ONLY <1>2, <1>3, <2>1
  <1>4. CASE ~off /\ certain
    <2>1. variant_verdict(claim, shape).verdict = "supported"
      BY ONLY <1>1, <1>4, VerdictOf
    <2> QED
      BY ONLY <1>2, <1>4, <2>1
  <1>5. CASE ~off /\ ~certain
    <2>1. variant_verdict(claim, shape).verdict = "not_verifiable"
      BY ONLY <1>1, <1>5, VerdictOf
    <2> QED
      BY ONLY <2>1
  <1> QED
    BY <1>3, <1>4, <1>5

\* A verdict on the number of variants is about the one enum of the name.
LEMMA VariantsHold ==
    ASSUME NEW T, WrittenTree(T), NEW claim, SubjectIsWritten(T, claim), claim.anchored,
           claim.kind = "enum_variant_count", claim.expected \in Nat, claim.atLeast \in BOOLEAN
    PROVE  /\ check_one(T, claim).verdict = "contradicted" => \A b : ~Holds(T, claim, b)
           /\ check_one(T, claim).verdict = "supported" => \A b : Holds(T, claim, b)
  <1> DEFINE found == lookup(T, claim.subject, {"Enum"})
             d == CHOOSE x \in found : TRUE
             one == CASE d.lang # "rust" -> unread_language_verdict(claim, Len(d.variants))
                      [] d.lang = "rust" /\ ~T.readable[d.file]
                           -> not_verifiable("source_unreadable")
                      [] d.lang = "rust" /\ T.readable[d.file]
                           -> variant_verdict(claim, rust_gated_variants(d))
  <1>1. check_one(T, claim) =
            CASE found = {} -> absent(T, claim.subject)
              [] Cardinality(found) > 1 -> not_verifiable("ambiguous_subject")
              [] Cardinality(found) = 1 -> one
    <2>1. check_one(T, claim) = variant_count(T, claim)
      BY DEF check_one
    <2> QED
      BY <2>1 DEF variant_count
  <1>2. found = {e \in NamedBy(T, claim) : e.label \in {"Enum"}}
    BY LookupFacts
  <1>3. \A b : Holds(T, claim, b) <=>
                 \E e \in NamedBy(T, claim) : e.label = "Enum" /\ Counts(claim, Variants(e, b))
    BY DEF Holds, NamedBy
  <1>4. \A b : Holds(T, claim, b) <=> \E e \in found : Counts(claim, Variants(e, b))
    BY <1>2, <1>3
  <1>5. /\ IsFiniteSet(found) /\ Cardinality(found) \in Nat
        /\ found = {} <=> Cardinality(found) = 0
    <2>1. found \in SUBSET T.decls /\ IsFiniteSet(T.decls)
      BY <1>2 DEF NamedBy, WrittenTree, CountableTree
    <2> HIDE DEF found
    <2> QED
      BY <2>1, FS_Subset, FS_CardinalityType, FS_EmptySet
  <1>6. \A e \in found :
            /\ e.variants \in Seq(BOOLEAN)
            /\ e.lang # "rust" => \A i \in DOMAIN e.variants : e.variants[i] = FALSE
    BY <1>2 DEF NamedBy, WrittenTree
  <1> HIDE DEF found, one
  <1>7. CASE found = {}
    <2>1. check_one(T, claim) = absent(T, claim.subject)
      BY ONLY <1>1, <1>5, <1>7
    <2> QED
      BY <2>1, AbsentVerdict
  <1>8. CASE Cardinality(found) > 1
    <2>1. check_one(T, claim) = not_verifiable("ambiguous_subject")
      BY ONLY <1>1, <1>5, <1>8
    <2> QED
      BY <2>1, VerdictOf
  <1>9. CASE Cardinality(found) = 1
    <2>1. check_one(T, claim) = one
      BY ONLY <1>1, <1>5, <1>9
    <2>2. found = {d}
      BY <1>5, <1>9, FS_Singleton
    <2> HIDE DEF d
    <2>3. \A b : Holds(T, claim, b) <=> Counts(claim, Variants(d, b))
      BY <1>4, <2>2
    <2>4. /\ d.variants \in Seq(BOOLEAN)
          /\ d.lang # "rust" => \A i \in DOMAIN d.variants : d.variants[i] = FALSE
      BY <1>6, <2>2
    <2>5. CASE d.lang # "rust"
      <3>1. check_one(T, claim) = unread_language_verdict(claim, Len(d.variants))
        BY <2>1, <2>5 DEF one
      <3>2. ASSUME NEW b
            PROVE  Variants(d, b) = Len(d.variants)
        <4> DEFINE gated == rust_gated_variants(d).gated
        <4>1. /\ Len(d.variants) \in Nat
              /\ Variants(d, b) \in Nat /\ Variants(d, b) <= Len(d.variants)
              /\ Variants(d, b) >= Len(d.variants) - gated
              /\ gated = 0
          BY <2>4, <2>5, VariantBounds
        <4> HIDE DEF gated
        <4> QED
          BY ONLY <4>1
      <3>3. CASE Counts(claim, Len(d.variants))
        <4>1. unread_language_verdict(claim, Len(d.variants)).verdict # "contradicted"
          BY VerdictOf DEF unread_language_verdict
        <4> QED
          BY <2>3, <3>1, <3>2, <3>3, <4>1
      <3>4. CASE ~Counts(claim, Len(d.variants))
        <4>1. Len(d.variants) \in Nat
          BY <2>4
        <4>2. ~((claim.atLeast /\ claim.expected <= Len(d.variants))
                  \/ (~claim.atLeast /\ claim.expected = Len(d.variants)))
          BY <3>4, <4>1 DEF Counts
        <4>3. unread_language_verdict(claim, Len(d.variants))
                = not_verifiable("variant_completeness_not_established")
          BY <4>2 DEF unread_language_verdict
        <4> QED
          BY <3>1, <4>3, VerdictOf
      <3> QED
        BY <3>3, <3>4
    <2>6. CASE d.lang = "rust" /\ ~T.readable[d.file]
      <3>1. check_one(T, claim) = not_verifiable("source_unreadable")
        BY <2>1, <2>6 DEF one
      <3> QED
        BY <3>1, VerdictOf
    <2>7. CASE d.lang = "rust" /\ T.readable[d.file]
      <3> DEFINE shape == rust_gated_variants(d)
      <3>1. check_one(T, claim) = variant_verdict(claim, shape)
        BY <2>1, <2>7 DEF one
      <3>2. ASSUME NEW b
            PROVE  /\ variant_verdict(claim, shape).verdict = "contradicted" =>
                         ~Counts(claim, Variants(d, b))
                   /\ variant_verdict(claim, shape).verdict = "supported" =>
                         Counts(claim, Variants(d, b))
        <4>1. /\ shape.declared \in Nat /\ shape.gated \in Nat /\ shape.gated <= shape.declared
              /\ Variants(d, b) \in Nat
              /\ shape.declared - shape.gated <= Variants(d, b)
              /\ Variants(d, b) <= shape.declared
          BY <2>4, VariantBounds
        <4> HIDE DEF shape
        <4> QED
          BY <4>1, VariantVerdict
      <3> HIDE DEF shape
      <3> QED
        BY <2>3, <3>1, <3>2
    <2> QED
      BY <2>5, <2>6, <2>7
  <1> QED
    BY <1>5, <1>7, <1>8, <1>9

\* Every verdict of check_doc_claims can be relied on, for every tree and every claim: what
\* is "contradicted" no build of the repository bears out, and what is "supported" every
\* build does, macro output aside for an exact count.  Assumed: WrittenTree, and that no
\* macro declares the subject of a claim about a name.
THEOREM DocVerdictsHold ==
    ASSUME NEW T, WrittenTree(T), NEW claim, claim.anchored \in BOOLEAN,
           claim.expected \in Nat, claim.atLeast \in BOOLEAN,
           claim.kind \notin {"test_count", "proof_count"} => SubjectIsWritten(T, claim)
    PROVE  DocVerdictHolds(T, claim)
  <1> DEFINE verdict == check_one(T, claim).verdict
             holds(b) == Holds(T, claim, b)
  <1>1. CASE claim.kind \in {"test_count", "proof_count"}
    BY <1>1, CountVerdictsHold DEF WrittenTree, CountClaim
  <1>2. SUFFICES ASSUME claim.kind \notin {"test_count", "proof_count"}
                 PROVE  /\ verdict = "contradicted" => \A b : ~holds(b)
                        /\ verdict = "supported" => \A b : holds(b)
    BY <1>1 DEF DocVerdictHolds
  <1>3. CASE ~claim.anchored
    <2>1. check_one(T, claim) = Verdict("rejected_anchor", "text_not_at_line")
      BY <1>3 DEF check_one
    <2> QED
      BY <2>1, VerdictOf
  <1>4. CASE claim.anchored /\ claim.kind \in {"symbol_exists", "module_exists", "file_exists"}
    BY <1>2, <1>4, ExistenceHolds
  <1>5. CASE claim.anchored /\ claim.kind = "is_public"
    BY <1>2, <1>5, VisibilityHolds
  <1>6. CASE claim.anchored /\ claim.kind = "enum_variant_count"
    BY <1>2, <1>6, VariantsHold
  <1>7. CASE claim.anchored /\ claim.kind \notin {"symbol_exists", "module_exists",
                "file_exists", "is_public", "enum_variant_count"}
    <2>1. check_one(T, claim) = not_verifiable("kind_not_supported_yet")
      BY <1>2, <1>7 DEF check_one
    <2> QED
      BY <2>1, VerdictOf
  <1> QED
    BY <1>3, <1>4, <1>5, <1>6, <1>7

-----------------------------------------------------------------------------
(* The verdict on a claimed symbol.                                          *)

\* What a name may be answered with: the rows of one name and one gate, which is the name
\* or its stripped form; nothing when no row has either.
ByName(answer, G, name) ==
    /\ answer.ok \in BOOLEAN
    /\ answer.ok = TRUE <=> \E r \in G.rows : r.qn \in {name, strip_leading_path_component(name)}
    /\ answer.ok = TRUE => \A r, s \in answer.rows : r.qn = s.qn /\ r.gate = s.gate

\* A name resolves exactly when a row has it or its stripped form, and what it resolves
\* to are the rows of one name and one gate.
LEMMA ResolvesByName ==
    ASSUME NEW G, IsPrdGraph(G), Decided(G), NEW name
    PROVE  ByName(resolve_qualified_name(G, name), G, name)
  <1> DEFINE short == strip_leading_path_component(name)
             answer == resolve_qualified_name(G, name)
             tried == {n \in {name, short} : n # NoName}
             exact == exact_match_qn(G, name)
             stripped == exact_match_qn(G, short)
  <1>1. ASSUME NEW n, twins(G, n) # {}
        PROVE  /\ resolve_twins(G, n).ok = TRUE
               /\ \A r, s \in resolve_twins(G, n).rows : r = s
               /\ \E r \in G.rows : r.qn = n
    <2> DEFINE live == {r \in twins(G, n) : r.active}
    <2>1. PICK r \in G.rows : r.qn = n /\ r.gate # ""
      BY <1>1 DEF twins
    <2>2. Cardinality(live) = 1
      BY <2>1 DEF Decided
    <2>3. live \in SUBSET G.rows
      BY DEF twins
    <2>4. IsFiniteSet(live)
      BY <2>3, FS_Subset DEF IsPrdGraph
    <2>5. PICK x : live = {x}
      BY <2>2, <2>4, FS_Singleton
    <2>6. resolve_twins(G, n) = [ok |-> TRUE, rows |-> live]
      BY <2>2 DEF resolve_twins
    <2> HIDE DEF live
    <2>7. resolve_twins(G, n).ok = TRUE /\ resolve_twins(G, n).rows = {x}
      BY <2>5, <2>6
    <2> QED BY <2>1, <2>7
  <1>2. \A n, r : r \in exact_match_qn(G, n) <=> r \in G.rows /\ r.qn = n /\ r.gate = ""
    BY DEF exact_match_qn
  <1>3. \A n, r : r \in twins(G, n) <=> r \in G.rows /\ r.qn = n /\ r.gate # ""
    BY DEF twins
  <1>4. CASE exact # {}
    <2>1. answer = [ok |-> TRUE, rows |-> exact]
      <3> HIDE DEF exact, stripped
      <3>1. ~ (\A n \in tried : exact_match_qn(G, n) = {})
        <4>1. PICK r : r \in exact
          BY <1>4
        <4>2. r.qn = name /\ name # NoName
          BY <1>2, <4>1 DEF exact, IsPrdGraph, IsName
        <4> QED BY <4>1, <4>2 DEF exact
      <3> QED BY <1>4, <3>1 DEF resolve_qualified_name, exact
    <2>2. \E r \in G.rows : r.qn \in {name, short}
      BY <1>2, <1>4
    <2> HIDE DEF short
    <2>3. \A r, s \in exact : r.qn = s.qn /\ r.gate = s.gate
      BY <1>2
    <2> HIDE DEF answer, exact
    <2> QED BY <2>1, <2>2, <2>3 DEF ByName, short, answer
  <1>5. CASE exact = {} /\ stripped # {}
    <2>1. answer = [ok |-> TRUE, rows |-> stripped]
      <3> HIDE DEF exact, stripped
      <3>1. ~ (\A n \in tried : exact_match_qn(G, n) = {})
        <4>1. PICK r : r \in stripped
          BY <1>5
        <4>2. r.qn = short /\ short # NoName
          BY <1>2, <4>1 DEF stripped, IsPrdGraph, IsName
        <4> QED BY <4>1, <4>2 DEF stripped
      <3> QED BY <1>5, <3>1 DEF resolve_qualified_name, exact, stripped
    <2>2. \E r \in G.rows : r.qn \in {name, short}
      BY <1>2, <1>5
    <2> HIDE DEF short
    <2>3. \A r, s \in stripped : r.qn = s.qn /\ r.gate = s.gate
      BY <1>2
    <2> HIDE DEF answer, stripped
    <2> QED BY <2>1, <2>2, <2>3 DEF ByName, short, answer
  <1>6. CASE exact = {} /\ stripped = {}
    <2>1. answer = IF twins(G, name) # {} THEN resolve_twins(G, name)
                   ELSE IF twins(G, short) # {} THEN resolve_twins(G, short)
                   ELSE [ok |-> FALSE, rows |-> {}]
      BY <1>6 DEF resolve_qualified_name
    <2>2. CASE twins(G, name) # {}
      <3>1. answer = resolve_twins(G, name)
        BY <2>1, <2>2
      <3>2. /\ answer.ok = TRUE /\ \A r, s \in answer.rows : r = s
            /\ \E r \in G.rows : r.qn = name
        BY <1>1, <2>2, <3>1
      <3> QED BY <3>2 DEF ByName
    <2>3. CASE twins(G, name) = {} /\ twins(G, short) # {}
      <3>1. answer = resolve_twins(G, short)
        BY <2>1, <2>3
      <3>2. /\ answer.ok = TRUE /\ \A r, s \in answer.rows : r = s
            /\ \E r \in G.rows : r.qn = short
        BY <1>1, <2>3, <3>1
      <3> QED BY <3>2 DEF ByName
    <2>4. CASE twins(G, name) = {} /\ twins(G, short) = {}
      <3>1. answer = [ok |-> FALSE, rows |-> {}]
        BY <2>1, <2>4
      <3>2. ~ \E r \in G.rows : r.qn \in {name, short}
        BY <1>2, <1>3, <1>6, <2>4
      <3> HIDE DEF short, answer
      <3> QED BY <3>1, <3>2 DEF ByName, short, answer
    <2> QED BY <2>2, <2>3, <2>4
  <1> QED BY <1>4, <1>5, <1>6

\* A claim spans one community at most.
LEMMA OneClaimOneCommunity ==
    ASSUME NEW G, IsPrdGraph(G), Decided(G), NEW claim
    PROVE  emit_community_consistency(G, {claim}) = {}
  <1> DEFINE answer == resolve_qualified_name(G, claim.name)
             rows == resolved_rows(G, {claim})
             spanned == {community_of(rows_of(G, r)) : r \in rows} \ {0}
  <1>1. \A r \in rows : answer.ok = TRUE /\ r \in answer.rows
    BY ResolvesByName DEF resolved_rows, ByName
  <1>2. ASSUME NEW r \in rows, NEW s \in rows PROVE rows_of(G, r) = rows_of(G, s)
    <2>1. ByName(answer, G, claim.name)
      BY ResolvesByName
    <2>2. r.qn = s.qn /\ r.gate = s.gate
      <3> HIDE DEF answer, rows
      <3> QED BY <1>1, <2>1 DEF ByName
    <2> QED BY <2>2 DEF rows_of
  <1> HIDE DEF rows
  <1>3. \A c, d \in spanned : c = d
    BY <1>2
  <1>4. Cardinality(spanned) < 2
    <2> HIDE DEF spanned
    <2>1. CASE spanned = {}
      BY <2>1, FS_EmptySet
    <2>2. CASE spanned # {}
      <3>1. PICK c : spanned = {c}
        BY <1>3, <2>2
      <3>2. Cardinality({c}) = 1
        BY FS_Singleton
      <3> QED BY <3>1, <3>2
    <2> QED BY <2>1, <2>2
  <1> QED BY <1>4 DEF emit_community_consistency, rows

\* The two spellings of a name, those of them whose file the graph holds, and a name
\* without a file.
Spellings(name) == {n \in {name, strip_leading_path_component(name)} : n # NoName}
HeldSpellings(G, name) == {n \in Spellings(name) : Len(n) >= 2 /\ <<Head(n)>> \in G.files}
Bare(name) == Len(name) < 2 \/ Last(Head(name)) \notin Dotted

\* What the graph cannot refute: the claim names a file, and no parser reads the file or
\* the graph holds it under neither of its two spellings.
LEMMA Unverifiable ==
    ASSUME NEW G, NEW name, IsName(name)
    PROVE  unverifiable_reason(G, name) <=>
              /\ ~Bare(name)
              /\ HeldSpellings(G, name) = {} \/ Last(Head(name)) \notin Parsed
  <1> DEFINE short == strip_leading_path_component(name)
             named == Spellings(name)
             held == HeldSpellings(G, name)
             bare == Bare(name)
             file == claim_file_path(name)
             cut == claim_file_path(short)
             h == Head(name)
  <1>1. /\ name \in Seq(Seq(STRING)) /\ Len(name) \in Nat /\ Len(name) >= 1 /\ h = name[1]
        /\ h \in Seq(STRING) /\ h # <<>> /\ Len(h) >= 1
    BY DEF IsName, NoName
  <1>2. CASE bare
    BY <1>2 DEF unverifiable_reason, claim_file_path, Bare
  <1>3. CASE ~bare
    <2>1. file = <<h>> /\ file # NoName /\ Last(file) = h
      BY <1>3 DEF claim_file_path, NoName, Last, Bare
    <2>2. short = NoName => cut = NoName
      BY DEF claim_file_path, NoName
    <2>3. short # NoName => /\ Len(short) = Len(name) /\ Head(short) = Tail(h)
                            /\ Last(Tail(h)) = Last(h)
      <3> SUFFICES ASSUME short # NoName
                   PROVE  /\ Len(short) = Len(name) /\ Head(short) = Tail(h)
                          /\ Last(Tail(h)) = Last(h)
        OBVIOUS
      <3>1. Len(h) >= 2 /\ short = <<Tail(h)>> \o Tail(name)
        BY <1>1 DEF strip_leading_path_component
      <3>2. Tail(name) \in Seq(Seq(STRING)) /\ Len(Tail(name)) = Len(name) - 1
        BY <1>1
      <3>3. Tail(h) \in Seq(STRING) /\ Len(Tail(h)) = Len(h) - 1
            /\ Tail(h)[Len(h) - 1] = h[Len(h)]
        BY <1>1, <3>1
      <3>4. Len(short) = Len(name) /\ short[1] = Tail(h) /\ Head(short) = short[1]
        BY <1>1, <3>1, <3>2, <3>3
      <3> QED BY <3>3, <3>4 DEF Last
    <2> HIDE DEF short, file, cut, h
    <2>4. short # NoName => cut = <<Head(short)>> /\ cut # NoName
      BY <1>3, <2>3 DEF claim_file_path, cut, h, NoName, Bare
    <2>5. held = {} <=> file \notin G.files /\ (cut = NoName \/ cut \notin G.files)
      <3>1. name # NoName /\ Len(name) >= 2
        BY <1>1, <1>3 DEF IsName, Bare
      <3>2. name \in held <=> file \in G.files
        BY <2>1, <3>1 DEF h, HeldSpellings, Spellings
      <3>3. short \in held <=> cut # NoName /\ cut \in G.files
        BY <1>1, <2>2, <2>3, <2>4, <3>1 DEF HeldSpellings, Spellings, short
      <3>4. held \subseteq {name, short}
        BY DEF HeldSpellings, Spellings, short
      <3> HIDE DEF held
      <3> QED BY <3>2, <3>3, <3>4
    <2>6. Last(h) \in Dotted
      BY <1>3 DEF h, Bare
    <2>7. Last(h) \in Dotted \ Parsed <=> Last(h) \notin Parsed
      BY <2>6
    <2>8. unverifiable_reason(G, name) <=>
             /\ file # NoName
             /\ \/ Last(Last(file)) \in Dotted \ Parsed
                \/ file \notin G.files /\ (cut = NoName \/ cut \notin G.files)
      BY DEF unverifiable_reason, file, cut, short
    <2> HIDE DEF held, bare
    <2>9. unverifiable_reason(G, name) <=> held = {} \/ Last(h) \notin Parsed
      BY <2>1, <2>5, <2>7, <2>8
    <2> QED BY <1>3, <2>9 DEF h, held, bare
  <1> QED BY <1>2, <1>3

\* A claim fails the PRD as hallucinated exactly when the graph can refute it, for every
\* graph without undecided twins and every claim.
LEMMA HallucinationsAreRefuted ==
    ASSUME NEW G, IsPrdGraph(G), Decided(G), NEW claim, IsName(claim.name)
    PROVE  HallucinationIsRefuted(G, claim)
  <1> DEFINE name == claim.name
             short == strip_leading_path_component(name)
             named == Spellings(name)
             held == HeldSpellings(G, name)
             bare == Bare(name)
             prd == [readable |-> TRUE, claims |-> {claim}, scopes |-> {}]
             loaded == load_claims(prd, {})
             found == emit_symbol_hallucination(G, {claim})
                        \cup emit_community_consistency(G, {claim})
                        \cup emit_process_impact(G, {claim}, {})
                        \cup emit_unresolved_info(G, loaded)
             ok == resolve_qualified_name(G, name).ok = TRUE
             verdict == classify_one(G, claim)
             mends == claim.kind \in {"modify", "remove", "rename"}
             open == unverifiable_reason(G, name)
  <1>1. loaded = [claims |-> {claim}, scopes |-> {}, structured |-> TRUE]
    BY DEF load_claims, IsName
  <1>2. validate_prd(G, prd, {}).status = compute_status(found)
    <2> HIDE DEF prd, loaded
    <2>1. loaded.claims = {claim} /\ loaded.scopes = {}
      BY <1>1
    <2> QED BY <2>1 DEF validate_prd, loaded
  <1>3. compute_status(found) = "fail" <=> \E f \in found : f.severity = "critical"
    BY DEF compute_status
  <1>4. emit_process_impact(G, {claim}, {}) = {}
    BY DEF emit_process_impact
  <1>5. emit_unresolved_info(G, loaded) = {}
    BY <1>1 DEF emit_unresolved_info
  <1>6. (\E f \in emit_symbol_hallucination(G, {claim}) : f.severity = "critical")
          <=> classify_one(G, claim) = "hallucinated"
    <2> HIDE DEF verdict
    <2>1. emit_symbol_hallucination(G, {claim})
            = IF verdict \in {"hallucinated", "unverifiable"}
              THEN {[axis |-> "symbol", name |-> name,
                     severity |-> IF verdict = "hallucinated" THEN "critical" ELSE "info"]}
              ELSE {}
      BY DEF emit_symbol_hallucination, verdict
    <2>2. CASE verdict = "hallucinated"
      <3> DEFINE f == [axis |-> "symbol", name |-> name, severity |-> "critical"]
      <3>1. emit_symbol_hallucination(G, {claim}) = {f}
        BY <2>1, <2>2
      <3>2. f.severity = "critical"
        OBVIOUS
      <3> HIDE DEF f
      <3> QED BY <2>2, <3>1, <3>2 DEF verdict
    <2>3. CASE verdict # "hallucinated"
      BY <2>1, <2>3 DEF verdict
    <2> QED BY <2>2, <2>3
  <1>7. classify_one(G, claim) = "hallucinated" <=> ~ok /\ mends /\ ~open
    BY ResolvesByName DEF classify_one, ByName
  <1>8. (validate_prd(G, prd, {}).status = "fail") <=> ~ok /\ mends /\ ~open
    <2> HIDE DEF prd, loaded, ok, mends, open
    <2>1. found = emit_symbol_hallucination(G, {claim})
      BY <1>4, <1>5, OneClaimOneCommunity
    <2> HIDE DEF found
    <2> QED BY <1>2, <1>3, <1>6, <1>7, <2>1
  <1>9. ok <=> \E r \in G.rows : r.qn \in {name, short}
    BY ResolvesByName DEF ByName
  <1>10. \A r \in G.rows : r.qn \in {name, short} <=> r.qn \in named
    BY DEF IsPrdGraph, IsName, Spellings
  <1>11. open <=> ~bare /\ (held = {} \/ Last(Head(name)) \notin Parsed)
    BY Unverifiable
  <1> HIDE DEF ok, mends, open, prd, bare, held, named, short
  <1>12. (validate_prd(G, prd, {}).status = "fail")
           <=> /\ mends
               /\ \A r \in G.rows : r.qn \notin named
               /\ held # {} \/ bare
               /\ bare \/ Last(Head(name)) \in Parsed
    BY <1>8, <1>9, <1>10, <1>11
  <1> QED BY <1>12 DEF HallucinationIsRefuted, mends, prd, bare, held, named, short, Bare,
                       HeldSpellings, Spellings
-----------------------------------------------------------------------------
(* The imports a gate counts.                                                *)

\* Of two prefixes of a name the shorter is a prefix of the longer, and two of one length
\* are the same.
LEMMA PrefixesNest ==
    ASSUME NEW f, NEW g, NEW name, IsName(f), IsName(g), IsName(name),
           IsStrictPrefix(f, name), IsStrictPrefix(g, name), Len(f) <= Len(g), f # g
    PROVE  IsStrictPrefix(f, g) /\ Len(f) < Len(g)
  <1>1. /\ f \in Seq(Seq(STRING)) /\ g \in Seq(Seq(STRING)) /\ name \in Seq(Seq(STRING))
    BY DEF IsName
  <1>2. /\ Len(f) <= Len(name) /\ SubSeq(f, 1, Len(f)) = SubSeq(name, 1, Len(f))
        /\ Len(g) <= Len(name) /\ SubSeq(g, 1, Len(g)) = SubSeq(name, 1, Len(g))
    BY DEF IsStrictPrefix, IsPrefix
  <1>3. \A i \in 1 .. Len(f) : f[i] = name[i]
    <2> TAKE i \in 1 .. Len(f)
    <2>1. SubSeq(f, 1, Len(f))[i] = f[i] /\ SubSeq(name, 1, Len(f))[i] = name[i]
      BY <1>1, <1>2
    <2> QED BY <1>2, <2>1
  <1>4. \A i \in 1 .. Len(g) : g[i] = name[i]
    <2> TAKE i \in 1 .. Len(g)
    <2>1. SubSeq(g, 1, Len(g))[i] = g[i] /\ SubSeq(name, 1, Len(g))[i] = name[i]
      BY <1>1, <1>2
    <2> QED BY <1>2, <2>1
  <1>5. \A i \in 1 .. Len(f) : f[i] = g[i]
    BY <1>1, <1>3, <1>4
  <1>6. SubSeq(f, 1, Len(f)) = SubSeq(g, 1, Len(f))
    BY <1>1, <1>5
  <1>7. Len(f) # Len(g)
    <2>1. f = [i \in 1 .. Len(f) |-> f[i]] /\ g = [i \in 1 .. Len(g) |-> g[i]]
      BY <1>1
    <2> QED BY <1>5, <2>1, Zenon
  <1> QED BY <1>1, <1>6, <1>7 DEF IsStrictPrefix, IsPrefix

\* A prefix of a prefix is a prefix.
LEMMA PrefixesChain ==
    ASSUME NEW f, NEW g, NEW name, IsName(f), IsName(g), IsName(name),
           IsStrictPrefix(f, g), IsStrictPrefix(g, name)
    PROVE  Len(f) < Len(g)
  <1>1. /\ f \in Seq(Seq(STRING)) /\ g \in Seq(Seq(STRING))
        /\ Len(f) <= Len(g) /\ SubSeq(f, 1, Len(f)) = SubSeq(g, 1, Len(f)) /\ f # g
    BY DEF IsName, IsStrictPrefix, IsPrefix
  <1>2. SubSeq(f, 1, Len(f)) = f /\ SubSeq(g, 1, Len(g)) = g
    BY <1>1
  <1>3. Len(f) # Len(g)
    <2> SUFFICES ASSUME Len(f) = Len(g) PROVE f = g
      BY <1>1
    <2>1. SubSeq(g, 1, Len(f)) = g
      BY <1>2
    <2> QED BY <1>1, <1>2, <2>1
  <1> QED BY <1>1, <1>3

\* The file a name was read from is the longest path that is a proper prefix of it.
LEMMA SourceFile ==
    ASSUME NEW G, IsPrdGraph(G), NEW name, IsName(name)
    PROVE  LET owners == {f \in G.files : IsStrictPrefix(f, name)}
               file == import_source_file(G, name)
           IN  /\ owners = {} => file = NoName
               /\ owners # {} => file \in owners /\ \A g \in owners : Len(file) >= Len(g)
  <1> DEFINE owners == {f \in G.files : IsStrictPrefix(f, name)}
             file == import_source_file(G, name)
             Gaps == {Len(name) - Len(f) : f \in owners}
  <1>1. \A f \in owners : /\ f \in G.files /\ f \in Seq(Seq(STRING)) /\ Len(f) \in Nat
                          /\ Len(name) \in Nat /\ Len(f) <= Len(name)
    BY DEF IsPrdGraph, IsName, IsStrictPrefix, IsPrefix
  <1> HIDE DEF owners
  <1>2. ASSUME owners # {} PROVE \E f \in owners : \A g \in owners : Len(f) >= Len(g)
    <2>1. Gaps \subseteq Nat /\ Gaps # {}
      BY <1>1, <1>2
    <2>2. PICK x \in Gaps : \A y \in Gaps : x <= y
      <3> HIDE DEF Gaps
      <3> QED BY <2>1, LeastNumber
    <2>3. PICK f \in owners : x = Len(name) - Len(f)
      BY <2>2
    <2>4. ASSUME NEW g \in owners PROVE Len(f) >= Len(g)
      <3>1. Len(name) - Len(f) <= Len(name) - Len(g)
        BY <2>2, <2>3, <2>4
      <3> QED BY <1>1, <2>3, <3>1
    <2> QED BY <2>3, <2>4
  <1>3. file = IF owners = {} THEN NoName
               ELSE CHOOSE f \in owners : \A g \in owners : Len(f) >= Len(g)
    BY DEF import_source_file, owners
  <1> HIDE DEF file
  <1>4. /\ owners = {} => file = NoName
        /\ owners # {} => file \in owners /\ \A g \in owners : Len(file) >= Len(g)
    BY <1>2, <1>3
  <1> QED BY <1>4 DEF owners, file

\* The imports below a file, less those below a longer path, are those read from it.
LEMMA OwnImports ==
    ASSUME NEW G, IsPrdGraph(G), NEW file \in G.files, NEW name, IsName(name)
    PROVE  import_source_file(G, name) = file <=>
              /\ IsStrictPrefix(file, name)
              /\ \A f \in {g \in G.files : IsStrictPrefix(file, g)} : ~IsStrictPrefix(f, name)
  <1> DEFINE owners == {f \in G.files : IsStrictPrefix(f, name)}
             source == import_source_file(G, name)
             nested == {g \in G.files : IsStrictPrefix(file, g)}
  <1>1. /\ owners = {} => source = NoName
        /\ owners # {} => source \in owners /\ \A g \in owners : Len(source) >= Len(g)
    BY SourceFile
  <1>2. \A f \in G.files : IsName(f) /\ f # NoName /\ Len(f) \in Nat
    BY DEF IsPrdGraph, IsName
  <1> HIDE DEF source
  <1>3. ASSUME source = file
        PROVE  IsStrictPrefix(file, name) /\ \A f \in nested : ~IsStrictPrefix(f, name)
    <2>1. file \in owners /\ \A g \in owners : Len(file) >= Len(g)
      BY <1>1, <1>2, <1>3
    <2>2. ASSUME NEW f \in nested, IsStrictPrefix(f, name) PROVE FALSE
      <3>1. f \in owners /\ Len(file) < Len(f)
        BY <1>2, <2>2, PrefixesChain
      <3> QED BY <1>2, <2>1, <2>2, <3>1
    <2> QED BY <2>1, <2>2
  <1>4. ASSUME IsStrictPrefix(file, name), \A f \in nested : ~IsStrictPrefix(f, name)
        PROVE  source = file
    <2>1. file \in owners /\ source \in owners /\ Len(file) <= Len(source)
      BY <1>1, <1>4
    <2>2. SUFFICES ASSUME source # file PROVE FALSE
      OBVIOUS
    <2>3. IsStrictPrefix(file, source)
      BY <1>2, <2>1, <2>2, PrefixesNest
    <2> QED BY <1>4, <2>1, <2>3
  <1> QED BY <1>3, <1>4 DEF source

\* The flag run_s4 raises, alone with its gate.
Unresolved(severity) == [gate |-> "unresolved_imports", severity |-> severity, skipped |-> FALSE]

LEMMA UnresolvedFacts ==
    /\ \A v : Unresolved(v).gate = "unresolved_imports"
    /\ Unresolved("critical") # Unresolved("warning")
  <1>1. \A v : Unresolved(v).gate = "unresolved_imports" /\ Unresolved(v).severity = v
    BY DEF Unresolved
  <1> QED BY <1>1

LEMMA OtherGates ==
    ASSUME NEW G, NEW r
    PROVE  \A x \in run_s1(G, r) \cup run_s2(G, r) \cup run_s3(G, r) \cup run_s5(G, r) :
              x.gate # "unresolved_imports"
  <1>1. \A x \in run_s1(G, r) : x.gate = "auth_critical_touch"
    BY DEF run_s1
  <1>2. \A x \in run_s2(G, r) : x.gate = "unsafe_symbol"
    BY DEF run_s2
  <1>3. \A x \in run_s3(G, r) : x.gate = "public_api_change"
    BY DEF run_s3
  <1>4. \A x \in run_s5(G, r) : x.gate = "test_coverage_gap"
    BY DEF run_s5
  <1> QED BY <1>1, <1>2, <1>3, <1>4

LEMMA ImportGate ==
    ASSUME NEW G, NEW r, NEW file, import_source_file(G, r.qn) = file, file # NoName,
           NEW count \in Nat, unresolved_import_count(G, file) = count
    PROVE  /\ count = 0 => run_s4(G, r) = {}
           /\ count >= 2 => run_s4(G, r) = {Unresolved("critical")}
           /\ count = 1 => run_s4(G, r) = {Unresolved("warning")}
  <1>1. run_s4(G, r) = IF count = 0 THEN {}
                       ELSE {[gate |-> "unresolved_imports", skipped |-> FALSE,
                              severity |-> IF count >= 2 THEN "critical" ELSE "warning"]}
    BY DEF run_s4
  <1>2. count >= 2 => run_s4(G, r) = {Unresolved("critical")}
    BY <1>1 DEF Unresolved
  <1>3. count = 1 => run_s4(G, r) = {Unresolved("warning")}
    BY <1>1 DEF Unresolved
  <1> QED BY <1>1, <1>2, <1>3

\* The imports a changed symbol is judged by are those of its own file, in every graph.
LEMMA GatesCountOwnImports ==
    ASSUME NEW G, IsPrdGraph(G), NEW row, row \in exact_match_qn(G, row.qn)
    PROVE  GateCountsOwnImports(G, row)
  <1> DEFINE file == import_source_file(G, row.qn)
             own == {i \in G.imports : /\ import_source_file(G, i.qn) = file
                                       /\ ~i.resolved}
             rows == exact_match_qn(G, row.qn)
             of(r) == run_s1(G, r) \cup run_s2(G, r) \cup run_s3(G, r)
                        \cup run_s4(G, r) \cup run_s5(G, r)
             flags == check_gates(G, {row.qn}).flags
  <1>1. SUFFICES ASSUME file # NoName
                 PROVE  /\ Unresolved("critical") \in flags <=> Cardinality(own) >= 2
                        /\ Unresolved("warning") \in flags <=> Cardinality(own) = 1
    BY DEF GateCountsOwnImports, Unresolved
  <1>2. row \in rows /\ row \in G.rows /\ \A r \in rows : r.qn = row.qn
    BY DEF exact_match_qn
  <1>3. resolve_qualified_name(G, row.qn) = [ok |-> TRUE, rows |-> rows]
    <2>1. row.qn # NoName
      BY <1>2 DEF IsPrdGraph, IsName
    <2> HIDE DEF rows
    <2>2. rows # {}
      BY <1>2
    <2> QED BY <2>1, <2>2 DEF resolve_qualified_name, rows
  <1>4. flags = UNION {of(r) : r \in rows}
    <2> DEFINE a == [ok |-> TRUE, rows |-> rows]
    <2>1. {resolve_qualified_name(G, n) : n \in {row.qn}} = {a}
      BY <1>3
    <2>2. a.ok = TRUE /\ a.rows = rows
      OBVIOUS
    <2> HIDE DEF a, rows
    <2>3. UNION {b.rows : b \in {x \in {a} : x.ok}} = rows
      BY <2>2
    <2> QED BY <2>1, <2>2, <2>3 DEF check_gates
  <1>5. file \in G.files /\ IsName(row.qn)
    <2>1. IsName(row.qn)
      BY <1>2 DEF IsPrdGraph
    <2> QED BY <1>1, <2>1, SourceFile
  <1>6. own = {i \in G.imports :
                 /\ IsStrictPrefix(file, i.qn)
                 /\ \A f \in {g \in G.files : IsStrictPrefix(file, g)} : ~IsStrictPrefix(f, i.qn)
                 /\ ~i.resolved}
    <2>1. \A i \in G.imports : IsName(i.qn)
      BY DEF IsPrdGraph
    <2>2. ASSUME NEW i \in G.imports
          PROVE  import_source_file(G, i.qn) = file <=>
                   /\ IsStrictPrefix(file, i.qn)
                   /\ \A f \in {g \in G.files : IsStrictPrefix(file, g)} :
                         ~IsStrictPrefix(f, i.qn)
      <3> HIDE DEF file
      <3> QED BY <1>5, <2>1, OwnImports
    <2> HIDE DEF file
    <2> QED BY <2>2
  <1>7. unresolved_import_count(G, file) = Cardinality(own)
    <2> HIDE DEF file, own
    <2> QED BY <1>6 DEF unresolved_import_count
  <1>8. Cardinality(own) \in Nat
    <2>1. own \in SUBSET G.imports
      OBVIOUS
    <2> HIDE DEF own
    <2> QED BY <2>1, FS_Subset, FS_CardinalityType DEF IsPrdGraph
  <1> DEFINE count == Cardinality(own)
  <1> HIDE DEF own, flags, rows, file
  <1>9. ASSUME NEW r \in rows
        PROVE  /\ count = 0 => run_s4(G, r) = {}
               /\ count >= 2 => run_s4(G, r) = {Unresolved("critical")}
               /\ count = 1 => run_s4(G, r) = {Unresolved("warning")}
    <2>1. import_source_file(G, r.qn) = file
      BY <1>2 DEF file
    <2> QED BY <1>1, <1>7, <1>8, <2>1, ImportGate
  <1>10. ASSUME NEW r, NEW v
         PROVE  Unresolved(v) \in of(r) <=> Unresolved(v) \in run_s4(G, r)
    BY OtherGates, UnresolvedFacts
  <1>11. ASSUME NEW v
         PROVE  Unresolved(v) \in flags <=> \E r \in rows : Unresolved(v) \in run_s4(G, r)
    <2> HIDE DEF of
    <2> QED BY <1>4, <1>10
  <1> HIDE DEF count
  <1>12. CASE count = 0
    BY <1>9, <1>11, <1>12 DEF count
  <1>13. CASE count >= 2
    <2>1. \A r \in rows : run_s4(G, r) = {Unresolved("critical")}
      BY <1>9, <1>13
    <2>2. Unresolved("critical") \in flags /\ Unresolved("warning") \notin flags
      BY <1>2, <1>11, <2>1, UnresolvedFacts
    <2> QED BY <1>8, <1>13, <2>2 DEF count
  <1>14. CASE count = 1
    <2>1. \A r \in rows : run_s4(G, r) = {Unresolved("warning")}
      BY <1>9, <1>14
    <2>2. Unresolved("warning") \in flags /\ Unresolved("critical") \notin flags
      BY <1>2, <1>11, <2>1, UnresolvedFacts
    <2> QED BY <1>14, <2>2 DEF count
  <1> QED BY <1>8, <1>12, <1>13, <1>14 DEF count
-----------------------------------------------------------------------------
(* What a PRD is grounded on.                                                *)

Modes == {"lexical", "exact_name", "verbatim"}
Levels == {0, 1, 2}

\* What is kept of a qualified name is a mode and one of its hits.
IsBest(best, H) ==
    \A q \in DOMAIN best : best[q].mode \in Modes /\ best[q].hit \in H /\ best[q].hit.qn = q

\* The qualified names with evidence of a level or a higher one.
At(best, k) == {q \in DOMAIN best : Rank(best[q].mode) >= k}

\* A hit is evidence of a level for a token; some hit of a token is, for its name; some
\* token's hit is.
Tells(h, k, token, cited) ==
    evidence(token, h, cited) # "none" /\ Rank(evidence(token, h, cited)) >= k
HitsTell(q, k, token, found, cited, n) ==
    \E j \in 1 .. n : found[j].qn = q /\ Tells(found[j], k, token, cited)
TokensTell(q, k, tokens, hits, cited, n) ==
    \E i \in 1 .. n :
       HitsTell(q, k, tokens[i], hits[tokens[i]], cited, Len(hits[tokens[i]]))

LEMMA RankFacts ==
    /\ Rank("lexical") = 0 /\ Rank("exact_name") = 1 /\ Rank("verbatim") = 2
    /\ \A m \in Modes : Rank(m) \in Levels
  BY DEF Rank, Modes, Levels

LEMMA EvidenceFacts ==
    ASSUME NEW token, NEW h, NEW cited \in BOOLEAN
    PROVE  evidence(token, h, cited) # "none" => evidence(token, h, cited) \in Modes
  BY DEF evidence, Modes

\* Upserting adds the name at every level its mode reaches and takes nothing away.
LEMMA UpsertFacts ==
    ASSUME NEW H, NEW best, IsBest(best, H), NEW hit \in H, NEW mode \in Modes
    PROVE  /\ IsBest(upsert_best(best, hit, mode), H)
           /\ \A k \in Levels : \A q :
                 q \in At(upsert_best(best, hit, mode), k)
                   <=> q \in At(best, k) \/ (q = hit.qn /\ Rank(mode) >= k)
  <1> DEFINE B == upsert_best(best, hit, mode)
             n == hit.qn
             first == IF n \in DOMAIN best THEN best[n].hit ELSE hit
             wins == n \in DOMAIN best => Rank(mode) > Rank(best[n].mode)
  <1>1. /\ DOMAIN B = DOMAIN best \cup {n}
        /\ \A q \in DOMAIN best : q # n => B[q] = best[q]
        /\ wins => B[n].hit = first /\ B[n].mode = mode
        /\ ~wins => n \in DOMAIN best /\ B[n] = best[n]
    <2>1. B = [q \in DOMAIN best \cup {n} |->
                 IF q = n /\ wins THEN [hit |-> first, mode |-> mode] ELSE best[q]]
      BY DEF upsert_best
    <2> HIDE DEF B, n, first
    <2> QED BY <2>1
  <1> HIDE DEF B
  <1>2. \A q \in DOMAIN best : best[q].mode \in Modes /\ Rank(best[q].mode) \in Nat
    BY RankFacts DEF IsBest, Levels
  <1>3. Rank(mode) \in Nat
    BY RankFacts DEF Levels
  <1>4. first \in H /\ first.qn = n
    BY DEF IsBest
  <1> HIDE DEF n, first
  <1>5. IsBest(B, H)
    <2> SUFFICES ASSUME NEW q \in DOMAIN B
                 PROVE  B[q].mode \in Modes /\ B[q].hit \in H /\ B[q].hit.qn = q
      BY DEF IsBest
    <2>1. CASE q # n
      <3>1. q \in DOMAIN best /\ B[q] = best[q]
        BY <1>1, <2>1
      <3> QED BY <3>1 DEF IsBest
    <2>2. CASE q = n /\ wins
      BY <1>1, <1>4, <2>2
    <2>3. CASE q = n /\ ~wins
      <3>1. q \in DOMAIN best /\ B[q] = best[q]
        BY <1>1, <2>3
      <3> QED BY <3>1 DEF IsBest
    <2> QED BY <2>1, <2>2, <2>3
  <1>6. ASSUME NEW k \in Levels, NEW q
        PROVE  q \in At(B, k) <=> q \in At(best, k) \/ (q = n /\ Rank(mode) >= k)
    <2>1. k \in Nat
      BY DEF Levels
    <2>2. CASE q # n
      BY <1>1, <2>2 DEF At
    <2>3. CASE q = n /\ n \in DOMAIN best
      BY <1>1, <1>2, <1>3, <2>1, <2>3 DEF At
    <2>4. CASE q = n /\ n \notin DOMAIN best
      BY <1>1, <2>4 DEF At
    <2> QED BY <2>2, <2>3, <2>4
  <1> QED BY <1>5, <1>6 DEF B, n

LEMMA WeighHit ==
    ASSUME NEW H, NEW best, IsBest(best, H), NEW token, NEW hit \in H, NEW cited \in BOOLEAN
    PROVE  /\ IsBest(weigh_hit(best, token, hit, cited), H)
           /\ \A k \in Levels : \A q :
                 q \in At(weigh_hit(best, token, hit, cited), k)
                   <=> q \in At(best, k) \/ (q = hit.qn /\ Tells(hit, k, token, cited))
  <1> DEFINE e == evidence(token, hit, cited)
  <1>1. CASE e = "none"
    BY <1>1 DEF weigh_hit, Tells
  <1>2. CASE e # "none"
    <2>1. e \in Modes
      BY <1>2, EvidenceFacts
    <2>2. weigh_hit(best, token, hit, cited) = upsert_best(best, hit, e)
      BY <1>2 DEF weigh_hit
    <2>3. \A k : Tells(hit, k, token, cited) <=> Rank(e) >= k
      BY <1>2 DEF Tells
    <2> HIDE DEF e
    <2> QED BY <2>1, <2>2, <2>3, UpsertFacts
  <1> QED BY <1>1, <1>2

\* What the hits weighed so far have made of the evidence.
HitSteps(f, n, best, token, found, cited) ==
    f = [i \in 0 .. n |-> IF i = 0 THEN best ELSE weigh_hit(f[i - 1], token, found[i], cited)]
TokenSteps(f, n, best, tokens, hits, cited) ==
    f = [i \in 0 .. n |-> IF i = 0 THEN best
                          ELSE weigh_hits(f[i - 1], tokens[i], hits[tokens[i]], cited)]

LEMMA HitStepsExist ==
    ASSUME NEW best, NEW token, NEW found, NEW cited
    PROVE  \A n \in Nat : \E f : HitSteps(f, n, best, token, found, cited)
  <1> DEFINE T == {n \in Nat : \E f : HitSteps(f, n, best, token, found, cited)}
  <1>1. 0 \in T
    <2>1. HitSteps([i \in 0 .. 0 |-> best], 0, best, token, found, cited)
      BY DEF HitSteps
    <2> QED BY <2>1
  <1>2. ASSUME NEW n \in Nat, n \in T PROVE n + 1 \in T
    <2>1. PICK f : HitSteps(f, n, best, token, found, cited)
      BY <1>2
    <2> DEFINE last == weigh_hit(f[n], token, found[n + 1], cited)
               g == [i \in 0 .. (n + 1) |-> IF i = n + 1 THEN last ELSE f[i]]
    <2>2. ASSUME NEW i \in 0 .. (n + 1)
          PROVE  g[i] = IF i = 0 THEN best ELSE weigh_hit(g[i - 1], token, found[i], cited)
      <3>1. CASE i = n + 1
        <4>1. g[i] = last /\ i - 1 = n /\ g[n] = f[n]
          BY <3>1
        <4> HIDE DEF g
        <4> QED BY <3>1, <4>1
      <3>2. CASE i # n + 1
        <4>1. i \in 0 .. n /\ g[i] = f[i]
          BY <3>2
        <4>2. i # 0 => g[i - 1] = f[i - 1]
          BY <3>2
        <4>3. f[i] = IF i = 0 THEN best ELSE weigh_hit(f[i - 1], token, found[i], cited)
          BY <2>1, <4>1 DEF HitSteps
        <4> HIDE DEF g
        <4> QED BY <4>1, <4>2, <4>3
      <3> QED BY <3>1, <3>2
    <2>3. HitSteps(g, n + 1, best, token, found, cited)
      <3>1. g = [i \in 0 .. (n + 1) |-> g[i]]
        OBVIOUS
      <3> HIDE DEF g
      <3> QED BY <2>2, <3>1 DEF HitSteps
    <2> QED BY <2>3
  <1> HIDE DEF T
  <1>3. \A n \in Nat : n \in T
    BY <1>1, <1>2, Counting
  <1> QED BY <1>3 DEF T

LEMMA TokenStepsExist ==
    ASSUME NEW best, NEW tokens, NEW hits, NEW cited
    PROVE  \A n \in Nat : \E f : TokenSteps(f, n, best, tokens, hits, cited)
  <1> DEFINE T == {n \in Nat : \E f : TokenSteps(f, n, best, tokens, hits, cited)}
  <1>1. 0 \in T
    <2>1. TokenSteps([i \in 0 .. 0 |-> best], 0, best, tokens, hits, cited)
      BY DEF TokenSteps
    <2> QED BY <2>1
  <1>2. ASSUME NEW n \in Nat, n \in T PROVE n + 1 \in T
    <2>1. PICK f : TokenSteps(f, n, best, tokens, hits, cited)
      BY <1>2
    <2> DEFINE last == weigh_hits(f[n], tokens[n + 1], hits[tokens[n + 1]], cited)
               g == [i \in 0 .. (n + 1) |-> IF i = n + 1 THEN last ELSE f[i]]
    <2>2. ASSUME NEW i \in 0 .. (n + 1)
          PROVE  g[i] = IF i = 0 THEN best
                        ELSE weigh_hits(g[i - 1], tokens[i], hits[tokens[i]], cited)
      <3>1. CASE i = n + 1
        <4>1. g[i] = last /\ i - 1 = n /\ g[n] = f[n]
          BY <3>1
        <4> HIDE DEF g
        <4> QED BY <3>1, <4>1
      <3>2. CASE i # n + 1
        <4>1. i \in 0 .. n /\ g[i] = f[i]
          BY <3>2
        <4>2. i # 0 => g[i - 1] = f[i - 1]
          BY <3>2
        <4>3. f[i] = IF i = 0 THEN best
                     ELSE weigh_hits(f[i - 1], tokens[i], hits[tokens[i]], cited)
          BY <2>1, <4>1 DEF TokenSteps
        <4> HIDE DEF g
        <4> QED BY <4>1, <4>2, <4>3
      <3> QED BY <3>1, <3>2
    <2>3. TokenSteps(g, n + 1, best, tokens, hits, cited)
      <3>1. g = [i \in 0 .. (n + 1) |-> g[i]]
        OBVIOUS
      <3> HIDE DEF g
      <3> QED BY <2>2, <3>1 DEF TokenSteps
    <2> QED BY <2>3
  <1> HIDE DEF T
  <1>3. \A n \in Nat : n \in T
    BY <1>1, <1>2, Counting
  <1> QED BY <1>3 DEF T

\* The hits of a token add exactly what they tell.
LEMMA WeighHits ==
    ASSUME NEW H, NEW best, IsBest(best, H), NEW token, NEW found, Len(found) \in Nat,
           \A j \in 1 .. Len(found) : found[j] \in H, NEW cited \in BOOLEAN
    PROVE  /\ IsBest(weigh_hits(best, token, found, cited), H)
           /\ \A k \in Levels : \A q :
                 q \in At(weigh_hits(best, token, found, cited), k)
                   <=> q \in At(best, k) \/ HitsTell(q, k, token, found, cited, Len(found))
  <1> DEFINE m == Len(found)
             f == CHOOSE g : HitSteps(g, m, best, token, found, cited)
             T == {n \in Nat : n <= m =>
                      /\ IsBest(f[n], H)
                      /\ \A k \in Levels : \A q :
                            q \in At(f[n], k)
                              <=> q \in At(best, k) \/ HitsTell(q, k, token, found, cited, n)}
  <1>1. HitSteps(f, m, best, token, found, cited)
    BY HitStepsExist
  <1>2. weigh_hits(best, token, found, cited) = f[m]
    BY DEF weigh_hits, HitSteps
  <1> HIDE DEF f, m
  <1>3. m \in Nat
    BY DEF m
  <1>4. 0 \in T
    <2>1. f[0] = best
      BY <1>1, <1>3 DEF HitSteps
    <2>2. \A q, k : ~HitsTell(q, k, token, found, cited, 0)
      BY DEF HitsTell
    <2> QED BY <2>1, <2>2
  <1>5. ASSUME NEW n \in Nat, n \in T PROVE n + 1 \in T
    <2> SUFFICES ASSUME n + 1 <= m
                 PROVE  /\ IsBest(f[n + 1], H)
                        /\ \A k \in Levels : \A q :
                              q \in At(f[n + 1], k)
                                <=> q \in At(best, k)
                                      \/ HitsTell(q, k, token, found, cited, n + 1)
      OBVIOUS
    <2>1. /\ IsBest(f[n], H)
          /\ \A k \in Levels : \A q :
                q \in At(f[n], k)
                  <=> q \in At(best, k) \/ HitsTell(q, k, token, found, cited, n)
      BY <1>3, <1>5
    <2>2. f[n + 1] = weigh_hit(f[n], token, found[n + 1], cited)
      <3>1. n + 1 \in 0 .. m /\ n + 1 # 0 /\ (n + 1) - 1 = n
        BY <1>3
      <3>2. f[n + 1] = weigh_hit(f[(n + 1) - 1], token, found[n + 1], cited)
        BY <1>1, <3>1, Zenon DEF HitSteps
      <3> QED BY <3>1, <3>2
    <2>3. \A q, k : HitsTell(q, k, token, found, cited, n + 1)
                      <=> \/ HitsTell(q, k, token, found, cited, n)
                          \/ q = found[n + 1].qn /\ Tells(found[n + 1], k, token, cited)
      <3>1. 1 .. (n + 1) = (1 .. n) \cup {n + 1}
        OBVIOUS
      <3> QED BY <3>1 DEF HitsTell
    <2>4. /\ IsBest(f[n + 1], H)
          /\ \A k \in Levels : \A q :
                q \in At(f[n + 1], k)
                  <=> q \in At(f[n], k) \/ (q = found[n + 1].qn /\ Tells(found[n + 1], k, token, cited))
      <3>1. found[n + 1] \in H
        BY <1>3 DEF m
      <3> QED BY <2>1, <2>2, <3>1, WeighHit
    <2> QED BY <2>1, <2>3, <2>4
  <1> HIDE DEF T
  <1>6. m \in T
    BY <1>3, <1>4, <1>5, Counting
  <1> QED BY <1>2, <1>3, <1>6 DEF T, m

LEMMA WeighTokens ==
    ASSUME NEW H, NEW best, IsBest(best, H), NEW tokens, NEW hits, Len(tokens) \in Nat,
           \A i \in 1 .. Len(tokens) :
              /\ Len(hits[tokens[i]]) \in Nat
              /\ \A j \in 1 .. Len(hits[tokens[i]]) : hits[tokens[i]][j] \in H,
           NEW cited \in BOOLEAN
    PROVE  /\ IsBest(weigh_tokens(best, tokens, hits, cited), H)
           /\ \A k \in Levels : \A q :
                 q \in At(weigh_tokens(best, tokens, hits, cited), k)
                   <=> q \in At(best, k) \/ TokensTell(q, k, tokens, hits, cited, Len(tokens))
  <1> DEFINE m == Len(tokens)
             f == CHOOSE g : TokenSteps(g, m, best, tokens, hits, cited)
             T == {n \in Nat : n <= m =>
                      /\ IsBest(f[n], H)
                      /\ \A k \in Levels : \A q :
                            q \in At(f[n], k)
                              <=> q \in At(best, k) \/ TokensTell(q, k, tokens, hits, cited, n)}
  <1>1. TokenSteps(f, m, best, tokens, hits, cited)
    BY TokenStepsExist
  <1>2. weigh_tokens(best, tokens, hits, cited) = f[m]
    BY DEF weigh_tokens, TokenSteps
  <1> HIDE DEF f, m
  <1>3. m \in Nat
    BY DEF m
  <1>4. 0 \in T
    <2>1. f[0] = best
      BY <1>1, <1>3 DEF TokenSteps
    <2>2. \A q, k : ~TokensTell(q, k, tokens, hits, cited, 0)
      BY DEF TokensTell
    <2> QED BY <2>1, <2>2
  <1>5. ASSUME NEW n \in Nat, n \in T PROVE n + 1 \in T
    <2> SUFFICES ASSUME n + 1 <= m
                 PROVE  /\ IsBest(f[n + 1], H)
                        /\ \A k \in Levels : \A q :
                              q \in At(f[n + 1], k)
                                <=> q \in At(best, k)
                                      \/ TokensTell(q, k, tokens, hits, cited, n + 1)
      OBVIOUS
    <2> DEFINE found == hits[tokens[n + 1]]
               told(q, k) == HitsTell(q, k, tokens[n + 1], found, cited, Len(found))
    <2>1. /\ IsBest(f[n], H)
          /\ \A k \in Levels : \A q :
                q \in At(f[n], k)
                  <=> q \in At(best, k) \/ TokensTell(q, k, tokens, hits, cited, n)
      BY <1>3, <1>5
    <2>2. f[n + 1] = weigh_hits(f[n], tokens[n + 1], found, cited)
      <3>1. n + 1 \in 0 .. m /\ n + 1 # 0 /\ (n + 1) - 1 = n
        BY <1>3
      <3>2. f[n + 1] = weigh_hits(f[(n + 1) - 1], tokens[n + 1], hits[tokens[n + 1]], cited)
        BY <1>1, <3>1, Zenon DEF TokenSteps
      <3> QED BY <3>1, <3>2
    <2>3. \A q, k : TokensTell(q, k, tokens, hits, cited, n + 1)
                      <=> TokensTell(q, k, tokens, hits, cited, n) \/ told(q, k)
      <3>1. 1 .. (n + 1) = (1 .. n) \cup {n + 1}
        OBVIOUS
      <3> QED BY <3>1 DEF TokensTell
    <2>4. Len(found) \in Nat /\ \A j \in 1 .. Len(found) : found[j] \in H
      <3>1. n + 1 \in 1 .. Len(tokens)
        BY <1>3 DEF m
      <3> QED BY <3>1
    <2> HIDE DEF found
    <2>5. /\ IsBest(f[n + 1], H)
          /\ \A k \in Levels : \A q : q \in At(f[n + 1], k) <=> q \in At(f[n], k) \/ told(q, k)
      BY <2>1, <2>2, <2>4, WeighHits
    <2> HIDE DEF told
    <2> QED BY <2>1, <2>3, <2>5
  <1> HIDE DEF T
  <1>6. m \in T
    BY <1>3, <1>4, <1>5, Counting
  <1> QED BY <1>2, <1>3, <1>6 DEF T, m

\* A name that a token's hit bears, cited or read, is told of at the levels of its mode.
LEMMA TokensTellEvidence ==
    ASSUME NEW Tokens, NEW H, NEW hits \in [Tokens -> Seq(H)], NEW tokens \in Seq(Tokens),
           NEW q, NEW cited \in BOOLEAN
    PROVE  /\ cited = TRUE => \A k \in Levels :
                 TokensTell(q, k, tokens, hits, cited, Len(tokens)) <=> q \in Evidence(tokens, hits)
           /\ cited = FALSE =>
                 /\ TokensTell(q, 1, tokens, hits, cited, Len(tokens)) <=> q \in Evidence(tokens, hits)
                 /\ ~TokensTell(q, 2, tokens, hits, cited, Len(tokens))
  <1> DEFINE Found(i) == {hits[tokens[i]][j] : j \in 1 .. Len(hits[tokens[i]])}
             names(h, i) == is_code_symbol(h) /\ is_exact_hit(tokens[i], h)
  <1>1. \A i \in 1 .. Len(tokens) : tokens[i] \in Tokens /\ hits[tokens[i]] \in Seq(H)
    OBVIOUS
  <1>2. q \in Evidence(tokens, hits) <=>
          \E i \in 1 .. Len(tokens) : \E h \in Found(i) : h.qn = q /\ names(h, i)
    <2>1. Range(tokens) = {tokens[i] : i \in 1 .. Len(tokens)}
      <3>1. DOMAIN tokens = 1 .. Len(tokens)
        OBVIOUS
      <3> QED BY <3>1 DEF Range
    <2>2. ASSUME NEW i \in 1 .. Len(tokens) PROVE Range(hits[tokens[i]]) = Found(i)
      <3>1. DOMAIN hits[tokens[i]] = 1 .. Len(hits[tokens[i]])
        BY <1>1
      <3> QED BY <3>1 DEF Range
    <2>3. q \in Evidence(tokens, hits) <=>
             \E t \in Range(tokens) : \E h \in Range(hits[t]) :
                h.qn = q /\ h.label # "File" /\ is_exact_hit(t, h)
      BY DEF Evidence, FoundHits
    <2> HIDE DEF Found
    <2> QED BY <2>1, <2>2, <2>3 DEF is_code_symbol
  <1>3. ASSUME NEW k PROVE TokensTell(q, k, tokens, hits, cited, Len(tokens)) <=>
                   \E i \in 1 .. Len(tokens) : \E h \in Found(i) :
                      h.qn = q /\ Tells(h, k, tokens[i], cited)
    BY DEF TokensTell, HitsTell
  <1>4. ASSUME NEW t, NEW h, cited = TRUE, NEW k \in Levels
        PROVE  Tells(h, k, t, cited) <=> is_code_symbol(h) /\ is_exact_hit(t, h)
    <2>1. evidence(t, h, cited) = IF is_code_symbol(h) /\ is_exact_hit(t, h) THEN "verbatim"
                                  ELSE "none"
      BY <1>4 DEF evidence
    <2>2. Rank("verbatim") >= k
      BY RankFacts DEF Levels
    <2> QED BY <2>1, <2>2 DEF Tells
  <1>5. ASSUME NEW t, NEW h, cited = FALSE
        PROVE  /\ Tells(h, 1, t, cited) <=> is_code_symbol(h) /\ is_exact_hit(t, h)
               /\ ~Tells(h, 2, t, cited)
    <2>1. evidence(t, h, cited) = IF ~is_code_symbol(h) THEN "none"
                                  ELSE IF is_exact_hit(t, h) THEN "exact_name" ELSE "lexical"
      BY <1>5 DEF evidence
    <2>2. Rank("exact_name") = 1 /\ Rank("lexical") = 0
      BY RankFacts
    <2> QED BY <2>1, <2>2 DEF Tells
  <1> HIDE DEF Found
  <1>6. ASSUME cited = TRUE, NEW k \in Levels
        PROVE  TokensTell(q, k, tokens, hits, cited, Len(tokens)) <=> q \in Evidence(tokens, hits)
    BY <1>2, <1>3, <1>4, <1>6
  <1>7. ASSUME cited = FALSE
        PROVE  /\ TokensTell(q, 1, tokens, hits, cited, Len(tokens)) <=> q \in Evidence(tokens, hits)
               /\ ~TokensTell(q, 2, tokens, hits, cited, Len(tokens))
    BY <1>2, <1>3, <1>5, <1>7
  <1> QED BY <1>6, <1>7

\* Whatever the order of the tokens and of their hits, the matched names are those some
\* token names, each with one of its hits, and those a citation names are marked so.
LEMMA ClassifiesByEvidence ==
    ASSUME NEW Tokens, NEW H, NEW hits \in [Tokens -> Seq(H)],
           NEW verbatim \in Seq(Tokens), NEW natural \in Seq(Tokens)
    PROVE  LET out == search_and_classify(verbatim, natural, hits)
               found == FoundHits(verbatim, hits) \cup FoundHits(natural, hits)
               cited == Evidence(verbatim, hits)
               read == Evidence(natural, hits)
           IN  /\ out.matched = cited \cup read
               /\ out.matched \cap out.candidates = {}
               /\ \A q \in cited \cup read :
                     /\ out.best[q].hit \in found /\ out.best[q].hit.qn = q
                     /\ out.best[q].mode = "verbatim" <=> q \in cited
  <1> DEFINE none == [q \in {} |-> ""]
             first == weigh_tokens(none, verbatim, hits, TRUE)
             best == weigh_tokens(first, natural, hits, FALSE)
             out == search_and_classify(verbatim, natural, hits)
             found == FoundHits(verbatim, hits) \cup FoundHits(natural, hits)
             cited == Evidence(verbatim, hits)
             read == Evidence(natural, hits)
             v(q, k) == TokensTell(q, k, verbatim, hits, TRUE, Len(verbatim))
             n(q, k) == TokensTell(q, k, natural, hits, FALSE, Len(natural))
  <1>1. IsBest(none, found) /\ \A k : At(none, k) = {}
    <2>1. DOMAIN none = {}
      OBVIOUS
    <2> HIDE DEF none
    <2> QED BY <2>1 DEF IsBest, At
  <1>2. ASSUME NEW tokens \in Seq(Tokens), FoundHits(tokens, hits) \subseteq found
        PROVE  /\ Len(tokens) \in Nat
               /\ \A i \in 1 .. Len(tokens) :
                     /\ Len(hits[tokens[i]]) \in Nat
                     /\ \A j \in 1 .. Len(hits[tokens[i]]) : hits[tokens[i]][j] \in found
    <2> SUFFICES ASSUME NEW i \in 1 .. Len(tokens)
                 PROVE  /\ Len(hits[tokens[i]]) \in Nat
                        /\ \A j \in 1 .. Len(hits[tokens[i]]) : hits[tokens[i]][j] \in found
      OBVIOUS
    <2>1. hits[tokens[i]] \in Seq(H) /\ tokens[i] \in Range(tokens)
      BY DEF Range
    <2>2. \A j \in 1 .. Len(hits[tokens[i]]) : hits[tokens[i]][j] \in Range(hits[tokens[i]])
      BY <2>1 DEF Range
    <2>3. Range(hits[tokens[i]]) \subseteq found
      BY <1>2, <2>1 DEF FoundHits
    <2> QED BY <2>1, <2>2, <2>3
  <1>a. FoundHits(verbatim, hits) \subseteq found /\ FoundHits(natural, hits) \subseteq found
    OBVIOUS
  <1>3. /\ out.matched = {q \in DOMAIN best : best[q].mode # "lexical"}
        /\ out.candidates = {q \in DOMAIN best : best[q].mode = "lexical"} /\ out.best = best
    <2> HIDE DEF best
    <2> QED BY DEF search_and_classify, best, first, none
  <1> HIDE DEF none, out, found
  <1>4. /\ IsBest(first, found)
        /\ \A k \in Levels : \A q : q \in At(first, k) <=> q \in At(none, k) \/ v(q, k)
    <2>1. TRUE \in BOOLEAN
      OBVIOUS
    <2> QED BY <1>1, <1>2, <1>a, <2>1, WeighTokens
  <1> HIDE DEF first
  <1>5. /\ IsBest(best, found)
        /\ \A k \in Levels : \A q : q \in At(best, k) <=> q \in At(first, k) \/ n(q, k)
    <2>1. FALSE \in BOOLEAN
      OBVIOUS
    <2> QED BY <1>2, <1>a, <1>4, <2>1, WeighTokens
  <1> HIDE DEF best
  <1>6. \A q : /\ \A k \in Levels : v(q, k) <=> q \in cited
               /\ n(q, 1) <=> q \in read
               /\ ~n(q, 2)
    BY TokensTellEvidence
  <1> HIDE DEF v, n, cited, read
  <1>7. 1 \in Levels /\ 2 \in Levels
    BY DEF Levels
  <1>8. \A q : (q \in At(best, 1) <=> q \in cited \/ q \in read) /\ (q \in At(best, 2) <=> q \in cited)
    BY <1>1, <1>4, <1>5, <1>6, <1>7
  <1>9. \A q : /\ q \in At(best, 1) <=> q \in DOMAIN best /\ best[q].mode # "lexical"
               /\ q \in At(best, 2) <=> q \in DOMAIN best /\ best[q].mode = "verbatim"
    <2>1. \A m \in Modes : (Rank(m) >= 1 <=> m # "lexical") /\ (Rank(m) >= 2 <=> m = "verbatim")
      BY RankFacts DEF Modes
    <2> QED BY <1>5, <2>1 DEF At, IsBest
  <1>10. /\ out.matched = cited \cup read /\ out.matched \cap out.candidates = {}
         /\ \A q \in cited \cup read : out.best[q].mode = "verbatim" <=> q \in cited
    BY <1>3, <1>8, <1>9
  <1>11. \A q \in cited \cup read : out.best[q].hit \in found /\ out.best[q].hit.qn = q
    BY <1>3, <1>5, <1>8, <1>9 DEF IsBest
  <1> QED BY <1>10, <1>11 DEF out, found, cited, read

\* A PRD is grounded on exactly the symbols some token names, for all tokens and hits in
\* whatever order, and on nothing when the finding's receipt does not say verified.
LEMMA GroundingsAreExact ==
    ASSUME NEW Tokens, NEW H, NEW hits \in [Tokens -> Seq(H)],
           NEW verbatim \in Seq(Tokens), NEW natural \in Seq(Tokens),
           NEW finding \in BOOLEAN, NEW dir
    PROVE  GroundingIsExact(finding, dir, verbatim, natural, hits)
  <1> DEFINE out == search_and_classify(verbatim, natural, hits)
             run == prepare(finding, dir, "text", verbatim, natural, hits)
             found == FoundHits(verbatim, hits) \cup FoundHits(natural, hits)
             cited == Evidence(verbatim, hits)
             read == Evidence(natural, hits)
             mode == resolve_mode(finding, dir, "text")
             ok == mode \in {"finding", "feature"}
             grounded == finding => dir.receipt = "verified"
             kept == {out.best[q].hit : q \in out.matched}
  <1>1. /\ out.matched = cited \cup read
        /\ out.matched \cap out.candidates = {}
        /\ \A q \in cited \cup read :
              /\ out.best[q].hit \in found /\ out.best[q].hit.qn = q
              /\ out.best[q].mode = "verbatim" <=> q \in cited
    BY ClassifiesByEvidence
  <1>2. ok => grounded
    BY DEF resolve_mode, load_verified
  <1>3. ~ok => run.artifact = FALSE /\ run.matched = {} /\ run.candidates = {} /\ run.marker = "error"
    <2> HIDE DEF mode
    <2> QED BY DEF prepare, mode
  <1>4. ok => /\ run.artifact = TRUE
              /\ run.matched = out.matched /\ run.candidates = out.candidates
              /\ run.impacted = {h.comm : h \in kept} \ {0}
    <2> HIDE DEF mode, out
    <2> QED BY DEF prepare, impacted, mode, out
  <1> HIDE DEF run, mode, out, found, cited, read, grounded
  <1>5. run.artifact = TRUE <=> ok
    BY <1>3, <1>4
  <1>6. \A c \in {h.comm : h \in kept} : \E h \in found : h.qn \in cited \cup read /\ h.comm = c
    <2>1. \A h \in kept : h \in found /\ h.qn \in cited \cup read
      BY <1>1
    <2> HIDE DEF kept
    <2> QED BY <2>1
  <1>7. ok => \A q \in cited \cup read :
                 \E h \in found : h.qn = q /\ (h.comm \in run.impacted \/ h.comm = 0)
    <2> SUFFICES ASSUME ok, NEW q \in cited \cup read
                 PROVE  \E h \in found : h.qn = q /\ (h.comm \in run.impacted \/ h.comm = 0)
      OBVIOUS
    <2> DEFINE h == out.best[q].hit
    <2>1. h \in kept /\ h \in found /\ h.qn = q
      BY <1>1
    <2> HIDE DEF h, kept
    <2>2. h.comm \in run.impacted \/ h.comm = 0
      BY <1>4, <2>1
    <2> QED BY <2>1, <2>2
  <1>8. RunIsGrounded(run, out, grounded, found, cited, read)
    <2>1. run.artifact => run.matched = cited \cup read /\ run.matched \cap run.candidates = {}
      BY <1>1, <1>3, <1>4
    <2> HIDE DEF kept, ok
    <2> QED BY <1>1, <1>2, <1>3, <1>4, <1>5, <1>6, <1>7, <2>1 DEF RunIsGrounded
  <1> QED BY <1>8 DEF GroundingIsExact, run, out, found, cited, read, grounded

-----------------------------------------------------------------------------
(* References that are not calls.  Joining, filtering, summing and staging     *)
(* are recursive functions over what the graph returned.                       *)

\* The sequences of ss one after the other, up to the n-th.
JoinSteps(f, n, ss) ==
    f = [i \in 0 .. n |-> IF i = 0 THEN <<>> ELSE f[i - 1] \o ss[i]]

LEMMA JoinStepsExist ==
    ASSUME NEW ss
    PROVE  \A n \in Nat : \E f : JoinSteps(f, n, ss)
  <1> DEFINE T == {n \in Nat : \E f : JoinSteps(f, n, ss)}
  <1>1. 0 \in T
    <2>1. JoinSteps([i \in 0 .. 0 |-> <<>>], 0, ss)
      BY DEF JoinSteps
    <2> QED BY <2>1
  <1>2. ASSUME NEW n \in Nat, n \in T PROVE n + 1 \in T
    <2>1. PICK f : JoinSteps(f, n, ss)
      BY <1>2
    <2> DEFINE x == f[n] \o ss[n + 1]
               g == [i \in 0 .. (n + 1) |-> IF i = n + 1 THEN x ELSE f[i]]
    <2>2. ASSUME NEW i \in 0 .. (n + 1)
          PROVE  g[i] = IF i = 0 THEN <<>> ELSE g[i - 1] \o ss[i]
      <3>1. CASE i = n + 1
        <4>1. g[i] = x /\ i - 1 = n /\ g[n] = f[n] /\ i # 0
          BY <3>1
        <4> HIDE DEF g
        <4>2. g[i - 1] = f[n] /\ ss[i] = ss[n + 1]
          BY <3>1, <4>1
        <4> QED BY <4>1, <4>2, Zenon
      <3>2. CASE i # n + 1
        <4>1. i \in 0 .. n /\ g[i] = f[i]
          BY <3>2
        <4>2. i # 0 => g[i - 1] = f[i - 1]
          BY <3>2
        <4>3. f[i] = IF i = 0 THEN <<>> ELSE f[i - 1] \o ss[i]
          BY <2>1, <4>1 DEF JoinSteps
        <4> HIDE DEF g
        <4> QED BY <4>1, <4>2, <4>3
      <3> QED BY <3>1, <3>2
    <2>3. JoinSteps(g, n + 1, ss)
      <3>1. g = [i \in 0 .. (n + 1) |-> g[i]]
        OBVIOUS
      <3> HIDE DEF g
      <3> QED BY <2>2, <3>1 DEF JoinSteps
    <2> QED BY <2>3
  <1> HIDE DEF T
  <1>3. \A n \in Nat : n \in T
    BY <1>1, <1>2, Counting
  <1> QED BY <1>3 DEF T

\* What a sequence holds, and what two joined hold.
Held(s) == {s[i] : i \in 1 .. Len(s)}

LEMMA HeldIsRange ==
    ASSUME NEW S, NEW s \in Seq(S)
    PROVE  Types!Range(s) = Held(s) /\ Held(s) \subseteq S /\ DOMAIN s = 1 .. Len(s)
  BY DEF Types!Range, Held

LEMMA HeldOfJoin ==
    ASSUME NEW S, NEW s \in Seq(S), NEW t \in Seq(S)
    PROVE  s \o t \in Seq(S) /\ Held(s \o t) = Held(s) \cup Held(t)
  <1>1. /\ s \o t \in Seq(S) /\ Len(s \o t) = Len(s) + Len(t)
        /\ \A i \in 1 .. Len(s) : (s \o t)[i] = s[i]
        /\ \A i \in 1 .. Len(t) : (s \o t)[Len(s) + i] = t[i]
    OBVIOUS
  <1>2. ASSUME NEW x, x \in Held(s \o t) PROVE x \in Held(s) \cup Held(t)
    <2>1. PICK i \in 1 .. (Len(s) + Len(t)) : x = (s \o t)[i]
      BY <1>1, <1>2 DEF Held
    <2>2. CASE i <= Len(s)
      BY <1>1, <2>1, <2>2 DEF Held
    <2>3. CASE i > Len(s)
      <3>1. i - Len(s) \in 1 .. Len(t) /\ i = Len(s) + (i - Len(s))
        BY <2>3
      <3>2. x = t[i - Len(s)]
        BY <1>1, <2>1, <3>1
      <3> QED BY <3>1, <3>2 DEF Held
    <2> QED BY <2>1, <2>2, <2>3
  <1>3. Held(s) \subseteq Held(s \o t)
    BY <1>1 DEF Held
  <1>4. ASSUME NEW i \in 1 .. Len(t) PROVE t[i] \in Held(s \o t)
    <2>1. Len(s) + i \in 1 .. Len(s \o t)
      BY <1>1
    <2> QED BY <1>1, <2>1 DEF Held
  <1>5. Held(t) \subseteq Held(s \o t)
    BY <1>4 DEF Held
  <1> QED BY <1>1, <1>2, <1>3, <1>5

LEMMA HeldOfNone ==
    ASSUME NEW S, NEW s \in Seq(S)
    PROVE  /\ s = <<>> <=> Held(s) = {}
           /\ s # <<>> => s[1] \in Held(s)
           /\ s # <<>> => Len(s) >= 1
  <1>1. CASE Len(s) = 0
    BY <1>1 DEF Held
  <1>2. CASE Len(s) # 0
    <2>1. 1 \in 1 .. Len(s)
      BY <1>2
    <2> QED BY <1>2, <2>1 DEF Held
  <1> QED BY <1>1, <1>2

\* What is joined is what the parts hold.
LEMMA ConcatHolds ==
    ASSUME NEW S, NEW ss, Len(ss) \in Nat, \A i \in 1 .. Len(ss) : ss[i] \in Seq(S)
    PROVE  /\ Types!Concat(ss) \in Seq(S)
           /\ Held(Types!Concat(ss)) = UNION {Held(ss[i]) : i \in 1 .. Len(ss)}
  <1> DEFINE m == Len(ss)
             f == CHOOSE g : JoinSteps(g, m, ss)
             T == {n \in Nat : n <= m => /\ f[n] \in Seq(S)
                                         /\ Held(f[n]) = UNION {Held(ss[i]) : i \in 1 .. n}}
  <1>1. JoinSteps(f, m, ss)
    BY JoinStepsExist
  <1>2. Types!Concat(ss) = f[m]
    BY DEF Types!Concat, JoinSteps
  <1> HIDE DEF f, m
  <1>3. m \in Nat /\ \A i \in 1 .. m : ss[i] \in Seq(S)
    BY DEF m
  <1>4. 0 \in T
    <2>1. f[0] = <<>>
      BY <1>1, <1>3 DEF JoinSteps
    <2>2. 1 .. 0 = {} /\ Held(<<>>) = {}
      BY DEF Held
    <2>3. UNION {Held(ss[i]) : i \in 1 .. 0} = {}
      BY <2>2
    <2>4. f[0] \in Seq(S) /\ Held(f[0]) = UNION {Held(ss[i]) : i \in 1 .. 0}
      BY <2>1, <2>2, <2>3
    <2> QED BY <2>4
  <1>5. ASSUME NEW n \in Nat, n \in T PROVE n + 1 \in T
    <2> SUFFICES ASSUME n + 1 <= m
                 PROVE  /\ f[n + 1] \in Seq(S)
                        /\ Held(f[n + 1]) = UNION {Held(ss[i]) : i \in 1 .. (n + 1)}
      OBVIOUS
    <2>1. f[n] \in Seq(S) /\ Held(f[n]) = UNION {Held(ss[i]) : i \in 1 .. n}
      BY <1>3, <1>5
    <2>2. f[n + 1] = f[n] \o ss[n + 1]
      <3>1. n + 1 \in 0 .. m /\ n + 1 # 0 /\ (n + 1) - 1 = n
        BY <1>3
      <3>2. f[n + 1] = f[(n + 1) - 1] \o ss[n + 1]
        BY <1>1, <3>1, Zenon DEF JoinSteps
      <3> QED BY <3>1, <3>2
    <2>3. ss[n + 1] \in Seq(S)
      BY <1>3
    <2>4. f[n + 1] \in Seq(S) /\ Held(f[n + 1]) = Held(f[n]) \cup Held(ss[n + 1])
      BY <2>1, <2>2, <2>3, HeldOfJoin
    <2>5. 1 .. (n + 1) = (1 .. n) \cup {n + 1}
      OBVIOUS
    <2>6. UNION {Held(ss[i]) : i \in 1 .. (n + 1)}
             = (UNION {Held(ss[i]) : i \in 1 .. n}) \cup Held(ss[n + 1])
      BY <2>5
    <2> QED BY <2>1, <2>4, <2>6
  <1> HIDE DEF T
  <1>6. m \in T
    BY <1>3, <1>4, <1>5, Counting
  <1> QED BY <1>2, <1>3, <1>6 DEF T, m

\* The elements of s that are in S, up to the n-th.
AmongSteps(f, n, s, S) ==
    f = [i \in 0 .. n |-> IF i = 0 THEN <<>>
                          ELSE IF s[i] \in S THEN Append(f[i - 1], s[i]) ELSE f[i - 1]]

LEMMA AmongStepsExist ==
    ASSUME NEW s, NEW S
    PROVE  \A n \in Nat : \E f : AmongSteps(f, n, s, S)
  <1> DEFINE T == {n \in Nat : \E f : AmongSteps(f, n, s, S)}
             next(x, i) == IF s[i] \in S THEN Append(x, s[i]) ELSE x
  <1>1. 0 \in T
    <2>1. AmongSteps([i \in 0 .. 0 |-> <<>>], 0, s, S)
      BY DEF AmongSteps
    <2> QED BY <2>1
  <1>2. ASSUME NEW n \in Nat, n \in T PROVE n + 1 \in T
    <2>1. PICK f : AmongSteps(f, n, s, S)
      BY <1>2
    <2> DEFINE x == next(f[n], n + 1)
               g == [i \in 0 .. (n + 1) |-> IF i = n + 1 THEN x ELSE f[i]]
    <2>2. ASSUME NEW i \in 0 .. (n + 1)
          PROVE  g[i] = IF i = 0 THEN <<>> ELSE next(g[i - 1], i)
      <3>1. CASE i = n + 1
        <4>1. g[i] = next(f[n], i) /\ i - 1 = n /\ g[n] = f[n] /\ i # 0
          BY <3>1
        <4> HIDE DEF g, next
        <4>2. g[i - 1] = f[n]
          BY <4>1
        <4> QED BY <4>1, <4>2, Zenon
      <3>2. CASE i # n + 1
        <4>1. i \in 0 .. n /\ g[i] = f[i]
          BY <3>2
        <4>2. i # 0 => g[i - 1] = f[i - 1]
          BY <3>2
        <4>3. f[i] = IF i = 0 THEN <<>> ELSE next(f[i - 1], i)
          BY <2>1, <4>1 DEF AmongSteps
        <4> HIDE DEF g, next
        <4> QED BY <4>1, <4>2, <4>3
      <3> QED BY <3>1, <3>2
    <2>3. AmongSteps(g, n + 1, s, S)
      <3>1. g = [i \in 0 .. (n + 1) |-> g[i]]
        OBVIOUS
      <3> HIDE DEF g
      <3> QED BY <2>2, <3>1 DEF AmongSteps
    <2> QED BY <2>3
  <1> HIDE DEF T
  <1>3. \A n \in Nat : n \in T
    BY <1>1, <1>2, Counting
  <1> QED BY <1>3 DEF T

LEMMA AmongHolds ==
    ASSUME NEW A, NEW s \in Seq(A), NEW S
    PROVE  Types!Among(s, S) \in Seq(A) /\ Held(Types!Among(s, S)) = Held(s) \cap S
  <1> DEFINE m == Len(s)
             f == CHOOSE g : AmongSteps(g, m, s, S)
             Upto(n) == {s[i] : i \in 1 .. n} \cap S
             T == {n \in Nat : n <= m => f[n] \in Seq(A) /\ Held(f[n]) = Upto(n)}
  <1>1. AmongSteps(f, m, s, S)
    BY AmongStepsExist
  <1>2. Types!Among(s, S) = f[m]
    BY DEF Types!Among, AmongSteps
  <1> HIDE DEF f, m
  <1>3. m \in Nat /\ \A i \in 1 .. m : s[i] \in A
    BY DEF m
  <1>4. 0 \in T
    <2>1. f[0] = <<>>
      BY <1>1, <1>3 DEF AmongSteps
    <2>2. Upto(0) = {} /\ Held(<<>>) = {} /\ <<>> \in Seq(A)
      BY DEF Held
    <2>3. f[0] \in Seq(A) /\ Held(f[0]) = Upto(0)
      BY <2>1, <2>2
    <2> QED BY <2>3
  <1>5. ASSUME NEW n \in Nat, n \in T PROVE n + 1 \in T
    <2> SUFFICES ASSUME n + 1 <= m PROVE f[n + 1] \in Seq(A) /\ Held(f[n + 1]) = Upto(n + 1)
      OBVIOUS
    <2>1. f[n] \in Seq(A) /\ Held(f[n]) = Upto(n)
      BY <1>3, <1>5
    <2>2. f[n + 1] = IF s[n + 1] \in S THEN Append(f[n], s[n + 1]) ELSE f[n]
      <3>1. n + 1 \in 0 .. m /\ n + 1 # 0 /\ (n + 1) - 1 = n
        BY <1>3
      <3>2. f[n + 1] = IF s[n + 1] \in S THEN Append(f[(n + 1) - 1], s[n + 1])
                       ELSE f[(n + 1) - 1]
        BY <1>1, <3>1, Zenon DEF AmongSteps
      <3> QED BY <3>1, <3>2
    <2>3. s[n + 1] \in A
      BY <1>3
    <2>4. Upto(n + 1) = Upto(n) \cup ({s[n + 1]} \cap S)
      <3>1. 1 .. (n + 1) = (1 .. n) \cup {n + 1}
        OBVIOUS
      <3> QED BY <3>1
    <2> HIDE DEF Upto
    <2>5. CASE s[n + 1] \in S
      <3>1. f[n + 1] = f[n] \o <<s[n + 1]>> /\ <<s[n + 1]>> \in Seq(A)
        BY <2>1, <2>2, <2>3, <2>5
      <3>2. Held(<<s[n + 1]>>) = {s[n + 1]}
        BY DEF Held
      <3>3. f[n + 1] \in Seq(A) /\ Held(f[n + 1]) = Held(f[n]) \cup {s[n + 1]}
        <4> DEFINE x == f[n]
                   y == <<s[n + 1]>>
        <4>1. x \in Seq(A) /\ y \in Seq(A)
          BY <2>1, <3>1
        <4> HIDE DEF x, y
        <4>2. x \o y \in Seq(A) /\ Held(x \o y) = Held(x) \cup Held(y)
          BY <4>1, HeldOfJoin
        <4> QED BY <3>1, <3>2, <4>2 DEF x, y
      <3> QED BY <2>1, <2>4, <2>5, <3>3
    <2>6. CASE s[n + 1] \notin S
      BY <2>1, <2>2, <2>4, <2>6
    <2> QED BY <2>5, <2>6
  <1> HIDE DEF T, Upto
  <1>6. m \in T
    BY <1>3, <1>4, <1>5, Counting
  <1>7. f[m] \in Seq(A) /\ Held(f[m]) = Upto(m)
    BY <1>3, <1>6 DEF T
  <1>8. Upto(m) = Held(s) \cap S
    BY DEF Upto, Held, m
  <1> QED BY <1>2, <1>7, <1>8

\* The kinds of edges and references, and the reasons that leave one open.
TypeKinds == {"Imports", "Implements", "Extends", "Uses"}
TypeTables == TypeKinds \X RowLabels \X RowLabels
Reasons == {"no target", "no table", "no_rel_table", "type not found", "no_target_in_corpus",
            "external crate"}

\* An edge that leads to no twin, where twins are to be dropped.
SoundEdge(W) ==
    {e \in [table : TypeTables, from : Seq(STRING), to : Symbol] :
        e.table[1] \in {"Implements", "Uses"} =>
            ~Types!is_twin_member(e.to, Types!named(W, e.to.name))}
OpenRef == [kind : TypeKinds, from : STRING \cup Seq(STRING), why : Reasons]

\* What a phase may return: as many references as are resolved or open.
Balanced(W) ==
    {t \in [resolved : Nat, total : Nat, unresolved : Seq(OpenRef), adds : Seq(SoundEdge(W))] :
        t.resolved + Len(t.unresolved) = t.total}

\* A tally of r resolved references that adds these edges; one that adds those of two.
Yields(t, r, adds) == t.resolved = r /\ t.adds = adds
Joins(t, a, b) == Held(t.adds) = Held(a.adds) \cup Held(b.adds)

LEMMA TallyIsBalanced ==
    ASSUME NEW W, NEW r \in Nat, NEW n \in Nat, NEW u \in Seq(OpenRef),
           NEW adds \in Seq(SoundEdge(W)), r + Len(u) = n
    PROVE  /\ Types!Tally(r, n, u, adds) \in Balanced(W)
           /\ Yields(Types!Tally(r, n, u, adds), r, adds)
  <1> DEFINE U == Seq(OpenRef)
             D == Seq(SoundEdge(W))
             c == Types!Tally(r, n, u, adds)
  <1>1. u \in U /\ adds \in D
    OBVIOUS
  <1>2. c = [resolved |-> r, total |-> n, unresolved |-> u, adds |-> adds]
    BY DEF Types!Tally
  <1>3. Balanced(W) = {t \in [resolved : Nat, total : Nat, unresolved : U, adds : D] :
                          t.resolved + Len(t.unresolved) = t.total}
    BY DEF Balanced
  <1> HIDE DEF U, D, c
  <1>4. c \in [resolved : Nat, total : Nat, unresolved : U, adds : D]
    BY <1>1, <1>2
  <1>5. c.resolved = r /\ c.total = n /\ c.unresolved = u /\ c.adds = adds
    BY <1>2
  <1>6. c.resolved + Len(c.unresolved) = c.total
    BY <1>5
  <1>7. c \in Balanced(W)
    BY <1>3, <1>4, <1>6
  <1>8. Yields(c, r, adds)
    BY <1>5 DEF Yields
  <1> QED BY <1>7, <1>8 DEF c

LEMMA BalancedParts ==
    ASSUME NEW W, NEW t \in Balanced(W)
    PROVE  /\ t.resolved \in Nat /\ t.total \in Nat /\ t.unresolved \in Seq(OpenRef)
           /\ t.adds \in Seq(SoundEdge(W)) /\ t.resolved + Len(t.unresolved) = t.total
  BY DEF Balanced

LEMMA FoundIsBalanced ==
    ASSUME NEW W, NEW adds \in Seq(SoundEdge(W))
    PROVE  Types!Found(adds) \in Balanced(W) /\ Yields(Types!Found(adds), 1, adds)
  <1>1. 1 \in Nat /\ <<>> \in Seq(OpenRef) /\ 1 + Len(<<>>) = 1
    OBVIOUS
  <1>2. Types!Found(adds) = Types!Tally(1, 1, <<>>, adds)
    BY DEF Types!Found
  <1> QED BY <1>1, <1>2, TallyIsBalanced, Zenon

LEMMA MissingIsBalanced ==
    ASSUME NEW W, NEW kind \in TypeKinds, NEW from \in STRING \cup Seq(STRING), NEW why \in Reasons
    PROVE  /\ Types!Missing(kind, from, why) \in Balanced(W)
           /\ Yields(Types!Missing(kind, from, why), 0, <<>>)
  <1> DEFINE r == [kind |-> kind, from |-> from, why |-> why]
  <1>1. r \in OpenRef
    BY DEF OpenRef
  <1>2. Types!Missing(kind, from, why) = Types!Tally(0, 1, <<r>>, <<>>)
    BY DEF Types!Missing
  <1> HIDE DEF r
  <1>3. /\ 0 \in Nat /\ 1 \in Nat /\ <<r>> \in Seq(OpenRef) /\ 0 + Len(<<r>>) = 1
        /\ <<>> \in Seq(SoundEdge(W))
    BY <1>1
  <1> QED BY <1>2, <1>3, TallyIsBalanced, Zenon

LEMMA NothingIsBalanced ==
    ASSUME NEW W
    PROVE  /\ Types!Tally(0, 0, <<>>, <<>>) \in Balanced(W)
           /\ Yields(Types!Tally(0, 0, <<>>, <<>>), 0, <<>>)
  <1>1. /\ 0 \in Nat /\ <<>> \in Seq(OpenRef) /\ 0 + Len(<<>>) = 0
        /\ <<>> \in Seq(SoundEdge(W))
    OBVIOUS
  <1> QED BY <1>1, TallyIsBalanced, Zenon

LEMMA PlusIsBalanced ==
    ASSUME NEW W, NEW a, NEW b, a \in Balanced(W), b \in Balanced(W)
    PROVE  /\ Types!Plus(a, b) \in Balanced(W)
           /\ Joins(Types!Plus(a, b), a, b)
  <1> DEFINE E == SoundEdge(W)
             u == a.unresolved \o b.unresolved
             d == a.adds \o b.adds
             r == a.resolved + b.resolved
             n == a.total + b.total
  <1>1. /\ a.resolved \in Nat /\ a.total \in Nat /\ a.unresolved \in Seq(OpenRef)
        /\ a.adds \in Seq(E) /\ a.resolved + Len(a.unresolved) = a.total
    BY BalancedParts
  <1>2. /\ b.resolved \in Nat /\ b.total \in Nat /\ b.unresolved \in Seq(OpenRef)
        /\ b.adds \in Seq(E) /\ b.resolved + Len(b.unresolved) = b.total
    BY BalancedParts
  <1>3. d \in Seq(E) /\ Held(d) = Held(a.adds) \cup Held(b.adds)
    BY <1>1, <1>2, HeldOfJoin
  <1>4. u \in Seq(OpenRef) /\ Len(u) = Len(a.unresolved) + Len(b.unresolved)
    BY <1>1, <1>2
  <1>5. r \in Nat /\ n \in Nat /\ r + Len(u) = n
    <2> DEFINE ra == a.resolved
               rb == b.resolved
               ta == a.total
               tb == b.total
               la == Len(a.unresolved)
               lb == Len(b.unresolved)
               lu == Len(u)
    <2>1. /\ ra \in Nat /\ rb \in Nat /\ la \in Nat /\ lb \in Nat /\ ta \in Nat /\ tb \in Nat
          /\ ra + la = ta /\ rb + lb = tb /\ lu = la + lb
      BY <1>1, <1>2, <1>4
    <2> HIDE DEF ra, rb, ta, tb, la, lb, lu
    <2>2. ra + rb \in Nat /\ ta + tb \in Nat /\ (ra + rb) + lu = ta + tb
      BY <2>1
    <2> QED BY <2>2, Zenon DEF ra, rb, ta, tb, lu
  <1>6. Types!Plus(a, b) = Types!Tally(r, n, u, d)
    BY DEF Types!Plus
  <1> HIDE DEF r, n, u, d
  <1>7. Types!Plus(a, b) \in Balanced(W) /\ Yields(Types!Plus(a, b), r, d)
    BY <1>3, <1>4, <1>5, <1>6, TallyIsBalanced, Zenon DEF E
  <1>8. Types!Plus(a, b).adds = d
    BY <1>7 DEF Yields
  <1> QED BY <1>3, <1>7, <1>8 DEF Joins

SumSteps(f, n, ts) ==
    f = [i \in 0 .. n |-> IF i = 0 THEN Types!Tally(0, 0, <<>>, <<>>)
                          ELSE Types!Plus(f[i - 1], ts[i])]

LEMMA SumStepsExist ==
    ASSUME NEW ts
    PROVE  \A n \in Nat : \E f : SumSteps(f, n, ts)
  <1> DEFINE T == {n \in Nat : \E f : SumSteps(f, n, ts)}
             none == Types!Tally(0, 0, <<>>, <<>>)
  <1>1. 0 \in T
    <2>1. SumSteps([i \in 0 .. 0 |-> none], 0, ts)
      BY DEF SumSteps
    <2> QED BY <2>1
  <1>2. ASSUME NEW n \in Nat, n \in T PROVE n + 1 \in T
    <2>1. PICK f : SumSteps(f, n, ts)
      BY <1>2
    <2> DEFINE x == Types!Plus(f[n], ts[n + 1])
               g == [i \in 0 .. (n + 1) |-> IF i = n + 1 THEN x ELSE f[i]]
    <2>2. ASSUME NEW i \in 0 .. (n + 1)
          PROVE  g[i] = IF i = 0 THEN none ELSE Types!Plus(g[i - 1], ts[i])
      <3>1. CASE i = n + 1
        <4>1. g[i] = x /\ i - 1 = n /\ g[n] = f[n] /\ i # 0
          BY <3>1
        <4> HIDE DEF g
        <4>2. g[i - 1] = f[n] /\ ts[i] = ts[n + 1]
          BY <3>1, <4>1
        <4> QED BY <4>1, <4>2, Zenon
      <3>2. CASE i # n + 1
        <4>1. i \in 0 .. n /\ g[i] = f[i]
          BY <3>2
        <4>2. i # 0 => g[i - 1] = f[i - 1]
          BY <3>2
        <4>3. f[i] = IF i = 0 THEN none ELSE Types!Plus(f[i - 1], ts[i])
          BY <2>1, <4>1 DEF SumSteps
        <4> HIDE DEF g
        <4> QED BY <4>1, <4>2, <4>3
      <3> QED BY <3>1, <3>2
    <2>3. SumSteps(g, n + 1, ts)
      <3>1. g = [i \in 0 .. (n + 1) |-> g[i]]
        OBVIOUS
      <3> HIDE DEF g
      <3> QED BY <2>2, <3>1 DEF SumSteps
    <2> QED BY <2>3
  <1> HIDE DEF T
  <1>3. \A n \in Nat : n \in T
    BY <1>1, <1>2, Counting
  <1> QED BY <1>3 DEF T

\* The sum of balanced tallies is balanced and adds what each of them adds.
LEMMA SumIsBalanced ==
    ASSUME NEW W, NEW ts, Len(ts) \in Nat, \A i \in 1 .. Len(ts) : ts[i] \in Balanced(W)
    PROVE  /\ Types!Sum(ts) \in Balanced(W)
           /\ \A i \in 1 .. Len(ts) : Held(ts[i].adds) \subseteq Held(Types!Sum(ts).adds)
  <1> DEFINE m == Len(ts)
             f == CHOOSE g : SumSteps(g, m, ts)
             T == {n \in Nat : n <= m =>
                      /\ f[n] \in Balanced(W)
                      /\ \A i \in 1 .. n : Held(ts[i].adds) \subseteq Held(f[n].adds)}
  <1>1. SumSteps(f, m, ts)
    BY SumStepsExist
  <1>2. Types!Sum(ts) = f[m]
    BY DEF Types!Sum, SumSteps
  <1> HIDE DEF f, m
  <1>3. m \in Nat /\ \A i \in 1 .. m : ts[i] \in Balanced(W)
    BY DEF m
  <1>4. 0 \in T
    <2>1. f[0] = Types!Tally(0, 0, <<>>, <<>>)
      BY <1>1, <1>3 DEF SumSteps
    <2>2. f[0] \in Balanced(W)
      BY <2>1, NothingIsBalanced
    <2> QED BY <2>2
  <1>5. ASSUME NEW n \in Nat, n \in T PROVE n + 1 \in T
    <2> SUFFICES ASSUME n + 1 <= m
                 PROVE  /\ f[n + 1] \in Balanced(W)
                        /\ \A i \in 1 .. (n + 1) : Held(ts[i].adds) \subseteq Held(f[n + 1].adds)
      OBVIOUS
    <2>1. /\ f[n] \in Balanced(W)
          /\ \A i \in 1 .. n : Held(ts[i].adds) \subseteq Held(f[n].adds)
      BY <1>3, <1>5
    <2>2. f[n + 1] = Types!Plus(f[n], ts[n + 1])
      <3>1. n + 1 \in 0 .. m /\ n + 1 # 0 /\ (n + 1) - 1 = n
        BY <1>3
      <3>2. f[n + 1] = Types!Plus(f[(n + 1) - 1], ts[n + 1])
        BY <1>1, <3>1, Zenon DEF SumSteps
      <3> QED BY <3>1, <3>2
    <2>3. ts[n + 1] \in Balanced(W)
      BY <1>3
    <2>4. /\ f[n + 1] \in Balanced(W)
          /\ Joins(f[n + 1], f[n], ts[n + 1])
      BY <2>1, <2>2, <2>3, PlusIsBalanced, Zenon
    <2>5. \A i \in 1 .. (n + 1) : i \in 1 .. n \/ i = n + 1
      OBVIOUS
    <2> QED BY <2>1, <2>4, <2>5 DEF Joins
  <1> HIDE DEF T
  <1>6. m \in T
    BY <1>3, <1>4, <1>5, Counting
  <1> QED BY <1>2, <1>3, <1>6 DEF T, m

\* The same, of tallies one for each element of a sequence.
LEMMA SumOverIsBalanced ==
    ASSUME NEW W, NEW A, NEW s \in Seq(A), NEW ts, ts = [k \in DOMAIN s |-> ts[k]],
           \A k \in 1 .. Len(s) : ts[k] \in Balanced(W)
    PROVE  /\ Types!Sum(ts) \in Balanced(W)
           /\ \A k \in 1 .. Len(s) : Held(ts[k].adds) \subseteq Held(Types!Sum(ts).adds)
  <1>1. DOMAIN s = 1 .. Len(s) /\ Len(s) \in Nat
    OBVIOUS
  <1>2. Len(ts) = Len(s)
    BY <1>1
  <1> QED BY <1>1, <1>2, SumIsBalanced

AddSteps(f, n, stored, edges) ==
    f = [i \in 0 .. n |-> IF i = 0 THEN <<>> ELSE Types!add(stored, f[i - 1], edges[i])]

LEMMA AddStepsExist ==
    ASSUME NEW stored, NEW edges
    PROVE  \A n \in Nat : \E f : AddSteps(f, n, stored, edges)
  <1> DEFINE T == {n \in Nat : \E f : AddSteps(f, n, stored, edges)}
  <1>1. 0 \in T
    <2>1. AddSteps([i \in 0 .. 0 |-> <<>>], 0, stored, edges)
      BY DEF AddSteps
    <2> QED BY <2>1
  <1>2. ASSUME NEW n \in Nat, n \in T PROVE n + 1 \in T
    <2>1. PICK f : AddSteps(f, n, stored, edges)
      BY <1>2
    <2> DEFINE x == Types!add(stored, f[n], edges[n + 1])
               g == [i \in 0 .. (n + 1) |-> IF i = n + 1 THEN x ELSE f[i]]
    <2>2. ASSUME NEW i \in 0 .. (n + 1)
          PROVE  g[i] = IF i = 0 THEN <<>> ELSE Types!add(stored, g[i - 1], edges[i])
      <3>1. CASE i = n + 1
        <4>1. g[i] = x /\ i - 1 = n /\ g[n] = f[n] /\ i # 0
          BY <3>1
        <4> HIDE DEF g
        <4>2. g[i - 1] = f[n] /\ edges[i] = edges[n + 1]
          BY <3>1, <4>1
        <4> QED BY <4>1, <4>2, Zenon
      <3>2. CASE i # n + 1
        <4>1. i \in 0 .. n /\ g[i] = f[i]
          BY <3>2
        <4>2. i # 0 => g[i - 1] = f[i - 1]
          BY <3>2
        <4>3. f[i] = IF i = 0 THEN <<>> ELSE Types!add(stored, f[i - 1], edges[i])
          BY <2>1, <4>1 DEF AddSteps
        <4> HIDE DEF g
        <4> QED BY <4>1, <4>2, <4>3
      <3> QED BY <3>1, <3>2
    <2>3. AddSteps(g, n + 1, stored, edges)
      <3>1. g = [i \in 0 .. (n + 1) |-> g[i]]
        OBVIOUS
      <3> HIDE DEF g
      <3> QED BY <2>2, <3>1 DEF AddSteps
    <2> QED BY <2>3
  <1> HIDE DEF T
  <1>3. \A n \in Nat : n \in T
    BY <1>1, <1>2, Counting
  <1> QED BY <1>3 DEF T

\* A sequence that holds just these, each once.
HoldsOnce(s, S, H) ==
    /\ s \in Seq(S)
    /\ Held(s) = H
    /\ \A i, j \in 1 .. Len(s) : s[i] = s[j] => i = j

\* One edge more, unless it is stored or staged.
LEMMA AddOne ==
    ASSUME NEW S, NEW stored, NEW s, NEW H, HoldsOnce(s, S, H), NEW e \in S
    PROVE  HoldsOnce(Types!add(stored, s, e), S, H \cup ({e} \ stored))
  <1>1. s \in Seq(S) /\ Held(s) = H /\ \A i, j \in 1 .. Len(s) : s[i] = s[j] => i = j
    BY DEF HoldsOnce
  <1>2. Types!Range(s) = H
    BY <1>1, HeldIsRange
  <1>3. CASE e \in stored \cup H
    <2>1. Types!add(stored, s, e) = s
      BY <1>2, <1>3 DEF Types!add
    <2>2. H \cup ({e} \ stored) = H
      BY <1>3
    <2> QED BY <2>1, <2>2
  <1>4. CASE e \notin stored \cup H
    <2> DEFINE t == Append(s, e)
    <2>1. Types!add(stored, s, e) = t
      BY <1>2, <1>4 DEF Types!add
    <2>2. /\ t \in Seq(S) /\ Len(t) = Len(s) + 1 /\ Len(s) \in Nat
          /\ \A i \in 1 .. Len(s) : t[i] = s[i]
          /\ t[Len(s) + 1] = e
      BY <1>1
    <2> HIDE DEF t
    <2>3. \A i \in 1 .. Len(t) : i \in 1 .. Len(s) \/ i = Len(s) + 1
      BY <2>2
    <2>4. \A i \in 1 .. Len(s) : t[i] \in H /\ t[i] # e /\ i \in 1 .. Len(t)
      BY <1>1, <1>4, <2>2 DEF Held
    <2>5. Len(s) + 1 \in 1 .. Len(t)
      BY <2>2
    <2>6. Held(t) = H \cup ({e} \ stored)
      <3>1. Held(t) \subseteq H \cup {e}
        BY <2>2, <2>3, <2>4 DEF Held
      <3>2. e \in Held(t)
        BY <2>2, <2>5 DEF Held
      <3>3. H \subseteq Held(t)
        BY <1>1, <2>2, <2>4 DEF Held
      <3> QED BY <1>4, <3>1, <3>2, <3>3
    <2>7. \A i, j \in 1 .. Len(t) : t[i] = t[j] => i = j
      BY <1>1, <2>2, <2>3, <2>4
    <2> QED BY <2>1, <2>2, <2>6, <2>7 DEF HoldsOnce
  <1> QED BY <1>3, <1>4

\* What is staged is what the store has not, each edge once.
LEMMA StagedOnce ==
    ASSUME NEW S, NEW stored, NEW edges \in Seq(S)
    PROVE  HoldsOnce(Types!add_all(stored, edges), S, Held(edges) \ stored)
  <1> DEFINE m == Len(edges)
             f == CHOOSE g : AddSteps(g, m, stored, edges)
             Upto(n) == {edges[i] : i \in 1 .. n} \ stored
             T == {n \in Nat : n <= m => HoldsOnce(f[n], S, Upto(n))}
  <1>1. AddSteps(f, m, stored, edges)
    BY AddStepsExist
  <1>2. Types!add_all(stored, edges) = f[m]
    BY DEF Types!add_all, AddSteps
  <1> HIDE DEF f, m
  <1>3. m \in Nat /\ \A i \in 1 .. m : edges[i] \in S
    BY DEF m
  <1>4. 0 \in T
    <2>1. f[0] = <<>>
      BY <1>1, <1>3 DEF AddSteps
    <2>2. Upto(0) = {} /\ Held(<<>>) = {} /\ <<>> \in Seq(S) /\ Len(<<>>) = 0
      BY DEF Held
    <2>3. HoldsOnce(<<>>, S, Upto(0))
      BY <2>2 DEF HoldsOnce
    <2> QED BY <2>1, <2>3
  <1>5. ASSUME NEW n \in Nat, n \in T PROVE n + 1 \in T
    <2> SUFFICES ASSUME n + 1 <= m PROVE HoldsOnce(f[n + 1], S, Upto(n + 1))
      OBVIOUS
    <2>1. HoldsOnce(f[n], S, Upto(n))
      BY <1>3, <1>5
    <2>2. f[n + 1] = Types!add(stored, f[n], edges[n + 1])
      <3>1. n + 1 \in 0 .. m /\ n + 1 # 0 /\ (n + 1) - 1 = n
        BY <1>3
      <3>2. f[n + 1] = Types!add(stored, f[(n + 1) - 1], edges[n + 1])
        BY <1>1, <3>1, Zenon DEF AddSteps
      <3> QED BY <3>1, <3>2
    <2>3. edges[n + 1] \in S
      BY <1>3
    <2>4. Upto(n + 1) = Upto(n) \cup ({edges[n + 1]} \ stored)
      <3>1. 1 .. (n + 1) = (1 .. n) \cup {n + 1}
        OBVIOUS
      <3> QED BY <3>1
    <2> HIDE DEF Upto
    <2> QED BY <2>1, <2>2, <2>3, <2>4, AddOne
  <1> HIDE DEF T, Upto
  <1>6. m \in T
    BY <1>3, <1>4, <1>5, Counting
  <1>7. HoldsOnce(f[m], S, Upto(m))
    BY <1>3, <1>6 DEF T
  <1>8. Upto(m) = Held(edges) \ stored
    BY DEF Upto, Held, m
  <1> QED BY <1>2, <1>7, <1>8

\* The symbols of a graph and those of a name.
LEMMA SymbolsTyped ==
    ASSUME NEW W, IsTypeWorld(W) PROVE Types!symbols(W) \in Seq(Symbol)
  <1> DEFINE L == Types!IndexedLabels
             ss == [i \in 1 .. Len(L) |-> W.rows[L[i]]]
  <1>1. Len(L) = 9 /\ DOMAIN L = 1 .. 9
    BY DEF Types!IndexedLabels
  <1>2. \A i \in 1 .. Len(L) : L[i] \in Types!Range(L)
    BY <1>1 DEF Types!Range
  <1>3. \A l \in Types!Range(L) : W.rows[l] \in Seq(Symbol)
    BY DEF IsTypeWorld
  <1>4. Types!symbols(W) = Types!Concat(ss)
    BY DEF Types!symbols
  <1> HIDE DEF L
  <1>5. Len(ss) \in Nat /\ \A i \in 1 .. Len(ss) : ss[i] \in Seq(Symbol)
    <2>1. Len(ss) = 9 /\ \A i \in 1 .. 9 : ss[i] = W.rows[L[i]]
      BY <1>1
    <2> HIDE DEF ss
    <2>2. \A i \in 1 .. 9 : W.rows[L[i]] \in Seq(Symbol)
      BY <1>1, <1>2, <1>3
    <2>3. Len(ss) \in Nat /\ 1 .. Len(ss) = 1 .. 9
      BY <2>1
    <2> QED BY <2>1, <2>2, <2>3, Zenon
  <1> HIDE DEF ss
  <1> QED BY <1>4, <1>5, ConcatHolds

LEMMA NamedTyped ==
    ASSUME NEW W, IsTypeWorld(W), NEW name
    PROVE  /\ Types!named(W, name) \in Seq(Symbol)
           /\ \A e \in Held(Types!named(W, name)) : e \in Symbol /\ e.name = name
  <1> DEFINE all == Types!symbols(W)
             S == {e \in Types!Range(all) : e.name = name}
  <1>1. all \in Seq(Symbol)
    BY SymbolsTyped
  <1>2. Types!named(W, name) = Types!Among(all, S)
    BY DEF Types!named
  <1>3. \A e \in S : e.name = name
    OBVIOUS
  <1> HIDE DEF all, S
  <1>4. Types!named(W, name) \in Seq(Symbol) /\ Held(Types!named(W, name)) = Held(all) \cap S
    BY <1>1, <1>2, AmongHolds
  <1>5. Held(all) \subseteq Symbol
    BY <1>1, HeldIsRange
  <1> QED BY <1>3, <1>4, <1>5

\* The candidates of some labels, and the first of them.
LEMMA LabelledHolds ==
    ASSUME NEW S, NEW s \in Seq(S), NEW labels
    PROVE  /\ Types!Labelled(s, labels) \in Seq(S)
           /\ Held(Types!Labelled(s, labels)) = {e \in Held(s) : e.label \in labels}
  <1> DEFINE keep == {e \in Types!Range(s) : e.label \in labels}
  <1>1. Types!Labelled(s, labels) = Types!Among(s, keep)
    BY DEF Types!Labelled
  <1>2. keep = {e \in Held(s) : e.label \in labels}
    BY HeldIsRange
  <1>3. Held(s) \cap keep = {e \in Held(s) : e.label \in labels}
    BY <1>2
  <1> HIDE DEF keep
  <1> QED BY <1>1, <1>3, AmongHolds

\* A first candidate is one of them.
IsFirst(one, s, labels) == one[1] \in Held(s) /\ one[1].label \in labels

LEMMA FirstIsOne ==
    ASSUME NEW S, NEW s \in Seq(S), NEW labels, Types!FirstOf(s, labels) # <<>>
    PROVE  IsFirst(Types!FirstOf(s, labels), s, labels)
  <1> DEFINE fit == Types!Labelled(s, labels)
             first == Types!FirstOf(s, labels)
  <1>1. first = IF fit = <<>> THEN <<>> ELSE <<fit[1]>>
    BY DEF Types!FirstOf
  <1>2. fit \in Seq(S) /\ Held(fit) = {e \in Held(s) : e.label \in labels}
    BY LabelledHolds
  <1> HIDE DEF fit
  <1>3. fit # <<>> /\ first = <<fit[1]>>
    BY <1>1
  <1>4. fit[1] \in Held(fit)
    BY <1>2, <1>3, HeldOfNone
  <1>5. first[1] = fit[1]
    BY <1>3
  <1> QED BY <1>2, <1>4, <1>5 DEF IsFirst

\* The type a name stands for is a symbol of that name and no twin.
IsType(W, one, name) ==
    /\ one[1] \in Symbol /\ one[1].name = name
    /\ ~Types!is_twin_member(one[1], Types!named(W, name))

LEMMA TypeTargetIsNoTwin ==
    ASSUME NEW W, IsTypeWorld(W), NEW name, Types!find_type_target(W, name) # <<>>
    PROVE  IsType(W, Types!find_type_target(W, name), name)
  <1> DEFINE cands == Types!named(W, name)
             fit == Types!Labelled(cands, Types!TypeLike)
             one == Types!find_type_target(W, name)
             t == fit[1]
  <1>1. /\ one = Types!FirstOf(cands, Types!TypeLike)
        /\ ~(Len(fit) > 1 /\ Types!is_twin_member(t, cands))
    BY DEF Types!find_type_target
  <1>2. /\ cands \in Seq(Symbol)
        /\ \A e \in Held(cands) : e \in Symbol /\ e.name = name
    BY NamedTyped
  <1>3. fit \in Seq(Symbol) /\ Held(fit) = {e \in Held(cands) : e.label \in Types!TypeLike}
    BY <1>2, LabelledHolds
  <1>4. one = IF fit = <<>> THEN <<>> ELSE <<t>>
    BY <1>1 DEF Types!FirstOf
  <1>5. fit # <<>> /\ one = <<t>>
    BY <1>4
  <1>6. t \in Held(fit) /\ Len(fit) >= 1
    BY <1>3, <1>5, HeldOfNone
  <1>7. ~Types!is_twin_member(t, cands)
    <2> SUFFICES ASSUME Types!is_twin_member(t, cands) PROVE FALSE
      OBVIOUS
    <2>1. PICK o \in Types!Range(cands) : o # t /\ o.label = t.label
      BY DEF Types!is_twin_member
    <2>2. o \in Held(fit)
      BY <1>2, <1>3, <1>6, <2>1, HeldIsRange
    <2>3. PICK i \in 1 .. Len(fit) : o = fit[i]
      BY <2>2 DEF Held
    <2>4. i # 1
      BY <2>1, <2>3
    <2>5. Len(fit) > 1
      BY <1>3, <2>3, <2>4
    <2> QED BY <1>1, <2>5
  <1>8. t \in Symbol /\ t.name = name
    BY <1>2, <1>3, <1>6
  <1>9. one[1] = t
    BY <1>5
  <1> QED BY <1>7, <1>8, <1>9 DEF IsType

\* What the policy resolves to is one of the candidates.
LEMMA PolicyChooses ==
    ASSUME NEW W, NEW cands, NEW key, NEW imports, NEW file, NEW package,
           Types!policy(W, cands, key, imports, file, package).is = "resolved"
    PROVE  Types!policy(W, cands, key, imports, file, package).target \in cands
  <1> DEFINE res == Types!policy(W, cands, key, imports, file, package)
  <1>1. ASSUME NEW S, NEW ev, Types!One(S, ev).is = "resolved"
        PROVE  Types!One(S, ev).target \in S
    <2>1. S # {}
      BY <1>1 DEF Types!One, Types!NotFound
    <2>2. Types!One(S, ev) # Types!Ambiguous(S)
      BY <1>1 DEF Types!Ambiguous
    <2>3. Types!One(S, ev) = Types!Resolved(CHOOSE c \in S : TRUE, ev)
      BY <2>1, <2>2 DEF Types!One
    <2> QED BY <2>1, <2>3 DEF Types!Resolved
  <1>2. Types!Ambiguous(cands).is # "resolved"
    BY DEF Types!Ambiguous
  <1>3. \E S \in SUBSET cands : \E ev : res = Types!One(S, ev)
    <2> DEFINE imp == {c \in cands : Types!import_matches(W, key[c], imports)}
               own == {c \in cands : Types!Starts(key[c], file)}
               pkg == {c \in cands : package # <<>> /\ Types!Starts(key[c], package)}
    <2>1. \/ res = Types!One(cands, "UniqueGlobal") \/ res = Types!One(imp, "ImportMatch")
          \/ res = Types!One(own, "SameFileUnique") \/ res = Types!One(pkg, "PackageProximity")
          \/ res = Types!Ambiguous(cands)
      BY DEF Types!policy
    <2>2. cands \subseteq cands /\ imp \subseteq cands /\ own \subseteq cands /\ pkg \subseteq cands
      OBVIOUS
    <2> HIDE DEF imp, own, pkg, res
    <2>3. res # Types!Ambiguous(cands)
      BY <1>2 DEF res
    <2> QED BY <2>1, <2>2, <2>3
  <1> HIDE DEF res
  <1>4. PICK S \in SUBSET cands : \E ev : res = Types!One(S, ev)
    BY <1>3
  <1>5. res.is = "resolved"
    BY DEF res
  <1>6. res.target \in S
    <2>1. PICK ev : res = Types!One(S, ev)
      BY <1>4
    <2> QED BY <1>1, <1>5, <2>1
  <1> QED BY <1>6 DEF res

LEMMA EdgeIsSound ==
    ASSUME NEW W, NEW a \in TypeKinds, NEW b \in RowLabels, NEW c \in RowLabels,
           NEW from \in Seq(STRING), NEW to \in Symbol,
           a \in {"Implements", "Uses"} =>
               ~Types!is_twin_member(to, Types!named(W, to.name))
    PROVE  /\ Types!Edge(<<a, b, c>>, from, to) \in SoundEdge(W)
           /\ <<Types!Edge(<<a, b, c>>, from, to)>> \in Seq(SoundEdge(W))
  <1> DEFINE e == Types!Edge(<<a, b, c>>, from, to)
             t == <<a, b, c>>
  <1>1. t \in TypeTables /\ t[1] = a
    BY DEF TypeTables
  <1>2. e = [table |-> t, from |-> from, to |-> to]
    BY DEF Types!Edge
  <1> HIDE DEF e, t
  <1>3. /\ e \in [table : TypeTables, from : Seq(STRING), to : Symbol]
        /\ e.table = t /\ e.to = to
    BY <1>1, <1>2
  <1>4. e.table[1] \in {"Implements", "Uses"} =>
           ~Types!is_twin_member(e.to, Types!named(W, e.to.name))
    BY <1>1, <1>3
  <1>5. e \in SoundEdge(W)
    BY <1>3, <1>4 DEF SoundEdge
  <1>6. <<e>> \in Seq(SoundEdge(W))
    BY <1>5
  <1> QED BY <1>5, <1>6 DEF e, t

LEMMA NamesTyped ==
    ASSUME NEW e \in Symbol
    PROVE  Types!qualified_name(e) \in Seq(STRING) /\ e.label \in RowLabels /\ <<e.file>> \in Seq(STRING)
  BY DEF Symbol, Types!qualified_name

\* Imports.  An edge of an import leads to what its path or its last segment names.
Answered(i, e) ==
    /\ e.table[1] = "Imports" /\ e.from = <<i.file>>
    /\ IF i.glob THEN <<e.to.file>> \o e.to.mods = i.path ELSE e.to.name = Types!last(i.path)
Marked(t, i) == t.resolved > 0 => \E e \in Held(t.adds) : Answered(i, e)

LEMMA MissingIsUnmarked ==
    ASSUME NEW W, NEW i, NEW kind \in TypeKinds, NEW from \in STRING \cup Seq(STRING), NEW why \in Reasons
    PROVE  /\ Types!Missing(kind, from, why) \in Balanced(W)
           /\ Marked(Types!Missing(kind, from, why), i)
  <1>1. /\ Types!Missing(kind, from, why) \in Balanced(W)
        /\ Yields(Types!Missing(kind, from, why), 0, <<>>)
    BY MissingIsBalanced
  <1>2. Types!Missing(kind, from, why).resolved = 0
    BY <1>1 DEF Yields
  <1> QED BY <1>1, <1>2 DEF Marked

LEMMA ModuleTyped ==
    ASSUME NEW W, IsTypeWorld(W), NEW path
    PROVE  /\ Types!by_parent_module(W, path) \in Seq(Symbol)
           /\ \A e \in Held(Types!by_parent_module(W, path)) : <<e.file>> \o e.mods = path
  <1> DEFINE all == Types!symbols(W)
             S == {e \in Types!Range(all) : e.label # "File" /\ <<e.file>> \o e.mods = path}
  <1>1. all \in Seq(Symbol)
    BY SymbolsTyped
  <1>2. Types!by_parent_module(W, path) = Types!Among(all, S)
    BY DEF Types!by_parent_module
  <1>3. \A e \in S : <<e.file>> \o e.mods = path
    OBVIOUS
  <1> HIDE DEF all, S
  <1>4. /\ Types!by_parent_module(W, path) \in Seq(Symbol)
        /\ Held(Types!by_parent_module(W, path)) = Held(all) \cap S
    BY <1>1, <1>2, AmongHolds
  <1> QED BY <1>3, <1>4

LEMMA GlobImport ==
    ASSUME NEW W, IsTypeWorld(W), NEW i \in ImportRow, i.glob
    PROVE  /\ Types!resolve_glob_import(W, i) \in Balanced(W)
           /\ Marked(Types!resolve_glob_import(W, i), i)
  <1> DEFINE mod == Types!by_parent_module(W, i.path)
             one(e) == Types!Edge(<<"Imports", "File", e.label>>, <<i.file>>, e)
             adds == [k \in DOMAIN mod |-> one(mod[k])]
             t == Types!resolve_glob_import(W, i)
  <1>1. t = Types!Tally(Len(adds), Len(adds), <<>>, adds)
    BY DEF Types!resolve_glob_import
  <1>2. /\ mod \in Seq(Symbol)
        /\ \A e \in Held(mod) : <<e.file>> \o e.mods = i.path
    BY ModuleTyped
  <1>3. <<i.file>> \in Seq(STRING)
    BY DEF ImportRow
  <1>4. ASSUME NEW e \in Symbol PROVE one(e) \in SoundEdge(W)
    <2>1. e.label \in RowLabels /\ "Imports" \in TypeKinds /\ "File" \in RowLabels
      BY NamesTyped DEF TypeKinds, RowLabels
    <2> QED BY <1>3, <2>1, EdgeIsSound
  <1>5. ASSUME NEW e \in Held(mod) PROVE Answered(i, one(e))
    <2> DEFINE tab == <<"Imports", "File", e.label>>
               x == one(e)
    <2>1. x = [table |-> tab, from |-> <<i.file>>, to |-> e] /\ tab[1] = "Imports"
      BY DEF Types!Edge
    <2> HIDE DEF x, tab
    <2>2. x.table[1] = "Imports" /\ x.from = <<i.file>> /\ x.to = e
      BY <2>1
    <2>3. Answered(i, x)
      BY <1>2, <2>2 DEF Answered
    <2> QED BY <2>3 DEF x
  <1> HIDE DEF mod, one, t
  <1>6. /\ DOMAIN mod = 1 .. Len(mod) /\ Len(mod) \in Nat
        /\ \A k \in 1 .. Len(mod) : mod[k] \in Symbol /\ mod[k] \in Held(mod)
    BY <1>2 DEF Held
  <1>7. /\ adds \in Seq(SoundEdge(W)) /\ Len(adds) = Len(mod)
        /\ \A k \in 1 .. Len(mod) : adds[k] = one(mod[k])
    BY <1>4, <1>6
  <1> HIDE DEF adds
  <1>8. <<>> \in Seq(OpenRef) /\ Len(adds) \in Nat /\ Len(adds) + Len(<<>>) = Len(adds)
    BY <1>6, <1>7
  <1>9. t \in Balanced(W) /\ Yields(t, Len(adds), adds)
    BY <1>1, <1>7, <1>8, TallyIsBalanced, Zenon
  <1>10. Marked(t, i)
    <2> SUFFICES ASSUME Len(adds) > 0 PROVE \E e \in Held(adds) : Answered(i, e)
      BY <1>9 DEF Marked, Yields
    <2>1. 1 \in 1 .. Len(mod)
      BY <1>6, <1>7
    <2>2. adds[1] = one(mod[1]) /\ mod[1] \in Held(mod) /\ adds[1] \in Held(adds)
      BY <1>6, <1>7, <2>1 DEF Held
    <2>3. Answered(i, adds[1])
      BY <1>5, <2>2
    <2> QED BY <2>2, <2>3
  <1> QED BY <1>9, <1>10 DEF t

LEMMA SingleImport ==
    ASSUME NEW W, IsTypeWorld(W), NEW i \in ImportRow, ~i.glob
    PROVE  /\ Types!resolve_single_import(W, i) \in Balanced(W)
           /\ Marked(Types!resolve_single_import(W, i), i)
  <1> DEFINE name == Types!last(i.path)
             cands == Types!Range(Types!named(W, name))
             key == [c \in cands |-> Types!qualified_name(c)]
             res == Types!policy(W, cands, key, {i.path}, <<i.file>>, <<>>)
             tab == <<"Imports", "File", res.target.label>>
             x == Types!Edge(tab, <<i.file>>, res.target)
             t == Types!resolve_single_import(W, i)
  <1>1. t = IF res.is # "resolved" THEN Types!Missing("Imports", i.id, "no target")
            ELSE IF tab \notin Types!RelTables THEN Types!Missing("Imports", i.id, "no table")
            ELSE Types!Found(<<x>>)
    BY DEF Types!resolve_single_import
  <1>2. i.id \in STRING /\ <<i.file>> \in Seq(STRING)
    BY DEF ImportRow
  <1>3. \A e \in cands : e \in Symbol /\ e.name = name
    BY NamedTyped, HeldIsRange
  <1>4. CASE res.is = "resolved"
    <2> DEFINE to == res.target
    <2>1. to \in Symbol /\ to.name = name
      BY <1>3, <1>4, PolicyChooses
    <2>2. to.label \in RowLabels /\ "Imports" \in TypeKinds /\ "File" \in RowLabels
      BY <2>1, NamesTyped DEF TypeKinds, RowLabels
    <2>3. x = [table |-> tab, from |-> <<i.file>>, to |-> to] /\ tab[1] = "Imports"
      BY DEF Types!Edge
    <2> HIDE DEF res, to
    <2>4. <<x>> \in Seq(SoundEdge(W))
      BY <1>2, <2>1, <2>2, EdgeIsSound DEF to
    <2> HIDE DEF x, tab, name
    <2>5. Answered(i, x)
      <3>1. x.table[1] = "Imports" /\ x.from = <<i.file>> /\ x.to = to
        BY <2>3
      <3> QED BY <2>1, <3>1 DEF Answered, name
    <2>6. /\ Types!Found(<<x>>) \in Balanced(W)
          /\ Yields(Types!Found(<<x>>), 1, <<x>>)
      BY <2>4, FoundIsBalanced
    <2>7. Marked(Types!Found(<<x>>), i)
      <3>1. Types!Found(<<x>>).adds = <<x>>
        BY <2>6 DEF Yields
      <3>2. x \in Held(<<x>>)
        BY DEF Held
      <3> QED BY <2>5, <3>1, <3>2 DEF Marked
    <2>8. /\ Types!Missing("Imports", i.id, "no table") \in Balanced(W)
          /\ Marked(Types!Missing("Imports", i.id, "no table"), i)
      <3>1. "Imports" \in TypeKinds /\ "no table" \in Reasons
        BY DEF TypeKinds, Reasons
      <3> QED BY <1>2, <3>1, MissingIsUnmarked
    <2>9. t = IF tab \notin Types!RelTables THEN Types!Missing("Imports", i.id, "no table")
              ELSE Types!Found(<<x>>)
      BY <1>1, <1>4
    <2> HIDE DEF t
    <2>10. t \in Balanced(W) /\ Marked(t, i)
      BY <2>6, <2>7, <2>8, <2>9
    <2> QED BY <2>10 DEF t
  <1>5. CASE res.is # "resolved"
    <2>1. /\ Types!Missing("Imports", i.id, "no target") \in Balanced(W)
          /\ Marked(Types!Missing("Imports", i.id, "no target"), i)
      <3>1. "Imports" \in TypeKinds /\ "no target" \in Reasons
        BY DEF TypeKinds, Reasons
      <3> QED BY <1>2, <3>1, MissingIsUnmarked
    <2>2. t = Types!Missing("Imports", i.id, "no target")
      BY <1>1, <1>5
    <2> QED BY <2>1, <2>2
  <1> QED BY <1>4, <1>5

LEMMA OneImport ==
    ASSUME NEW W, IsTypeWorld(W), NEW i \in ImportRow
    PROVE  /\ Types!resolve_one_import(W, i) \in Balanced(W)
           /\ Marked(Types!resolve_one_import(W, i), i)
  <1>1. i.id \in STRING /\ i.glob \in BOOLEAN /\ i.external \in BOOLEAN
    BY DEF ImportRow
  <1>2. CASE i.external
    <2>1. Types!resolve_one_import(W, i) = Types!Missing("Imports", i.id, Types!External)
      BY <1>2 DEF Types!resolve_one_import
    <2>2. Types!External \in Reasons
      BY DEF Types!External, Reasons
    <2>3. "Imports" \in TypeKinds
      BY DEF TypeKinds
    <2> QED BY <1>1, <2>1, <2>2, <2>3, MissingIsUnmarked
  <1>3. CASE ~i.external /\ i.glob
    BY <1>3, GlobImport DEF Types!resolve_one_import
  <1>4. CASE ~i.external /\ ~i.glob
    BY <1>4, SingleImport DEF Types!resolve_one_import
  <1> QED BY <1>1, <1>2, <1>3, <1>4

\* Traits.  A trait found under its own name, no twin of another, gives a sound edge.
LEMMA LocalTrait ==
    ASSUME NEW W, IsTypeWorld(W), NEW sought, NEW label \in RowLabels, NEW from \in Seq(STRING),
           NEW one, one = Types!FirstOf(Types!named(W, sought), {"Trait"}), one # <<>>,
           ~Types!is_twin_member(one[1], Types!named(W, sought))
    PROVE  Types!Found(<<Types!Edge(<<"Implements", label, "Trait">>, from, one[1])>>) \in Balanced(W)
  <1> DEFINE cands == Types!named(W, sought)
             to == one[1]
             x == Types!Edge(<<"Implements", label, "Trait">>, from, to)
  <1>1. /\ cands \in Seq(Symbol)
        /\ \A e \in Held(cands) : e \in Symbol /\ e.name = sought
    BY NamedTyped
  <1>2. to \in Held(cands)
    BY <1>1, FirstIsOne DEF IsFirst
  <1>3. to \in Symbol /\ to.name = sought
    BY <1>1, <1>2
  <1>4. ~Types!is_twin_member(to, Types!named(W, to.name))
    BY <1>3
  <1>5. "Implements" \in TypeKinds /\ "Trait" \in RowLabels
    BY DEF TypeKinds, RowLabels
  <1> HIDE DEF to
  <1>6. <<x>> \in Seq(SoundEdge(W))
    BY <1>3, <1>4, <1>5, EdgeIsSound
  <1> HIDE DEF x
  <1>7. Types!Found(<<x>>) \in Balanced(W)
    BY <1>6, FoundIsBalanced
  <1> QED BY <1>7 DEF x, to

LEMMA BaseReason ==
    ASSUME NEW W, NEW of, NEW sought PROVE Types!unresolved_base_reason(W, of, sought) \in Reasons
  BY DEF Types!unresolved_base_reason, Types!External, Reasons

\* What a derive gives: symbols of the standard library, which have no twins.
LEMMA StdTraits ==
    ASSUME NEW W, NEW label \in RowLabels, NEW from \in Seq(STRING), NEW ds \in Seq(STRING)
    PROVE  Types!Found([k \in DOMAIN ds |->
               Types!Edge(<<"Implements", label, "StdlibSymbol">>, from, Types!StdSymbol(ds[k]))])
             \in Balanced(W)
  <1> DEFINE one(d) == Types!Edge(<<"Implements", label, "StdlibSymbol">>, from, Types!StdSymbol(d))
             std == [k \in DOMAIN ds |-> one(ds[k])]
  <1>1. ASSUME NEW d \in STRING PROVE one(d) \in SoundEdge(W)
    <2> DEFINE to == Types!StdSymbol(d)
    <2>1. to = [file |-> d, mods |-> <<>>, name |-> d, text |-> d, label |-> "StdlibSymbol"]
      BY DEF Types!StdSymbol
    <2>2. "Implements" \in TypeKinds /\ "StdlibSymbol" \in RowLabels /\ <<>> \in Seq(STRING)
      BY DEF TypeKinds, RowLabels
    <2>3. to \in Symbol /\ to.text = to.name
      BY <2>1, <2>2 DEF Symbol
    <2> HIDE DEF to
    <2>4. ~Types!is_twin_member(to, Types!named(W, to.name))
      BY <2>3 DEF Types!is_twin_member
    <2>5. Types!Edge(<<"Implements", label, "StdlibSymbol">>, from, to) \in SoundEdge(W)
      BY <2>2, <2>3, <2>4, EdgeIsSound
    <2> QED BY <2>5 DEF to
  <1> HIDE DEF one
  <1>2. DOMAIN ds = 1 .. Len(ds) /\ Len(ds) \in Nat /\ \A k \in 1 .. Len(ds) : ds[k] \in STRING
    OBVIOUS
  <1>3. std \in Seq(SoundEdge(W))
    <2> DEFINE E == SoundEdge(W)
    <2>1. \A k \in 1 .. Len(ds) : one(ds[k]) \in E
      BY <1>1, <1>2
    <2> HIDE DEF E
    <2>2. std = [k \in 1 .. Len(ds) |-> one(ds[k])] /\ Len(ds) \in Nat
      BY <1>2
    <2> HIDE DEF std
    <2>3. std \in Seq(E)
      BY <2>1, <2>2
    <2> QED BY <2>3 DEF E
  <1> HIDE DEF std
  <1>4. Types!Found(std) \in Balanced(W)
    BY <1>3, FoundIsBalanced
  <1> QED BY <1>4 DEF std, one

LEMMA OneImplements ==
    ASSUME NEW W, IsTypeWorld(W), NEW e \in Symbol, NEW n
    PROVE  Types!resolve_one_implements(W, e, n) \in Balanced(W)
  <1> DEFINE sought == Types!import_last_segment(W, n)
             cands == Types!named(W, sought)
             local == Types!FirstOf(cands, {"Trait"})
             qn == Types!qualified_name(e)
             missing == Types!Missing("Implements", qn, Types!unresolved_base_reason(W, e, sought))
             ds == W.derives[n.text]
             std == [k \in DOMAIN ds |->
                       Types!Edge(<<"Implements", e.label, "StdlibSymbol">>, qn,
                                  Types!StdSymbol(ds[k]))]
             hit == Types!Found(<<Types!Edge(<<"Implements", e.label, "Trait">>, qn, local[1])>>)
             t == Types!resolve_one_implements(W, e, n)
  <1>1. t = IF local # <<>>
            THEN IF Types!is_twin_member(local[1], cands) THEN missing ELSE hit
            ELSE IF n.text \notin DOMAIN W.derives \/ std = <<>> THEN missing
            ELSE Types!Found(std)
    BY DEF Types!resolve_one_implements
  <1>2. qn \in Seq(STRING) /\ e.label \in RowLabels
    BY NamesTyped
  <1>3. missing \in Balanced(W)
    <2>1. "Implements" \in TypeKinds
      BY DEF TypeKinds
    <2> HIDE DEF sought, qn
    <2> QED BY <1>2, <2>1, BaseReason, MissingIsBalanced
  <1>4. ASSUME local # <<>>, ~Types!is_twin_member(local[1], cands) PROVE hit \in Balanced(W)
    <2> HIDE DEF qn, sought
    <2> QED BY <1>2, <1>4, LocalTrait
  <1>5. ASSUME n.text \in DOMAIN W.derives PROVE Types!Found(std) \in Balanced(W)
    <2>1. ds \in Seq(STRING)
      BY <1>5 DEF IsTypeWorld
    <2> HIDE DEF qn, ds
    <2> QED BY <1>2, <2>1, StdTraits
  <1> HIDE DEF local, cands, missing, std, hit, t
  <1>6. t \in Balanced(W)
    BY <1>1, <1>3, <1>4, <1>5
  <1> QED BY <1>6 DEF t

LEMMA OneBlock ==
    ASSUME NEW W, IsTypeWorld(W), NEW b, b.receiver \in Seq(STRING)
    PROVE  Types!resolve_one_block(W, b) \in Balanced(W)
  <1> DEFINE owners == {e \in Types!by_qn(W, b.receiver) : e.label \in {"Struct", "Enum"}}
             owner == CHOOSE e \in owners : TRUE
             sought == Types!last_segment(b.trait, "::")
             cands == Types!named(W, sought)
             local == Types!FirstOf(cands, {"Trait"})
             none == Types!Tally(0, 0, <<>>, <<>>)
             missing == Types!Missing("Implements", b.receiver, "no_target_in_corpus")
             hit == Types!Found(<<Types!Edge(<<"Implements", owner.label, "Trait">>,
                                             b.receiver, local[1])>>)
             t == Types!resolve_one_block(W, b)
  <1>1. t = IF owners = {} THEN none
            ELSE IF local = <<>> \/ Types!is_twin_member(local[1], cands) THEN missing
            ELSE hit
    BY DEF Types!resolve_one_block
  <1>2. none \in Balanced(W)
    BY NothingIsBalanced
  <1>3. missing \in Balanced(W)
    <2>1. "Implements" \in TypeKinds /\ "no_target_in_corpus" \in Reasons
      BY DEF TypeKinds, Reasons
    <2> QED BY <2>1, MissingIsBalanced
  <1>4. ASSUME owners # {}, local # <<>>, ~Types!is_twin_member(local[1], cands)
        PROVE  hit \in Balanced(W)
    <2>1. owner.label \in {"Struct", "Enum"}
      BY <1>4
    <2>2. owner.label \in RowLabels
      BY <2>1 DEF RowLabels
    <2> HIDE DEF owner, sought
    <2> QED BY <1>4, <2>2, LocalTrait
  <1> HIDE DEF owners, local, cands, none, missing, hit, t
  <1>5. t \in Balanced(W)
    BY <1>1, <1>2, <1>3, <1>4
  <1> QED BY <1>5 DEF t

\* Bases and types.  A base is the first of its name, twin or not.
LEMMA OneExtends ==
    ASSUME NEW W, IsTypeWorld(W), NEW e \in Symbol, NEW n
    PROVE  Types!resolve_one_extends_base(W, e, n) \in Balanced(W)
  <1> DEFINE sought == Types!last_segment(n, ".")
             cands == Types!named(W, sought)
             own == Types!FirstOf(cands, {e.label})
             target == IF own # <<>> THEN own[1] ELSE cands[1]
             table == <<"Extends", e.label, target.label>>
             qn == Types!qualified_name(e)
             missing == Types!Missing("Extends", qn, Types!unresolved_base_reason(W, e, sought))
             refused == Types!Missing("Extends", qn, "no_rel_table")
             hit == Types!Found(<<Types!Edge(table, qn, target)>>)
             t == Types!resolve_one_extends_base(W, e, n)
  <1>1. t = IF cands = <<>> THEN missing ELSE IF table \notin Types!RelTables THEN refused ELSE hit
    BY DEF Types!resolve_one_extends_base
  <1>2. qn \in Seq(STRING) /\ e.label \in RowLabels
    BY NamesTyped
  <1>3. "Extends" \in TypeKinds /\ "no_rel_table" \in Reasons /\ "Extends" \notin {"Implements", "Uses"}
    BY DEF TypeKinds, Reasons
  <1> HIDE DEF sought, qn
  <1>4. missing \in Balanced(W) /\ refused \in Balanced(W)
    BY <1>2, <1>3, BaseReason, MissingIsBalanced
  <1>5. ASSUME cands # <<>> PROVE hit \in Balanced(W)
    <2>1. /\ cands \in Seq(Symbol)
          /\ \A x \in Held(cands) : x \in Symbol
      BY NamedTyped
    <2>2. target \in Held(cands)
      <3>1. CASE own # <<>>
        BY <2>1, <3>1, FirstIsOne DEF IsFirst
      <3>2. CASE own = <<>>
        BY <1>5, <2>1, <3>2, HeldOfNone
      <3> QED BY <3>1, <3>2
    <2>3. target \in Symbol
      BY <2>1, <2>2
    <2> HIDE DEF target
    <2>4. target.label \in RowLabels
      BY <2>3, NamesTyped
    <2> DEFINE x == Types!Edge(table, qn, target)
    <2>5. <<x>> \in Seq(SoundEdge(W))
      BY <1>2, <1>3, <2>3, <2>4, EdgeIsSound
    <2> HIDE DEF x
    <2>6. Types!Found(<<x>>) \in Balanced(W)
      BY <2>5, FoundIsBalanced
    <2> QED BY <2>6 DEF x
  <1> HIDE DEF cands, table, missing, refused, hit, t
  <1>6. t \in Balanced(W)
    BY <1>1, <1>4, <1>5
  <1> QED BY <1>6 DEF t

LEMMA OneTypeUse ==
    ASSUME NEW W, IsTypeWorld(W), NEW label \in RowLabels, NEW id \in Seq(STRING), NEW name
    PROVE  Types!resolve_one_type_use(W, label, id, name) \in Balanced(W)
  <1> DEFINE one == Types!find_type_target(W, name)
             to == one[1]
             table == <<"Uses", label, to.label>>
             missing == Types!Missing("Uses", id, "type not found")
             refused == Types!Missing("Uses", id, "no table")
             hit == Types!Found(<<Types!Edge(table, id, to)>>)
             t == Types!resolve_one_type_use(W, label, id, name)
  <1>1. t = IF one = <<>> THEN missing ELSE IF table \notin Types!RelTables THEN refused ELSE hit
    BY DEF Types!resolve_one_type_use
  <1>2. "Uses" \in TypeKinds /\ "no table" \in Reasons /\ "type not found" \in Reasons
    BY DEF TypeKinds, Reasons
  <1>3. missing \in Balanced(W) /\ refused \in Balanced(W)
    BY <1>2, MissingIsBalanced
  <1>4. ASSUME one # <<>> PROVE hit \in Balanced(W)
    <2>1. /\ to \in Symbol /\ to.name = name
          /\ ~Types!is_twin_member(to, Types!named(W, name))
      BY <1>4, TypeTargetIsNoTwin DEF IsType
    <2> HIDE DEF to
    <2>2. to.label \in RowLabels /\ ~Types!is_twin_member(to, Types!named(W, to.name))
      BY <2>1, NamesTyped
    <2> DEFINE x == Types!Edge(table, id, to)
    <2>3. <<x>> \in Seq(SoundEdge(W))
      BY <1>2, <2>1, <2>2, EdgeIsSound
    <2> HIDE DEF x
    <2>4. Types!Found(<<x>>) \in Balanced(W)
      BY <2>3, FoundIsBalanced
    <2> QED BY <2>4 DEF x
  <1> HIDE DEF one, table, missing, refused, hit, t
  <1>5. t \in Balanced(W)
    BY <1>1, <1>3, <1>4
  <1> QED BY <1>5 DEF t

LEMMA UsesOfBalanced ==
    ASSUME NEW W, IsTypeWorld(W), NEW label \in RowLabels, NEW id \in Seq(STRING),
           NEW types \in Seq(STRING)
    PROVE  Types!UsesOf(W, label, id, types) \in Balanced(W)
  <1> DEFINE ts == [j \in DOMAIN types |-> Types!resolve_one_type_use(W, label, id, types[j])]
  <1>1. DOMAIN types = 1 .. Len(types)
    OBVIOUS
  <1>2. \A j \in 1 .. Len(types) : ts[j] = Types!resolve_one_type_use(W, label, id, types[j])
    BY <1>1
  <1>3. ts = [j \in DOMAIN types |-> ts[j]]
    OBVIOUS
  <1>4. Types!UsesOf(W, label, id, types) = Types!Sum(ts)
    BY DEF Types!UsesOf
  <1> HIDE DEF ts
  <1>5. \A j \in 1 .. Len(types) : ts[j] \in Balanced(W)
    BY <1>2, OneTypeUse
  <1>6. Types!Sum(ts) \in Balanced(W)
    BY <1>3, <1>5, SumOverIsBalanced
  <1> QED BY <1>4, <1>6

LEMMA WordsTyped ==
    ASSUME NEW W, NEW words \in Seq(STRING)
    PROVE  Types!extract_type_identifiers(W, words) \in Seq(STRING)
  BY AmongHolds DEF Types!extract_type_identifiers

\* The listed in the lists of some symbols.
LEMMA DeclaredTyped ==
    ASSUME NEW W, NEW label, NEW lists, W.rows[label] \in Seq(Symbol),
           \A k \in 1 .. Len(W.rows[label]) : lists[W.rows[label][k]] \in Seq(SourceName)
    PROVE  Types!Declared(W, label, lists) \in Seq(Symbol \X SourceName)
  <1> DEFINE rows == W.rows[label]
             of(e) == [j \in 1 .. Len(lists[e]) |-> <<e, lists[e][j]>>]
             ss == [k \in 1 .. Len(rows) |-> of(rows[k])]
             P == Symbol \X SourceName
  <1>1. /\ Len(rows) \in Nat /\ \A k \in 1 .. Len(rows) : rows[k] \in Symbol
        /\ Len(ss) = Len(rows) /\ \A k \in 1 .. Len(rows) : ss[k] = of(rows[k])
    OBVIOUS
  <1>2. ASSUME NEW k \in 1 .. Len(rows) PROVE of(rows[k]) \in Seq(P)
    <2> DEFINE e == rows[k]
               s == lists[e]
    <2>1. e \in Symbol /\ s \in Seq(SourceName)
      BY <1>1
    <2> HIDE DEF e, s, rows
    <2>2. Len(s) \in Nat /\ \A j \in 1 .. Len(s) : <<e, s[j]>> \in P
      BY <2>1
    <2> HIDE DEF P
    <2>3. [j \in 1 .. Len(s) |-> <<e, s[j]>>] \in Seq(P)
      BY <2>2
    <2> QED BY <2>3 DEF e, s
  <1>3. Types!Declared(W, label, lists) = Types!Concat(ss)
    BY DEF Types!Declared
  <1> HIDE DEF ss, of, rows, P
  <1>4. Types!Concat(ss) \in Seq(P)
    BY <1>1, <1>2, ConcatHolds
  <1> QED BY <1>3, <1>4 DEF P

\* The phases.
LEMMA ImportsAreBalanced ==
    ASSUME NEW W, IsTypeWorld(W)
    PROVE  /\ Types!resolve_imports(W) \in Balanced(W)
           /\ \A i \in Held(W.imports) : Marked(Types!resolve_one_import(W, i), i)
           /\ \A i \in Held(W.imports) :
                 Held(Types!resolve_one_import(W, i).adds) \subseteq Held(Types!resolve_imports(W).adds)
  <1> DEFINE s == W.imports
             ts == [k \in DOMAIN s |-> Types!resolve_one_import(W, s[k])]
  <1>1. s \in Seq(ImportRow)
    BY DEF IsTypeWorld
  <1> HIDE DEF s
  <1>2. DOMAIN s = 1 .. Len(s) /\ \A k \in 1 .. Len(s) : s[k] \in ImportRow
    BY <1>1
  <1>3. \A k \in 1 .. Len(s) : ts[k] = Types!resolve_one_import(W, s[k])
    BY <1>2
  <1>4. ts = [k \in DOMAIN s |-> ts[k]]
    OBVIOUS
  <1>5. Types!resolve_imports(W) = Types!Sum(ts)
    BY DEF Types!resolve_imports, s
  <1> HIDE DEF ts
  <1>6. \A k \in 1 .. Len(s) : ts[k] \in Balanced(W) /\ Marked(ts[k], s[k])
    BY <1>2, <1>3, OneImport
  <1>7. /\ Types!Sum(ts) \in Balanced(W)
        /\ \A k \in 1 .. Len(s) : Held(ts[k].adds) \subseteq Held(Types!Sum(ts).adds)
    BY <1>1, <1>4, <1>6, SumOverIsBalanced
  <1>8. ASSUME NEW i \in Held(s)
        PROVE  /\ Marked(Types!resolve_one_import(W, i), i)
               /\ Held(Types!resolve_one_import(W, i).adds) \subseteq Held(Types!resolve_imports(W).adds)
    <2>1. PICK k \in 1 .. Len(s) : i = s[k]
      BY DEF Held
    <2> QED BY <1>3, <1>5, <1>6, <1>7, <2>1
  <1> QED BY <1>5, <1>7, <1>8 DEF s

\* The rows of a type's table.
LEMMA RowsTyped ==
    ASSUME NEW W, IsTypeWorld(W), NEW l \in {"Struct", "Enum", "Trait"}
    PROVE  /\ Types!Declared(W, l, W.bases) \in Seq(Symbol \X SourceName)
           /\ l # "Trait" => Types!Declared(W, l, W.implements) \in Seq(Symbol \X SourceName)
  <1>1. l \in Types!Range(Types!IndexedLabels)
    <2>1. /\ DOMAIN Types!IndexedLabels = 1 .. 9
          /\ Types!IndexedLabels[3] = "Struct" /\ Types!IndexedLabels[4] = "Enum"
          /\ Types!IndexedLabels[5] = "Trait"
      BY DEF Types!IndexedLabels
    <2>2. 3 \in 1 .. 9 /\ 4 \in 1 .. 9 /\ 5 \in 1 .. 9
      OBVIOUS
    <2> QED BY <2>1, <2>2 DEF Types!Range
  <1>2. W.rows[l] \in Seq(Symbol)
    BY <1>1 DEF IsTypeWorld
  <1>3. DOMAIN W.rows[l] = 1 .. Len(W.rows[l])
    BY <1>2
  <1>4. \A k \in 1 .. Len(W.rows[l]) :
           /\ W.bases[W.rows[l][k]] \in Seq(SourceName)
           /\ l # "Trait" => W.implements[W.rows[l][k]] \in Seq(SourceName)
    BY <1>3 DEF IsTypeWorld
  <1> QED BY <1>2, <1>4, DeclaredTyped

LEMMA BlocksAreBalanced ==
    ASSUME NEW W, IsTypeWorld(W) PROVE Types!resolve_impl_trait_blocks(W) \in Balanced(W)
  <1> DEFINE s == W.blocks
             ts == [k \in DOMAIN s |-> Types!resolve_one_block(W, s[k])]
  <1>1. s \in Seq(BlockRow)
    BY DEF IsTypeWorld
  <1>2. Types!resolve_impl_trait_blocks(W) = Types!Sum(ts)
    BY DEF Types!resolve_impl_trait_blocks
  <1> HIDE DEF s
  <1>3. DOMAIN s = 1 .. Len(s) /\ \A k \in 1 .. Len(s) : s[k].receiver \in Seq(STRING)
    <2>1. DOMAIN s = 1 .. Len(s) /\ \A k \in 1 .. Len(s) : s[k] \in BlockRow
      BY <1>1
    <2>2. \A b \in BlockRow : b.receiver \in Seq(STRING)
      BY DEF BlockRow
    <2> QED BY <2>1, <2>2
  <1>4. \A k \in 1 .. Len(s) : ts[k] = Types!resolve_one_block(W, s[k])
    BY <1>3
  <1>5. ts = [k \in DOMAIN s |-> ts[k]]
    OBVIOUS
  <1> HIDE DEF ts
  <1>6. \A k \in 1 .. Len(s) : ts[k] \in Balanced(W)
    BY <1>3, <1>4, OneBlock
  <1> QED BY <1>1, <1>2, <1>5, <1>6, SumOverIsBalanced

LEMMA ImplementsAreBalanced ==
    ASSUME NEW W, IsTypeWorld(W) PROVE Types!resolve_implements(W) \in Balanced(W)
  <1> DEFINE P == Symbol \X SourceName
             s == Types!Declared(W, "Struct", W.implements) \o Types!Declared(W, "Enum", W.implements)
             ts == [k \in DOMAIN s |-> Types!resolve_one_implements(W, s[k][1], s[k][2])]
  <1>1. s \in Seq(P)
    BY RowsTyped, HeldOfJoin
  <1>2. Types!resolve_implements(W) = Types!Plus(Types!Sum(ts), Types!resolve_impl_trait_blocks(W))
    BY DEF Types!resolve_implements
  <1> HIDE DEF s
  <1>3. DOMAIN s = 1 .. Len(s) /\ \A k \in 1 .. Len(s) : s[k][1] \in Symbol
    BY <1>1
  <1>4. \A k \in 1 .. Len(s) : ts[k] = Types!resolve_one_implements(W, s[k][1], s[k][2])
    BY <1>3
  <1>5. ts = [k \in DOMAIN s |-> ts[k]]
    OBVIOUS
  <1> HIDE DEF ts
  <1>6. \A k \in 1 .. Len(s) : ts[k] \in Balanced(W)
    BY <1>3, <1>4, OneImplements
  <1>7. Types!Sum(ts) \in Balanced(W)
    BY <1>1, <1>5, <1>6, SumOverIsBalanced
  <1> QED BY <1>2, <1>7, BlocksAreBalanced, PlusIsBalanced

LEMMA ExtendsAreBalanced ==
    ASSUME NEW W, IsTypeWorld(W) PROVE Types!resolve_extends(W) \in Balanced(W)
  <1> DEFINE P == Symbol \X SourceName
             s == Types!Declared(W, "Struct", W.bases) \o Types!Declared(W, "Enum", W.bases)
                    \o Types!Declared(W, "Trait", W.bases)
             ts == [k \in DOMAIN s |-> Types!resolve_one_extends_base(W, s[k][1], s[k][2])]
  <1>1. s \in Seq(P)
    BY RowsTyped, HeldOfJoin
  <1>2. Types!resolve_extends(W) = Types!Sum(ts)
    BY DEF Types!resolve_extends
  <1> HIDE DEF s
  <1>3. DOMAIN s = 1 .. Len(s) /\ \A k \in 1 .. Len(s) : s[k][1] \in Symbol
    BY <1>1
  <1>4. \A k \in 1 .. Len(s) : ts[k] = Types!resolve_one_extends_base(W, s[k][1], s[k][2])
    BY <1>3
  <1>5. ts = [k \in DOMAIN s |-> ts[k]]
    OBVIOUS
  <1> HIDE DEF ts
  <1>6. \A k \in 1 .. Len(s) : ts[k] \in Balanced(W)
    BY <1>3, <1>4, OneExtends
  <1>7. Types!Sum(ts) \in Balanced(W)
    BY <1>1, <1>5, <1>6, SumOverIsBalanced
  <1> QED BY <1>2, <1>7

LEMMA FieldUsesAreBalanced ==
    ASSUME NEW W, IsTypeWorld(W) PROVE Types!resolve_field_type_uses(W) \in Balanced(W)
  <1> DEFINE s == W.fields
             one(f) == Types!UsesOf(W, "Field", f.id, Types!extract_type_identifiers(W, f.types))
             ts == [k \in DOMAIN s |-> one(s[k])]
  <1>1. s \in Seq(FieldRow)
    BY DEF IsTypeWorld
  <1>2. Types!resolve_field_type_uses(W) = Types!Sum(ts)
    BY DEF Types!resolve_field_type_uses
  <1>3. ASSUME NEW f \in FieldRow PROVE one(f) \in Balanced(W)
    <2>1. f.id \in Seq(STRING) /\ f.types \in Seq(STRING)
      BY DEF FieldRow
    <2>2. "Field" \in RowLabels
      BY DEF RowLabels
    <2> QED BY <2>1, <2>2, WordsTyped, UsesOfBalanced
  <1> HIDE DEF s, one
  <1>4. DOMAIN s = 1 .. Len(s) /\ \A k \in 1 .. Len(s) : s[k] \in FieldRow
    BY <1>1
  <1>5. \A k \in 1 .. Len(s) : ts[k] = one(s[k])
    BY <1>4
  <1>6. ts = [k \in DOMAIN s |-> ts[k]]
    OBVIOUS
  <1> HIDE DEF ts
  <1>7. \A k \in 1 .. Len(s) : ts[k] \in Balanced(W)
    BY <1>3, <1>4, <1>5
  <1> QED BY <1>1, <1>2, <1>6, <1>7, SumOverIsBalanced

LEMMA CallableUsesAreBalanced ==
    ASSUME NEW W, IsTypeWorld(W) PROVE Types!resolve_callable_type_uses(W) \in Balanced(W)
  <1> DEFINE s == Types!Labelled(W.callables, {"Function"}) \o Types!Labelled(W.callables, {"Method"})
             ts == [k \in DOMAIN s |-> Types!UsesOfCallable(W, s[k])]
  <1>1. s \in Seq(CallableRow)
    <2>1. W.callables \in Seq(CallableRow)
      BY DEF IsTypeWorld
    <2> QED BY <2>1, LabelledHolds, HeldOfJoin
  <1>2. Types!resolve_callable_type_uses(W) = Types!Sum(ts)
    BY DEF Types!resolve_callable_type_uses
  <1>3. ASSUME NEW f \in CallableRow PROVE Types!UsesOfCallable(W, f) \in Balanced(W)
    <2>1. /\ f.id \in Seq(STRING) /\ f.result \in Seq(STRING) /\ f.built \in Seq(STRING)
          /\ f.label \in RowLabels
      BY DEF CallableRow, RowLabels
    <2> DEFINE a == Types!extract_type_identifiers(W, f.result)
               b == Types!extract_type_identifiers(W, f.built)
    <2>2. a \in Seq(STRING) /\ b \in Seq(STRING)
      BY <2>1, WordsTyped
    <2>3. Types!UsesOfCallable(W, f) = Types!UsesOf(W, f.label, f.id, a \o b)
      BY DEF Types!UsesOfCallable
    <2> HIDE DEF a, b
    <2>4. a \o b \in Seq(STRING)
      BY <2>2, HeldOfJoin
    <2> QED BY <2>1, <2>3, <2>4, UsesOfBalanced
  <1> HIDE DEF s
  <1>4. DOMAIN s = 1 .. Len(s) /\ \A k \in 1 .. Len(s) : s[k] \in CallableRow
    BY <1>1
  <1>5. \A k \in 1 .. Len(s) : ts[k] = Types!UsesOfCallable(W, s[k])
    BY <1>4
  <1>6. ts = [k \in DOMAIN s |-> ts[k]]
    OBVIOUS
  <1> HIDE DEF ts
  <1>7. \A k \in 1 .. Len(s) : ts[k] \in Balanced(W)
    BY <1>3, <1>4, <1>5
  <1> QED BY <1>1, <1>2, <1>6, <1>7, SumOverIsBalanced

\* The pass.  Its phases together are balanced, and add what the imports add.
LEMMA PassIsBalanced ==
    ASSUME NEW W, IsTypeWorld(W)
    PROVE  /\ Types!Sum(Types!run_phases(W)) \in Balanced(W)
           /\ Held(Types!resolve_imports(W).adds) \subseteq Held(Types!Sum(Types!run_phases(W)).adds)
  <1> DEFINE a == Types!resolve_imports(W)
             b == Types!resolve_implements(W)
             c == Types!resolve_extends(W)
             d == Types!resolve_uses(W)
             ts == Types!run_phases(W)
  <1>1. ts = <<a, b, c, d>>
    BY DEF Types!run_phases
  <1>2. d \in Balanced(W)
    BY FieldUsesAreBalanced, CallableUsesAreBalanced, PlusIsBalanced DEF Types!resolve_uses
  <1>3. a \in Balanced(W) /\ b \in Balanced(W) /\ c \in Balanced(W)
    BY ImportsAreBalanced, ImplementsAreBalanced, ExtendsAreBalanced
  <1> HIDE DEF a, b, c, d, ts
  <1>4. /\ Len(ts) = 4 /\ ts[1] = a /\ ts[2] = b /\ ts[3] = c /\ ts[4] = d
    BY <1>1
  <1>5. Len(ts) \in Nat /\ 1 \in 1 .. Len(ts) /\ \A i \in 1 .. Len(ts) : i = 1 \/ i = 2 \/ i = 3 \/ i = 4
    BY <1>4
  <1>6. \A i \in 1 .. Len(ts) : ts[i] \in Balanced(W)
    BY <1>2, <1>3, <1>4, <1>5
  <1>7. /\ Types!Sum(ts) \in Balanced(W)
        /\ \A i \in 1 .. Len(ts) : Held(ts[i].adds) \subseteq Held(Types!Sum(ts).adds)
    BY <1>5, <1>6, SumIsBalanced
  <1>8. Held(a.adds) \subseteq Held(Types!Sum(ts).adds)
    BY <1>4, <1>5, <1>7
  <1> QED BY <1>7, <1>8 DEF ts, a

\* The rows of a first pass are what the phases add, each once; a second writes none.
LEMMA FirstPass ==
    ASSUME NEW W, IsTypeWorld(W)
    PROVE  LET rows == Types!resolve_graph(W, <<>>).rows
           IN  /\ HoldsOnce(rows, SoundEdge(W), Held(Types!Sum(Types!run_phases(W)).adds))
               /\ Types!resolve_graph(W, rows) = Types!resolve_graph(W, <<>>)
  <1> DEFINE E == SoundEdge(W)
             all == Types!Sum(Types!run_phases(W))
             adds == all.adds
             res == Types!into_result(Types!run_phases(W))
             none == {}
             rows == <<>> \o Types!add_all(Types!Range(<<>>), adds)
             more == Types!add_all(Types!Range(rows), adds)
  <1>1. Types!resolve_graph(W, <<>>) = [rows |-> rows, result |-> res]
    BY DEF Types!resolve_graph
  <1>2. adds \in Seq(E)
    BY PassIsBalanced, BalancedParts
  <1> HIDE DEF all, adds, res, E
  <1>3. Types!Range(<<>>) = {}
    BY DEF Types!Range
  <1>4. HoldsOnce(Types!add_all({}, adds), E, Held(adds) \ {})
    BY <1>2, StagedOnce
  <1>5. Types!add_all({}, adds) \in Seq(E) /\ Held(adds) \ {} = Held(adds)
    BY <1>4 DEF HoldsOnce
  <1>6. rows = Types!add_all({}, adds)
    BY <1>3, <1>5
  <1> HIDE DEF rows
  <1>7. HoldsOnce(rows, E, Held(adds))
    BY <1>4, <1>5, <1>6
  <1>8. Types!Range(rows) = Held(adds) /\ rows \in Seq(E)
    BY <1>7, HeldIsRange DEF HoldsOnce
  <1>9. HoldsOnce(more, E, Held(adds) \ Held(adds))
    BY <1>2, <1>8, StagedOnce
  <1> HIDE DEF more
  <1>10. more \in Seq(E) /\ Held(more) = {}
    BY <1>9 DEF HoldsOnce
  <1>11. more = <<>>
    BY <1>10, HeldOfNone
  <1>12. rows \o more = rows
    BY <1>8, <1>11
  <1>13. Types!resolve_graph(W, rows) = [rows |-> rows \o more, result |-> res]
    BY DEF Types!resolve_graph, more, res, adds, all
  <1>14. Types!resolve_graph(W, rows) = Types!resolve_graph(W, <<>>)
    BY <1>1, <1>12, <1>13
  <1>15. Types!resolve_graph(W, <<>>).rows = rows
    BY <1>1
  <1> QED BY <1>7, <1>14, <1>15 DEF E, adds, all

\* A pass counts every reference once, as an edge or as unresolved, stores no edge twice,
\* changes nothing when it is run again, and an import it marks has an edge; no trait that
\* is implemented and no type that is named is one of two twins.
LEMMA PassesSettle ==
    ASSUME NEW W, IsTypeWorld(W) PROVE Types!PassIsSettled(W, {"Implements", "Uses"})
  <1> DEFINE first == Types!resolve_graph(W, <<>>)
             rows == first.rows
             all == Types!Sum(Types!run_phases(W))
  <1>1. /\ HoldsOnce(rows, SoundEdge(W), Held(all.adds))
        /\ Types!resolve_graph(W, rows) = first
    BY FirstPass
  <1>2. first.result.total_edges + Len(first.result.unresolved) = first.result.total_refs
    <2>1. first.result = Types!into_result(Types!run_phases(W))
      BY DEF Types!resolve_graph
    <2>2. first.result = [total_edges |-> all.resolved, total_refs |-> all.total,
                          unresolved |-> all.unresolved]
      BY <2>1 DEF Types!into_result
    <2>3. all.resolved + Len(all.unresolved) = all.total
      BY PassIsBalanced, BalancedParts
    <2> HIDE DEF all, first
    <2> QED BY <2>2, <2>3
  <1>3. /\ rows \in Seq(SoundEdge(W)) /\ Held(rows) = Held(all.adds)
        /\ \A i, j \in 1 .. Len(rows) : rows[i] = rows[j] => i = j
    BY <1>1 DEF HoldsOnce
  <1>4. Types!Range(rows) = Held(all.adds) /\ DOMAIN rows = 1 .. Len(rows)
    BY <1>3, HeldIsRange
  <1>5. Types!mark_nodes_resolved(W)
          = {i \in Held(W.imports) : Types!resolve_one_import(W, i).resolved > 0}
    <2>1. W.imports \in Seq(ImportRow)
      BY DEF IsTypeWorld
    <2>2. Types!Range(W.imports) = Held(W.imports)
      BY <2>1, HeldIsRange
    <2> QED BY <2>2 DEF Types!mark_nodes_resolved
  <1>6. ASSUME NEW i \in Types!mark_nodes_resolved(W)
        PROVE  \E e \in Types!Range(rows) : Answered(i, e)
    <2>1. i \in Held(W.imports) /\ Types!resolve_one_import(W, i).resolved > 0
      BY <1>5
    <2>2. PICK e \in Held(Types!resolve_one_import(W, i).adds) : Answered(i, e)
      BY <2>1, ImportsAreBalanced DEF Marked
    <2>3. e \in Held(all.adds)
      BY <2>1, <2>2, ImportsAreBalanced, PassIsBalanced
    <2> QED BY <1>4, <2>2, <2>3
  <1> HIDE DEF all
  <1>7. \A i, j \in DOMAIN rows : rows[i] = rows[j] => i = j
    BY <1>3, <1>4
  <1>8. \A e \in Types!Range(rows) : e.table[1] \in {"Implements", "Uses"} =>
           ~Types!is_twin_member(e.to, Types!named(W, e.to.name))
    <2>1. Types!Range(rows) \subseteq SoundEdge(W)
      BY <1>3, HeldIsRange
    <2> QED BY <2>1 DEF SoundEdge
  <1> QED BY <1>1, <1>2, <1>6, <1>7, <1>8 DEF Types!PassIsSettled, Types!IsSettled, Answered

\* Every reference a pass over names reads is counted once, no edge is stored twice, a
\* second pass finds the same and writes nothing, and no trait or named type is picked among
\* twins.  Assumed: the pass over base types, which does pick one, is not asked about.
THEOREM TypeEdgesStaySettled ==
    ASSUME PosedTypes, ~TwinBases PROVE TypeEdgesAreSettled
  <1> SUFFICES ASSUME Asked("types")
               PROVE  Types!PassIsSettled(question,
                          {"Implements", "Uses"} \cup {k \in {"Extends"} : TwinBases})
    BY DEF TypeEdgesAreSettled
  <1>1. IsTypeWorld(question)
    BY DEF PosedTypes
  <1>2. {"Implements", "Uses"} \cup {k \in {"Extends"} : TwinBases} = {"Implements", "Uses"}
    OBVIOUS
  <1> QED BY <1>1, <1>2, PassesSettle

-----------------------------------------------------------------------------
(* Receiver calls.                                                           *)

\* An outcome that names no target but one of these.
AnswersFrom(res, cands) ==
    res.is \in {"not_found", "resolved", "ambiguous"} /\ (res.is = "resolved" => res.target \in cands)

\* One candidate resolves to itself.
LEMMA OneOfThem ==
    ASSUME NEW cands, NEW why
    PROVE  AnswersFrom(Calls!One(cands, why), cands)
  <1>1. CASE cands = {}
    BY <1>1 DEF AnswersFrom, Calls!One, Calls!NotFound
  <1>2. CASE cands # {} /\ Calls!Cardinality(cands) = 1
    <2>1. Calls!One(cands, why) = Calls!Resolved(CHOOSE c \in cands : TRUE, why)
      BY <1>2 DEF Calls!One
    <2>2. (CHOOSE c \in cands : TRUE) \in cands
      BY <1>2
    <2> QED BY <2>1, <2>2 DEF AnswersFrom, Calls!Resolved
  <1>3. CASE cands # {} /\ Calls!Cardinality(cands) # 1
    <2>1. Calls!One(cands, why) = Calls!Ambiguous(cands)
      BY <1>3 DEF Calls!One
    <2> QED BY <2>1 DEF AnswersFrom, Calls!Ambiguous
  <1> QED BY <1>1, <1>2, <1>3

\* A gate that answers is no gate that lets the call pass.
LEMMA AnAnswerIsNoPass ==
    ASSUME NEW res, NEW decline, NEW cands, AnswersFrom(res, cands)
    PROVE  Calls!Gate(res, decline) # Calls!Pass
  <1>1. res.is # "pass"
    BY DEF AnswersFrom
  <1>2. Calls!Gate(res, decline).res = res
    BY DEF Calls!Gate
  <1>3. Calls!Pass.res.is = "pass"
    BY DEF Calls!Pass
  <1> QED BY <1>1, <1>2, <1>3

\* A gate whose target, when it names one, sits in an owner of that name.
OwnedBy(g, name) == g.res.is = "resolved" => Calls!owner_name(g.res.target) = name

LEMMA PassIsOwned ==
    ASSUME NEW name PROVE OwnedBy(Calls!Pass, name)
  <1>1. Calls!Pass.res.is = "pass"
    BY DEF Calls!Pass
  <1> QED BY <1>1 DEF OwnedBy

LEMMA NothingFoundIsOwned ==
    ASSUME NEW name, NEW decline
    PROVE  OwnedBy(Calls!Gate(Calls!NotFound, decline), name)
  <1>1. Calls!Gate(Calls!NotFound, decline).res.is = "not_found"
    BY DEF Calls!Gate, Calls!NotFound
  <1> QED BY <1>1 DEF OwnedBy

LEMMA EitherIsOwned ==
    ASSUME NEW name, NEW g, NEW h, OwnedBy(g, name), OwnedBy(h, name)
    PROVE  OwnedBy(Calls!OrElse(g, h), name)
  BY DEF Calls!OrElse

\* The lookup of a hint names only methods of the hinted type.
LEMMA CandidatesAreOwned ==
    ASSUME NEW W, NEW hint, NEW m, NEW decline, NEW res, NEW cands,
           cands \subseteq Calls!local_candidates(W, hint, m), AnswersFrom(res, cands)
    PROVE  OwnedBy(Calls!Gate(res, decline), Calls!last(hint))
  <1>1. Calls!Gate(res, decline).res = res
    BY DEF Calls!Gate
  <1>2. \A e \in cands : Calls!owner_name(e) = Calls!last(hint)
    BY DEF Calls!local_candidates
  <1> QED BY <1>1, <1>2 DEF OwnedBy, AnswersFrom

LEMMA RelabelledAnswers ==
    ASSUME NEW res, NEW cands, AnswersFrom(res, cands)
    PROVE  AnswersFrom(Calls!relabel_as_return_type(res), cands)
  <1>1. CASE res.is = "resolved"
    <2>1. Calls!relabel_as_return_type(res) = Calls!Resolved(res.target, "ReceiverReturnType")
      BY <1>1 DEF Calls!relabel_as_return_type
    <2> QED BY <1>1, <2>1 DEF AnswersFrom, Calls!Resolved
  <1>2. CASE res.is # "resolved"
    BY <1>2 DEF Calls!relabel_as_return_type
  <1> QED BY <1>1, <1>2

\* A tie broken by the caller's own file leaves one of the candidates.
LEMMA TiesStayAmong ==
    ASSUME NEW cands, NEW file
    PROVE  AnswersFrom(Calls!resolve_local_receiver_where(cands, file), cands)
  <1> DEFINE own == {e \in cands : e.file = file}
             kept == IF Calls!Cardinality(cands) > 1 /\ Calls!Cardinality(own) = 1 THEN own ELSE cands
  <1>1. kept \subseteq cands
    OBVIOUS
  <1>2. AnswersFrom(Calls!One(kept, "ReceiverLocalBinding"), kept)
    BY OneOfThem
  <1>3. Calls!resolve_local_receiver_where(cands, file) = Calls!One(kept, "ReceiverLocalBinding")
    BY DEF Calls!resolve_local_receiver_where
  <1> HIDE DEF kept
  <1> QED BY <1>1, <1>2, <1>3 DEF AnswersFrom

\* A rule reads the hint, or the path of the `use` that shows it: the same last name.
LEMMA RulesReadTheHint ==
    ASSUME NEW W, NEW s, s.hint # <<>>, HintIsImported(s), Calls!path_rule(W, s).rule
    PROVE  Calls!last(Calls!path_rule(W, s).hint) = Calls!last(s.hint)
  <1>1. ~ Calls!NoRule.rule
    BY DEF Calls!NoRule
  <1>2. \A path, rt : Calls!WrittenRule(W, s, path, rt).hint = path
    BY DEF Calls!WrittenRule, Calls!NoRule
  <1>3. \A bound : Calls!rule_of_binding(s, bound).rule => Calls!rule_of_binding(s, bound).hint = s.hint
    BY DEF Calls!rule_of_binding, Calls!NoRule
  <1>4. s.via = "local_import" => Calls!last(s.via_path) = Calls!last(s.hint)
    BY DEF HintIsImported
  <1> HIDE DEF HintIsImported
  <1> QED BY <1>1, <1>2, <1>3, <1>4 DEF Calls!path_rule

LEMMA WrittenPathsStayInType ==
    ASSUME NEW W, NEW s, s.hint # <<>>, HintIsImported(s)
    PROVE  OwnedBy(Calls!written_path_gate(W, s), Calls!last(s.hint))
  <1> DEFINE r == Calls!path_rule(W, s)
             cands == {e \in Calls!local_candidates(W, r.hint, s.name) : Calls!kept_by(W, s, r.path, e)}
             res == IF ~r.path.read THEN Calls!NotFound ELSE Calls!resolve_local_receiver_strict(cands)
             answer == IF r.return_type THEN Calls!relabel_as_return_type(res) ELSE res
             decline == IF r.path.read THEN "" ELSE "written_path"
  <1>1. AnswersFrom(res, cands)
    <2>1. AnswersFrom(Calls!NotFound, cands)
      BY DEF AnswersFrom, Calls!NotFound
    <2>2. AnswersFrom(Calls!resolve_local_receiver_strict(cands), cands)
      BY OneOfThem DEF Calls!resolve_local_receiver_strict
    <2> QED BY <2>1, <2>2
  <1>2. AnswersFrom(answer, cands)
    BY <1>1, RelabelledAnswers
  <1>3. OwnedBy(Calls!Gate(answer, decline), Calls!last(r.hint))
    <2>1. cands \subseteq Calls!local_candidates(W, r.hint, s.name)
      OBVIOUS
    <2> HIDE DEF cands, answer, decline, r
    <2> QED BY <1>2, <2>1, CandidatesAreOwned
  <1>4. r.rule => Calls!last(r.hint) = Calls!last(s.hint)
    BY RulesReadTheHint
  <1>5. Calls!written_path_gate(W, s) = IF ~r.rule \/ (r.fallback /\ res = Calls!NotFound)
                                        THEN Calls!Pass ELSE Calls!Gate(answer, decline)
    BY DEF Calls!written_path_gate, Calls!gate_of_rule
  <1> HIDE DEF cands, answer, decline, r, res
  <1>6. CASE ~r.rule \/ (r.fallback /\ res = Calls!NotFound)
    BY <1>5, <1>6, PassIsOwned
  <1>7. CASE ~(~r.rule \/ (r.fallback /\ res = Calls!NotFound))
    BY <1>3, <1>4, <1>5, <1>7
  <1> QED BY <1>6, <1>7

LEMMA HintsStayInType ==
    ASSUME NEW W, NEW s
    PROVE  OwnedBy(Calls!resolve_by_hint(W, s), Calls!last(s.hint))
  <1> DEFINE file == s.caller.file
             constructed == s.via \in {"constructed", "constructed_return"}
             via_return_type == s.via \in {"import", "local_import", "return_type", "constructed_return"}
             alias == \E e \in Calls!by_name(W, Calls!last(s.hint)) : e.label = "TypeAlias"
             crates == IF s.via = "local_import" THEN Calls!CrateScope(W, file, s.via_path) ELSE {}
             cands == Calls!local_candidates(W, s.hint, s.name)
             crated == {e \in cands : Calls!crate_admits(W, crates, e.file)}
             res == IF constructed THEN Calls!resolve_local_receiver_in_file(W, s.hint, s.name, file)
                    ELSE Calls!resolve_local_receiver_where(crated, file)
             answer == IF via_return_type THEN Calls!relabel_as_return_type(res) ELSE res
             decline == IF crates # {} /\ ~constructed /\ res = Calls!NotFound
                        THEN "crate_scope" ELSE ""
  <1>1. AnswersFrom(Calls!resolve_local_receiver_in_file(W, s.hint, s.name, file), cands)
    <2> DEFINE methods == {e \in cands :
                   /\ e.label = "Method" /\ e.mods # <<>> /\ e.file = file
                   /\ \E o \in W.items : /\ o.label \in {"Struct", "Enum"} /\ o.file = e.file
                                         /\ Append(o.mods, o.name) = e.mods}
    <2>1. Calls!resolve_local_receiver_in_file(W, s.hint, s.name, file) =
            Calls!One(methods, "ReceiverLocalBinding")
      BY DEF Calls!resolve_local_receiver_in_file, Calls!resolve_local_receiver_strict
    <2>2. methods \subseteq cands
      OBVIOUS
    <2> HIDE DEF methods
    <2>3. AnswersFrom(Calls!One(methods, "ReceiverLocalBinding"), methods)
      BY OneOfThem
    <2> QED BY <2>1, <2>2, <2>3 DEF AnswersFrom
  <1>2. AnswersFrom(Calls!resolve_local_receiver_where(crated, file), cands)
    <2>1. AnswersFrom(Calls!resolve_local_receiver_where(crated, file), crated)
      BY TiesStayAmong
    <2>2. crated \subseteq cands
      OBVIOUS
    <2> HIDE DEF crated, cands
    <2> QED BY <2>1, <2>2 DEF AnswersFrom
  <1>3. AnswersFrom(res, cands)
    BY <1>1, <1>2
  <1>4. AnswersFrom(answer, cands)
    BY <1>3, RelabelledAnswers
  <1>5. OwnedBy(Calls!Gate(answer, decline), Calls!last(s.hint))
    <2> HIDE DEF answer, decline
    <2> QED BY <1>4, CandidatesAreOwned
  <1>6. Calls!resolve_by_hint(W, s) = IF via_return_type /\ alias
                                      THEN Calls!Gate(Calls!NotFound, "type_alias_return")
                                      ELSE Calls!Gate(answer, decline)
    BY DEF Calls!resolve_by_hint
  <1> HIDE DEF answer, decline, via_return_type, alias
  <1> QED BY <1>5, <1>6, NothingFoundIsOwned

LEMMA ReceiverGateStaysInType ==
    ASSUME NEW W, NEW s, s.hint # <<>>, HintIsImported(s)
    PROVE  OwnedBy(Calls!rust_local_receiver_gate(W, s), Calls!last(s.hint))
  <1> DEFINE built == {e \in Calls!local_candidates(W, s.hint, s.name) :
                          Calls!builds_owner(W, e, s.assoc)}
             by_assoc == Calls!Gate(Calls!resolve_local_receiver_where(built, s.caller.file), "")
             foreign == s.via = "import" /\ s.via_path[1] \notin W.crate_names
             why == IF W.known THEN "foreign" ELSE "unknown_cargo_facts"
             next == IF s.via = "assoc" THEN by_assoc
                     ELSE IF foreign THEN Calls!Gate(Calls!NotFound, why)
                     ELSE Calls!resolve_by_hint(W, s)
  <1>1. OwnedBy(by_assoc, Calls!last(s.hint))
    <2>1. AnswersFrom(Calls!resolve_local_receiver_where(built, s.caller.file), built)
      BY TiesStayAmong
    <2>2. built \subseteq Calls!local_candidates(W, s.hint, s.name)
      OBVIOUS
    <2> HIDE DEF built
    <2> QED BY <2>1, <2>2, CandidatesAreOwned
  <1>2. OwnedBy(Calls!Gate(Calls!NotFound, why), Calls!last(s.hint))
    BY NothingFoundIsOwned
  <1>3. OwnedBy(next, Calls!last(s.hint))
    BY <1>1, <1>2, HintsStayInType
  <1>4. \/ Calls!rust_local_receiver_gate(W, s) = Calls!Pass
        \/ Calls!rust_local_receiver_gate(W, s) = Calls!OrElse(Calls!written_path_gate(W, s), next)
    BY DEF Calls!rust_local_receiver_gate
  <1> HIDE DEF next
  <1> QED BY <1>3, <1>4, PassIsOwned, WrittenPathsStayInType, EitherIsOwned

\* A call on `self`, or on `Self`, in a method.
LEMMA SelfCallsStayInType ==
    ASSUME NEW W, NEW s, s.form \in {"self_value", "self_type"}, s.caller.label = "Method"
    PROVE  OwnedBy(Calls!resolve_single_call(W, s), Calls!owner_name(s.caller))
  <1> DEFINE exact == {e \in Calls!by_name(W, s.name) :
                          e.file = s.caller.file /\ e.mods = s.caller.mods}
             named == {e \in Calls!by_name(W, s.name) :
                          Calls!owner_name(e) = Calls!owner_name(s.caller)}
             cands == IF exact # {} THEN exact ELSE named
             answer == Calls!One(cands, "ReceiverBound")
  <1>1. \A e \in cands : Calls!owner_name(e) = Calls!owner_name(s.caller)
    BY DEF Calls!owner_name
  <1>2. Calls!same_class_receiver_gate(W, s) = Calls!Gate(answer, "")
    BY DEF Calls!same_class_receiver_gate
  <1> HIDE DEF cands
  <1>3. AnswersFrom(answer, cands)
    BY OneOfThem
  <1> HIDE DEF answer
  <1>4. Calls!Gate(answer, "") # Calls!Pass
    BY <1>3, AnAnswerIsNoPass
  <1>5. Calls!resolve_single_call(W, s) = Calls!Gate(answer, "")
    BY <1>2, <1>4, Zenon DEF Calls!resolve_single_call, Calls!OrElse
  <1>6. Calls!Gate(answer, "").res = answer
    BY DEF Calls!Gate
  <1>7. Calls!resolve_single_call(W, s).res = answer
    BY <1>5, <1>6, Zenon
  <1> QED BY <1>1, <1>3, <1>7 DEF OwnedBy, AnswersFrom

\* A call on a local or on an expression, with a hint or without.
LEMMA HintedCallsStayInType ==
    ASSUME NEW W, NEW s, HintIsImported(s), s.form \in {"local", "expr"},
           Calls!resolve_single_call(W, s).res.is = "resolved"
    PROVE  /\ s.hint # <<>>
           /\ OwnedBy(Calls!resolve_single_call(W, s), Calls!last(s.hint))
  <1> DEFINE none == Calls!Gate(Calls!NotFound, "")
             by_receiver == Calls!rust_local_receiver_gate(W, s)
  <1>1. Calls!same_class_receiver_gate(W, s) = Calls!Pass
    BY DEF Calls!same_class_receiver_gate
  <1>2. Calls!resolve_single_call(W, s) = Calls!OrElse(by_receiver, none)
    BY <1>1 DEF Calls!resolve_single_call, Calls!OrElse
  <1>3. s.hint # <<>>
    <2> SUFFICES ASSUME s.hint = <<>> PROVE FALSE
      OBVIOUS
    <2>1. by_receiver = Calls!Pass
      BY DEF Calls!rust_local_receiver_gate
    <2>2. Calls!resolve_single_call(W, s) = none
      BY <1>2, <2>1 DEF Calls!OrElse
    <2>3. none.res.is = "not_found"
      BY DEF Calls!Gate, Calls!NotFound
    <2> QED BY <2>2, <2>3
  <1>4. OwnedBy(by_receiver, Calls!last(s.hint))
    BY <1>3, ReceiverGateStaysInType
  <1>5. OwnedBy(none, Calls!last(s.hint))
    BY NothingFoundIsOwned
  <1> QED BY <1>2, <1>3, <1>4, <1>5, EitherIsOwned

\* A receiver call the resolver ties to a definition goes, in every graph, to a method
\* of the caller's own type or of the type the parser gave the receiver, whichever gate
\* answered it.  Assumed: a type that a `use` of its own crate shows bears its own name.
THEOREM ReceiverCallsStayInType ==
    ASSUME NEW W, NEW s, HintIsImported(s)
    PROVE  Calls!ReceiverOwnsTarget(W, s, Calls!resolve_single_call(W, s))
  <1> DEFINE g == Calls!resolve_single_call(W, s)
  <1> SUFFICES ASSUME g.res.is = "resolved"
               PROVE  /\ s.form \in {"self_value", "self_type"} /\ s.caller.label = "Method"
                            => Calls!owner_name(g.res.target) = Calls!owner_name(s.caller)
                      /\ s.form \in {"local", "expr"}
                            => s.hint # <<>> /\ Calls!owner_name(g.res.target) = Calls!last(s.hint)
    BY DEF Calls!ReceiverOwnsTarget
  <1>1. ASSUME s.form \in {"self_value", "self_type"}, s.caller.label = "Method"
        PROVE  Calls!owner_name(g.res.target) = Calls!owner_name(s.caller)
    BY <1>1, SelfCallsStayInType DEF OwnedBy
  <1>2. ASSUME s.form \in {"local", "expr"}
        PROVE  s.hint # <<>> /\ Calls!owner_name(g.res.target) = Calls!last(s.hint)
    BY <1>2, HintedCallsStayInType DEF OwnedBy
  <1> QED BY <1>1, <1>2

-----------------------------------------------------------------------------
(* Every verdict.                                                            *)

\* The verdicts on claims are right in every world: a PRD's claim fails exactly when the
\* graph refutes it, a gate counts its own file's imports, a PRD is grounded on what its
\* tokens name, and a document's claim is supported or contradicted as every build has it.
\* Assumed: no undecided twins, and no macro that declares the subject of a claim.
THEOREM ClaimVerdictsAreRight ==
    ASSUME PosedClaims PROVE ClaimVerdictsHold
  <1>1. Asked("claim") => HallucinationIsRefuted(world, question)
    BY HallucinationsAreRefuted DEF PosedClaims
  <1>2. Asked("gate") => GateCountsOwnImports(world, GateRow(world))
    BY GatesCountOwnImports DEF PosedClaims
  <1>3. ASSUME Asked("ground")
        PROVE  GroundingIsExact(question.fi, question.d, question.v, question.n, world)
    <2> DEFINE Hits == UNION {Range(world[t]) : t \in DOMAIN world}
    <2>1. /\ world \in [DOMAIN world -> Seq(Hits)]
          /\ question.v \in Seq(DOMAIN world) /\ question.n \in Seq(DOMAIN world)
          /\ question.fi \in BOOLEAN
      BY <1>3 DEF PosedClaims, AreSearches
    <2> HIDE DEF Hits
    <2> QED BY ONLY <2>1, GroundingsAreExact
  <1>4. Asked("count") \/ Asked("public") \/ Asked("enum") => DocVerdictHolds(world, question)
    BY DocVerdictsHold DEF PosedClaims, IsDocQuestion
  <1> QED BY <1>1, <1>2, <1>3, <1>4 DEF ClaimVerdictsHold
=============================================================================
