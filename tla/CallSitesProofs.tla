--------------------------- MODULE CallSitesProofs ---------------------------
(***************************************************************************)
(* What every pass over the call sites keeps, wherever it stops and         *)
(* whatever the language server answers, for all sets of sites, targets and *)
(* files: rows are never doubled, a flag is backed by a row, a reason tells *)
(* an open site, and a refresh takes no resolution away.                    *)
(***************************************************************************)
EXTENDS CallSites, FiniteSetTheorems, TLAPS

-----------------------------------------------------------------------------
(* Types.  A row to the stdlib symbol is a macro's, and the other way round. *)

Callers == {CallerOf[s] : s \in Sites}
Found == {"name", "cfg-selected", "lsp"}
SiteRow == [from : Sites, to : Targets, method : Found]
              \cup [from : MacroSites, to : {Std}, method : {"macro"}]
CallRow == [from : Callers, to : Targets, method : Found]
              \cup [from : Callers, to : {Std}, method : {"macro"}]

Reasons == {"", "outside_build_targets", "no_receiver_type", "cfg_twins", "not_found",
            "macro_site", "external_callee"}

MemType == [saved : SUBSET SiteRow, savedCalls : SUBSET CallRow, ids : SUBSET Sites,
            staged : SUBSET SiteRow, stagedCalls : SUBSET CallRow,
            todo : SUBSET Sites, done : SUBSET (Sites \X Targets), out : SUBSET Sites,
            twins : SUBSET Sites, ext : SUBSET Sites]

SitesTyped ==
    /\ src \subseteq Targets /\ nodes \subseteq Targets /\ here \subseteq Sites
    /\ flag \in [Sites -> BOOLEAN] /\ reason \in [Sites -> Reasons]
    /\ siteRows \subseteq SiteRow /\ callRows \subseteq CallRow
    /\ mem \in MemType
    /\ stops \in Nat
    /\ rowsForm \in BOOLEAN /\ settled \in BOOLEAN
    /\ before \subseteq Sites /\ debt \subseteq Sites

-----------------------------------------------------------------------------
(* Rows.                                                                     *)

Unique(rows) == \A r, q \in rows : r.from = q.from /\ r.to = q.to => r = q
Into(rows, X) == \E r \in rows : r.to \in X
Apart(rows, others) == \A r \in rows : ~Has(others, r.from, r.to)

Refreshing == {"purge", "reparse", "relink"}
Resolving == {"resetCalls", "resetLsp", "reopenLsp", "calls", "callReasons", "macros", "flush"}
Staging == {"callReasons", "macros", "flush"}

RowsOK ==
    /\ Unique(siteRows) /\ Unique(callRows)
    /\ pc \in Refreshing =>
          /\ Unique(mem.saved) /\ Unique(mem.savedCalls)
          /\ \A r \in mem.saved \cup mem.savedCalls : r.to \in In(dirty)
    /\ pc \in {"reparse", "relink"} => ~Into(siteRows, In(dirty)) /\ ~Into(callRows, In(dirty))
    /\ pc \in Resolving => ~Into(siteRows, {Std}) /\ ~Into(callRows, {Std})
    /\ pc \in Staging =>
          /\ Unique(mem.staged) /\ Unique(mem.stagedCalls)
          /\ Apart(mem.staged, siteRows) /\ Apart(mem.stagedCalls, callRows)
    /\ pc \in {"callReasons", "macros"} =>
          ~Into(mem.staged, {Std}) /\ ~Into(mem.stagedCalls, {Std})

RowsInv == SitesTyped /\ RowsOK

-----------------------------------------------------------------------------
(* Flags and reasons.                                                        *)

HasRow(rows, s) == \E r \in rows : r.from = s
Backed(s, rows) == HasRow(rows, s) \/ Callee[s] \cap Rowless # {}

\* A flagged site has its row, a purge is due only where the flag was taken back, and
\* what a pass will count as paid is there.
FlagsOK ==
    /\ \A s \in here : flag[s] = TRUE => s \in debt \/ Backed(s, siteRows)
    /\ pc = "purge" => \A r \in siteRows :
          r.to \in In(dirty) /\ r.from \notin In(dirty) => flag[r.from] = FALSE
    /\ pc = "reparse" => \A s \in In(dirty) \cap Sites : flag[s] = FALSE
    /\ pc \in Staging => \A s \in mem.ids : Backed(s, siteRows \cup mem.staged)
    /\ pc \in {"lsp", "lspReasons"} => \A p \in mem.done : Backed(p[1], siteRows)

\* The sites the language server was not asked about or did not tie to a node.
Asked == mem.todo \cup mem.out \cup mem.twins \cup mem.ext

\* A flagged site that is owed nothing has no reason, and after a complete resolve an
\* open one has its reason.
ReasonsOK ==
    /\ \A s \in here : flag[s] = TRUE /\ s \notin debt => reason[s] = ""
    /\ pc \in Refreshing \cup {"restore"} => \A s \in mem.ids : reason[s] = ""
    /\ pc \in Resolving \ {"flush"} => \A s \in MacroSites : flag[s] = FALSE
    /\ pc \in Staging => mem.ids \subseteq Plain
    /\ pc = "callReasons" => \A s \in mem.ids : flag[s] = TRUE
    /\ pc \in {"macros", "flush"} => \A s \in mem.ids : reason[s] = ""
    /\ pc \in {"callReasons", "macros"} => \A r \in mem.staged : r.from \in mem.ids
    /\ pc = "flush" => \A r \in mem.staged : reason[r.from] = ""
    /\ pc = "macros" => \A s \in here \cap Plain : flag[s] = FALSE => reason[s] # ""
    /\ pc = "flush" => \A s \in here : flag[s] = FALSE => reason[s] # ""
    /\ pc \in {"lsp", "lspReasons", "lspOutside", "lspTwins", "lspExternal"} =>
          \A s \in Asked : flag[s] = FALSE /\ s \notin Wins
    /\ pc = "lsp" => \A s \in mem.todo : s \notin mem.out \cup mem.twins \cup mem.ext
    /\ pc = "lspReasons" => \A s \in Wins : flag[s] = TRUE
    /\ settled = TRUE =>
          /\ pc \in {"idle", "lsp", "lspReasons", "lspOutside", "lspTwins", "lspExternal"}
          /\ pc # "lspReasons" => debt = {}
          /\ pc = "lspReasons" => debt \subseteq Wins
          /\ \A s \in here : flag[s] = FALSE => reason[s] # ""

StateInv == SitesTyped /\ FlagsOK /\ ReasonsOK

-----------------------------------------------------------------------------
(* What a refresh promised to keep.                                          *)

KeepOK ==
    /\ pc \in Refreshing => \A s \in before :
          /\ s \notin In(dirty)
          /\ flag[s] = TRUE \/ s \in mem.ids
          /\ \E r \in siteRows \cup mem.saved :
                /\ r.from = s
                /\ \/ r \in siteRows /\ r.to \notin In(dirty)
                   \/ r \in mem.saved /\ r.to \in src \cap In(dirty)
    /\ pc = "relink" => src \cap In(dirty) \subseteq nodes
    /\ pc = "restore" => \A s \in before :
          (flag[s] = TRUE \/ s \in mem.ids) /\ HasRow(siteRows, s)

KeepInv == SitesTyped /\ KeepOK

-----------------------------------------------------------------------------
(* The answers of the static resolver.                                       *)

\* A site has at most one answer, and it is a node that carries the callee's name.
LEMMA AnswerFacts ==
    ASSUME NEW s
    PROVE  /\ \A a, b \in Answer(s) : a = b
           /\ \A a \in Answer(s) : /\ a.to \in nodes /\ a.to \in Callee[s]
                                   /\ a.method \in {"name", "cfg-selected"}
                                   /\ a = [to |-> a.to, method |-> a.method]
  <1> DEFINE c == IF s \in Untyped THEN {} ELSE Candidates(s)
  <1>1. c \subseteq nodes \cap Callee[s]
    BY DEF Candidates
  <1>2. Cardinality(c) = 1 => \E t \in c : TRUE
    BY FS_EmptySet
  <1>3. \/ Answer(s) = {}
        \/ \E t \in c : \E m \in {"name", "cfg-selected"} :
               Answer(s) = {[to |-> t, method |-> m]}
    <2> HIDE DEF c
    <2>1. CASE Cardinality(c) = 1
      <3>1. (CHOOSE t \in c : TRUE) \in c
        BY <1>2, <2>1
      <3>2. Answer(s) = {[to |-> CHOOSE t \in c : TRUE, method |-> "name"]}
        BY <2>1 DEF Answer, c
      <3> QED
        BY <3>1, <3>2
    <2>2. CASE Cardinality(c) # 1 /\ Cardinality(c) > 1 /\ active \in c
      <3>1. Answer(s) = {[to |-> active, method |-> "cfg-selected"]}
        BY <2>2 DEF Answer, c
      <3> QED
        BY <2>2, <3>1
    <2>3. CASE Cardinality(c) # 1 /\ ~(Cardinality(c) > 1 /\ active \in c)
      <3>1. Answer(s) = {}
        BY <2>3 DEF Answer, c
      <3> QED
        BY <3>1
    <2> QED
      BY <2>1, <2>2, <2>3
  <1> HIDE DEF c
  <1> QED
    BY <1>1, <1>3

\* The rows a set of resolved sites stages, one by one.
LEMMA StagedFacts ==
    ASSUME SitesTyped, NEW ss \in SUBSET Sites
    PROVE  /\ StagedSites(ss) \subseteq SiteRow
           /\ Unique(StagedSites(ss)) /\ Apart(StagedSites(ss), siteRows)
           /\ \A r \in StagedSites(ss) : r.from \in ss /\ r.to \in Targets
           /\ \A s \in ss : Answer(s) # {} => Backed(s, siteRows \cup StagedSites(ss))
  <1>1. \A r \in StagedSites(ss) :
            \E s \in ss : \E a \in Answer(s) :
               r = Row(s, a.to, a.method) /\ ~Has(siteRows, r.from, r.to)
    BY DEF StagedSites, add, Has
  <1>2. \A r \in StagedSites(ss) :
            \E s \in ss : \E a \in Answer(s) :
               /\ r = [from |-> s, to |-> a.to, method |-> a.method]
               /\ r.from = s /\ r.to = a.to /\ r.to \in nodes /\ r.method \in Found
               /\ ~Has(siteRows, s, a.to)
    BY <1>1, AnswerFacts DEF Row, Found
  <1>3. StagedSites(ss) \subseteq SiteRow
    BY <1>2 DEF SiteRow, SitesTyped
  <1>4. Unique(StagedSites(ss))
    BY <1>2, AnswerFacts DEF Unique
  <1>5. Apart(StagedSites(ss), siteRows)
    BY <1>2 DEF Apart
  <1>6. \A r \in StagedSites(ss) : r.from \in ss /\ r.to \in Targets
    BY <1>2 DEF SitesTyped
  <1>7. ASSUME NEW s \in ss, NEW a \in Answer(s)
        PROVE  Backed(s, siteRows \cup StagedSites(ss))
    <2>1. CASE a.to \in Rowless
      BY <2>1, AnswerFacts DEF Backed
    <2>2. CASE a.to \notin Rowless /\ Has(siteRows, s, a.to)
      BY <2>2 DEF Backed, HasRow, Has
    <2>3. CASE a.to \notin Rowless /\ ~Has(siteRows, s, a.to)
      <3>1. Row(s, a.to, a.method) \in StagedSites(ss)
        BY <2>3 DEF StagedSites, add, Has, Row
      <3>2. Row(s, a.to, a.method).from = s
        BY DEF Row
      <3> QED
        BY <3>1, <3>2 DEF Backed, HasRow
    <2> QED
      BY <2>1, <2>2, <2>3
  <1> QED
    BY <1>3, <1>4, <1>5, <1>6, <1>7

\* The caller rows of the same sites.
LEMMA StagedCallFacts ==
    ASSUME SitesTyped, NEW ss \in SUBSET Sites
    PROVE  /\ StagedCalls(ss) \subseteq CallRow
           /\ Unique(StagedCalls(ss)) /\ Apart(StagedCalls(ss), callRows)
           /\ \A r \in StagedCalls(ss) : r.to \in Targets
  <1> DEFINE Method(c, t) == CHOOSE m \in {"name", "cfg-selected"} :
                 \E s \in ss : CallerOf[s] = c /\ [to |-> t, method |-> m] \in Answer(s)
  <1>1. \A r \in StagedCalls(ss) :
            \E c \in {CallerOf[s] : s \in ss}, t \in nodes :
               /\ r = Row(c, t, Method(c, t))
               /\ ~Has(callRows, c, t)
               /\ \E s \in ss : CallerOf[s] = c /\ \E a \in Answer(s) : a.to = t
    <2> DEFINE Q == {q \in {CallerOf[s] : s \in ss} \X nodes :
                        /\ ~Has(callRows, q[1], q[2])
                        /\ \E s \in ss : CallerOf[s] = q[1] /\ \E a \in Answer(s) : a.to = q[2]}
    <2>1. StagedCalls(ss) = {Row(p[1], p[2], Method(p[1], p[2])) : p \in Q}
      BY Zenon DEF StagedCalls
    <2> HIDE DEF Method
    <2> SUFFICES ASSUME NEW r \in StagedCalls(ss)
                 PROVE  \E c \in {CallerOf[s] : s \in ss}, t \in nodes :
                          /\ r = Row(c, t, Method(c, t))
                          /\ ~Has(callRows, c, t)
                          /\ \E s \in ss : CallerOf[s] = c /\ \E a \in Answer(s) : a.to = t
      OBVIOUS
    <2>2. PICK p \in Q : r = Row(p[1], p[2], Method(p[1], p[2]))
      <3> HIDE DEF Q
      <3> QED BY <2>1
    <2>3. p[1] \in {CallerOf[s] : s \in ss} /\ p[2] \in nodes
      BY <2>2
    <2> QED
      BY <2>2, <2>3
  <1>2. ASSUME NEW c, NEW t, NEW s \in ss, CallerOf[s] = c, NEW a \in Answer(s), a.to = t
        PROVE  Method(c, t) \in {"name", "cfg-selected"}
    <2>1. a.method \in {"name", "cfg-selected"} /\ [to |-> t, method |-> a.method] \in Answer(s)
      BY <1>2, AnswerFacts
    <2>2. \E m \in {"name", "cfg-selected"} :
              \E x \in ss : CallerOf[x] = c /\ [to |-> t, method |-> m] \in Answer(x)
      BY <1>2, <2>1
    <2> QED
      BY <2>2
  <1>3. \A r \in StagedCalls(ss) :
            \E c \in Callers, t \in nodes :
               /\ r = Row(c, t, Method(c, t)) /\ Method(c, t) \in Found
               /\ ~Has(callRows, c, t)
    <2> HIDE DEF Method
    <2>1. {CallerOf[s] : s \in ss} \subseteq Callers
      BY DEF Callers
    <2> QED
      BY <1>1, <1>2, <2>1 DEF Found
  <1> HIDE DEF Method
  <1>4. StagedCalls(ss) \subseteq CallRow
    BY <1>3 DEF CallRow, Row, SitesTyped
  <1>5. Unique(StagedCalls(ss)) /\ Apart(StagedCalls(ss), callRows)
    BY <1>3 DEF Unique, Apart, Row
  <1>6. \A r \in StagedCalls(ss) : r.to \in Targets
    BY <1>3 DEF Row, SitesTyped
  <1> QED
    BY <1>4, <1>5, <1>6

-----------------------------------------------------------------------------
(* Type correctness.                                                         *)

LEMMA EmptyMemTyped == EmptyMem \in MemType
  BY DEF EmptyMem, MemType

LEMMA SitesTypedInit == SitesInit => SitesTyped
  <1> SUFFICES ASSUME SitesInit PROVE SitesTyped
    OBVIOUS
  <1>1. flag \in [Sites -> BOOLEAN] /\ reason \in [Sites -> Reasons]
    BY DEF SitesInit, Reasons
  <1>2. mem \in MemType
    BY EmptyMemTyped DEF SitesInit
  <1>3. rowsForm \in BOOLEAN /\ settled \in BOOLEAN
    BY DEF SitesInit
  <1> QED
    BY <1>1, <1>2, <1>3 DEF SitesInit, SitesTyped

\* Blanking and classifying give strings.
LEMMA ReasonsTyped ==
    ASSUME SitesTyped
    PROVE  /\ \A ss : Blank(ss) \in [Sites -> Reasons]
           /\ \A s : classify(s) \in Reasons /\ classify(s) # ""
           /\ \A s : macro_reason(s) \in Reasons /\ macro_reason(s) # ""
  <1>1. \A ss : Blank(ss) \in [Sites -> Reasons]
    BY DEF Blank, SitesTyped, Reasons
  <1>2. ASSUME NEW s
        PROVE  classify(s) \in {"outside_build_targets", "no_receiver_type", "cfg_twins", "not_found"}
    BY DEF classify
  <1>3. \A s : macro_reason(s) \in {"outside_build_targets", "macro_site"}
    BY DEF macro_reason
  <1> QED
    BY <1>1, <1>2, <1>3 DEF Reasons

\* The refresh and what happens around it.
LEMMA RefreshTyped ==
    ASSUME SitesTyped, Edit \/ index_full \/ Refresh \/ Stop
    PROVE  SitesTyped'
  <1>1. CASE Edit
    <2>1. src' \subseteq Targets
      BY <1>1 DEF Edit, SitesTyped
    <2> QED
      BY <1>1, <2>1 DEF Edit, SitesTyped, markers
  <1>2. CASE index_full
    <2>1. flag' \in [Sites -> BOOLEAN] /\ reason' \in [Sites -> Reasons]
      BY <1>2, ReasonsTyped DEF index_full
    <2>2. rowsForm' \in BOOLEAN /\ settled' \in BOOLEAN
      BY <1>2 DEF index_full
    <2> QED
      BY <1>2, <2>1, <2>2 DEF index_full, SitesTyped
  <1>3. CASE RefreshReopens
    <2>1. flag' \in [Sites -> BOOLEAN] /\ reason' \in [Sites -> Reasons]
      BY <1>3, ReasonsTyped DEF RefreshReopens, SitesTyped
    <2>2. mem' \in MemType
      <3> DEFINE saved == snapshot_inbound_edges(siteRows, dirty)
                 savedCalls == {r \in callRows : r.to \in In(dirty)
                                   /\ \A s \in In(dirty) \cap Sites : CallerOf[s] # r.from}
                 reopened == reopen_sites_resolved_into(dirty)
      <3>1. saved \subseteq SiteRow /\ savedCalls \subseteq CallRow
        BY DEF SitesTyped, snapshot_inbound_edges
      <3>2. reopened \subseteq Sites
        BY SiteKinds DEF SitesTyped, snapshot_inbound_edges, reopen_sites_resolved_into, SiteRow
      <3>3. mem' = [EmptyMem EXCEPT !.saved = saved, !.savedCalls = savedCalls, !.ids = reopened]
        BY <1>3 DEF RefreshReopens
      <3> HIDE DEF saved, savedCalls, reopened
      <3> QED
        BY <3>1, <3>2, <3>3 DEF EmptyMem, MemType
    <2>3. before' \subseteq Sites /\ settled' \in BOOLEAN
      BY <1>3 DEF RefreshReopens, SitesTyped
    <2> QED
      BY <1>3, <2>1, <2>2, <2>3 DEF RefreshReopens, SitesTyped, treeVars, markers
  <1>4. CASE purge_file_symbols
    <2>1. flag' \in [Sites -> BOOLEAN] /\ reason' \in [Sites -> Reasons]
      BY <1>4, ReasonsTyped DEF purge_file_symbols, SitesTyped
    <2> QED
      BY <1>4, <2>1 DEF purge_file_symbols, SitesTyped, treeVars, markers
  <1>5. CASE reparse_modified_file
    BY <1>5 DEF reparse_modified_file, SitesTyped, treeVars, markers
  <1>6. CASE relink_inbound_edges
    <2>1. mem.saved \subseteq SiteRow /\ mem.savedCalls \subseteq CallRow
      BY DEF SitesTyped, MemType
    <2> QED
      BY <1>6, <2>1 DEF relink_inbound_edges, SitesTyped, treeVars, markers
  <1>7. CASE restore_sites_with_edge
    <2>1. flag' \in [Sites -> BOOLEAN]
      BY <1>7 DEF restore_sites_with_edge, SitesTyped
    <2> QED
      BY <1>7, <2>1, EmptyMemTyped DEF restore_sites_with_edge, SitesTyped, markers
  <1>8. CASE Stop
    <2>1. stops' \in Nat
      BY <1>8 DEF Stop, SitesTyped
    <2>2. settled' \in BOOLEAN
      BY <1>8 DEF Stop
    <2> QED
      BY <1>8, <2>1, <2>2, EmptyMemTyped DEF Stop, SitesTyped, treeVars, markers
  <1> QED
    BY <1>1, <1>2, <1>3, <1>4, <1>5, <1>6, <1>7, <1>8 DEF Refresh

LEMMA ResolveTyped ==
    ASSUME SitesTyped, Resolve
    PROVE  SitesTyped'
  <1>0. /\ \A r \in siteRows : r.from \in Sites
        /\ flag \in [Sites -> BOOLEAN] /\ reason \in [Sites -> Reasons]
    BY SiteKinds DEF SitesTyped, SiteRow
  <1>1. CASE reset_macro_expansion
    <2>1. flag' \in [Sites -> BOOLEAN] /\ settled' \in BOOLEAN
      BY <1>0, <1>1 DEF reset_macro_expansion
    <2> QED
      BY <1>1, <2>1 DEF reset_macro_expansion, SitesTyped, treeVars, markers
  <1>2. CASE reset_call_rows
    <2>1. flag' \in [Sites -> BOOLEAN]
      BY <1>0, <1>2 DEF reset_call_rows
    <2> QED
      BY <1>2, <2>1 DEF reset_call_rows, SitesTyped, treeVars, markers
  <1>3. CASE reset_lsp_twin_rows
    <2> DEFINE lost == {r \in siteRows : r.method = "lsp" /\ is_compiled_out(r.to)}
               gone == {r.from : r \in lost}
    <2>1. gone \subseteq Sites
      BY <1>0
    <2>2. mem' = [EmptyMem EXCEPT !.ids = gone] /\ debt' = debt \cup gone
      BY <1>3 DEF reset_lsp_twin_rows
    <2> HIDE DEF gone
    <2>3. mem' \in MemType /\ debt' \subseteq Sites
      BY <2>1, <2>2 DEF EmptyMem, MemType, SitesTyped
    <2> QED
      BY <1>3, <2>3 DEF reset_lsp_twin_rows, SitesTyped, treeVars, markers
  <1>4. CASE LspTwinsReopened
    <2>1. flag' \in [Sites -> BOOLEAN] /\ reason' \in [Sites -> Reasons]
      BY <1>0, <1>4 DEF LspTwinsReopened, Reasons
    <2> QED
      BY <1>4, <2>1, EmptyMemTyped DEF LspTwinsReopened, SitesTyped, treeVars, markers
  <1>5. CASE CallsMarked
    <2> DEFINE won == {s \in here \cap Plain : Answer(s) # {}}
    <2>1. won \in SUBSET Sites
      BY DEF SitesTyped
    <2>2. StagedSites(won) \subseteq SiteRow /\ StagedCalls(won) \subseteq CallRow
      <3> HIDE DEF won
      <3> QED BY <2>1, StagedFacts, StagedCallFacts
    <2>3. /\ flag' = [s \in Sites |-> flag[s] \/ s \in won]
          /\ mem' = [EmptyMem EXCEPT !.ids = won, !.staged = StagedSites(won),
                                     !.stagedCalls = StagedCalls(won)]
          /\ debt' = debt \cup won
      BY <1>5 DEF CallsMarked
    <2> HIDE DEF won
    <2>4. mem' \in MemType
      BY <2>1, <2>2, <2>3 DEF EmptyMem, MemType
    <2>5. flag' \in [Sites -> BOOLEAN] /\ debt' \subseteq Sites
      BY <1>0, <2>1, <2>3 DEF SitesTyped
    <2> QED
      BY <1>5, <2>4, <2>5 DEF CallsMarked, SitesTyped, treeVars, markers
  <1>6. CASE CallsReasoned
    <2>1. \A s \in Sites : write_callsite_reasons(here \cap Plain)[s] \in Reasons
      BY <1>0, ReasonsTyped DEF write_callsite_reasons
    <2>2. reason' \in [Sites -> Reasons]
      BY <1>6, <2>1 DEF CallsReasoned, Reasons
    <2> QED
      BY <1>6, <2>2 DEF CallsReasoned, SitesTyped, treeVars, markers
  <1>7. CASE run_macro_expansion
    <2> DEFINE won == here \cap Expands
               rows == {Row(s, Std, "macro") : s \in won}
               calls == {Row(CallerOf[s], Std, "macro") : s \in won}
    <2>1. won \subseteq MacroSites /\ won \subseteq Sites
      BY SiteKinds
    <2>2. rows \subseteq SiteRow /\ calls \subseteq CallRow
      BY <2>1 DEF SiteRow, CallRow, Row, Callers
    <2>3. /\ flag' = [s \in Sites |-> flag[s] \/ s \in won]
          /\ mem' = [mem EXCEPT !.staged = @ \cup rows, !.stagedCalls = @ \cup calls]
          /\ debt' = debt \cup won
      BY <1>7 DEF run_macro_expansion
    <2>4. reason' \in [Sites -> Reasons]
      BY <1>0, <1>7, ReasonsTyped DEF run_macro_expansion, Reasons
    <2> HIDE DEF won, rows, calls
    <2>5. mem' \in MemType
      BY <2>2, <2>3 DEF MemType, SitesTyped
    <2>6. flag' \in [Sites -> BOOLEAN] /\ debt' \subseteq Sites
      BY <1>0, <2>1, <2>3 DEF SitesTyped
    <2> QED
      BY <1>7, <2>4, <2>5, <2>6 DEF run_macro_expansion, SitesTyped, treeVars
  <1>8. CASE flush
    <2>1. mem.staged \subseteq SiteRow /\ mem.stagedCalls \subseteq CallRow
      BY DEF SitesTyped, MemType
    <2>2. settled' \in BOOLEAN
      BY <1>8 DEF flush, SitesTyped
    <2> QED
      BY <1>8, <2>1, <2>2, EmptyMemTyped DEF flush, SitesTyped, treeVars, markers
  <1> QED
    BY <1>1, <1>2, <1>3, <1>4, <1>5, <1>6, <1>7, <1>8 DEF Resolve

LEMMA LspTyped ==
    ASSUME SitesTyped, LspPass
    PROVE  SitesTyped'
  <1>0. /\ mem \in MemType /\ flag \in [Sites -> BOOLEAN] /\ reason \in [Sites -> Reasons]
        /\ mem.todo \subseteq Sites /\ mem.done \subseteq Sites \X Targets
    BY DEF SitesTyped, MemType
  <1>1. CASE LspBegins
    <2>1. collect_unresolved_callsites \subseteq Sites
      BY DEF collect_unresolved_callsites, SitesTyped
    <2>2. mem' \in MemType
      <3> HIDE DEF collect_unresolved_callsites
      <3> QED BY <1>1, <2>1 DEF LspBegins, EmptyMem, MemType
    <2> QED
      BY <1>1, <2>2 DEF LspBegins, SitesTyped, treeVars, markers
  <1>2. CASE record
    <2>1. PICK s \in mem.todo : \/ \E t \in nodes : lsp_edge(s, t)
                                \/ NoEdge(s)
      BY <1>2 DEF record
    <2>2. s \in Sites
      BY <1>0, <2>1
    <2>3. ASSUME NEW t \in nodes, lsp_edge(s, t)
          PROVE  siteRows' \subseteq SiteRow /\ callRows' \subseteq CallRow /\ mem' \in MemType
      <3>1. t \in Targets
        BY DEF SitesTyped
      <3>2. Row(s, t, "lsp") \in SiteRow /\ Row(CallerOf[s], t, "lsp") \in CallRow
        BY <2>2, <3>1 DEF Row, SiteRow, CallRow, Callers, Found
      <3>3. siteRows' \subseteq SiteRow /\ callRows' \subseteq CallRow
        BY <2>3, <3>2 DEF lsp_edge, insert_edge_if_absent, insert_edge, SitesTyped
      <3>4. mem' \in MemType
        <4>1. <<s, t>> \in Sites \X Targets
          BY <2>2, <3>1
        <4>2. mem' = [mem EXCEPT !.todo = @ \ {s}, !.done = @ \cup {<<s, t>>}]
          BY <2>3 DEF lsp_edge
        <4> QED
          BY <1>0, <4>1, <4>2 DEF MemType
      <3> QED
        BY <3>3, <3>4
    <2>4. NoEdge(s) => mem' \in MemType /\ UNCHANGED <<siteRows, callRows>>
      <3>1. [mem EXCEPT !.todo = @ \ {s}] \in MemType
        BY <1>0 DEF MemType
      <3>2. [mem EXCEPT !.todo = @ \ {s}, !.twins = @ \cup {s}] \in MemType
        BY <1>0, <2>2 DEF MemType
      <3>3. [mem EXCEPT !.todo = @ \ {s}, !.ext = @ \cup {s}] \in MemType
        BY <1>0, <2>2 DEF MemType
      <3> QED
        BY <3>1, <3>2, <3>3 DEF NoEdge
    <2>5. siteRows' \subseteq SiteRow /\ callRows' \subseteq CallRow /\ mem' \in MemType
      BY <2>1, <2>3, <2>4 DEF SitesTyped
    <2> QED
      BY <1>2, <2>5 DEF record, SitesTyped, treeVars, markers
  <1>3. CASE mark_resolved
    <2>1. flag' \in [Sites -> BOOLEAN]
      BY <1>0, <1>3 DEF mark_resolved
    <2>2. Wins \subseteq Sites
      BY <1>0 DEF Wins, SitesTyped, MemType
    <2>3. debt' \subseteq Sites
      BY <1>3, <2>2 DEF mark_resolved, SitesTyped
    <2>4. mem' \in MemType
      BY <1>0, <1>3 DEF mark_resolved, MemType
    <2> QED
      BY <1>3, <2>1, <2>3, <2>4 DEF mark_resolved, SitesTyped, treeVars, markers
  <1>4. CASE LspReasons
    <2>1. reason' \in [Sites -> Reasons]
      BY <1>0, <1>4 DEF LspReasons, clear_callsite_reasons, LspOutside, LspTwins,
                        promote_callsite_reason_to_external, SetReason, Reasons
    <2>2. mem' \in MemType /\ debt' \subseteq Sites
      BY <1>0, <1>4, EmptyMemTyped
         DEF LspReasons, clear_callsite_reasons, LspOutside, LspTwins,
             promote_callsite_reason_to_external, SitesTyped, MemType
    <2>3. UNCHANGED <<treeVars, nodes, here, active, flag, siteRows, callRows, markers, stops,
                      before, settled>>
      BY <1>4 DEF LspReasons, clear_callsite_reasons, LspOutside, LspTwins,
                  promote_callsite_reason_to_external, SetReason
    <2> QED
      BY <2>1, <2>2, <2>3 DEF SitesTyped, treeVars, markers
  <1>5. CASE mark_outside_targets
    <2>1. mem' \in MemType
      <3>1. PICK f \in Outside :
               mem' = [mem EXCEPT !.todo = @ \ In({f}),
                                  !.out = @ \cup (mem.todo \cap In({f}))]
        BY <1>5 DEF mark_outside_targets
      <3> QED
        BY <1>0, <3>1 DEF MemType
    <2> QED
      BY <1>5, <2>1 DEF mark_outside_targets, SitesTyped, treeVars, markers
  <1> QED
    BY <1>1, <1>2, <1>3, <1>4, <1>5 DEF LspPass

\* Every step keeps the types.
LEMMA SitesTypedStep ==
    ASSUME SitesTyped, [SitesNext]_siteVars
    PROVE  SitesTyped'
  <1>1. CASE UNCHANGED siteVars
    BY <1>1 DEF siteVars, SitesTyped
  <1> QED
    BY <1>1, RefreshTyped, ResolveTyped, LspTyped DEF SitesNext

-----------------------------------------------------------------------------
(* Rows are never doubled.                                                   *)

\* The stdlib symbol marks the macro rows, and a row starts at a site or a caller.
LEMMA RowShapes ==
    /\ \A r \in SiteRow : r.from \in Sites /\ (r.method # "macro" => r.to # Std)
    /\ \A r \in CallRow : r.method # "macro" => r.to # Std
  BY SiteKinds DEF SiteRow, CallRow, Found, Std

\* Fewer rows are still unique, and rows that are apart from the held ones can join them.
LEMMA RowSets ==
    /\ \A A, B : A \subseteq B /\ Unique(B) => Unique(A)
    /\ \A A, B, X : A \subseteq B /\ ~Into(B, X) => ~Into(A, X)
    /\ \A A, B : Unique(A) /\ Unique(B) /\ Apart(B, A) => Unique(A \cup B)
    /\ \A A, B, X : ~Into(A, X) /\ (\A r \in B : r.to \in X) => Apart(B, A)
  BY DEF Unique, Into, Apart, Has

\* A row inserted when absent.
LEMMA InsertFacts ==
    ASSUME NEW rows, NEW a, NEW t, NEW m
    PROVE  /\ Unique(rows) => Unique(insert_edge_if_absent(rows, a, t, m))
           /\ rows \subseteq insert_edge_if_absent(rows, a, t, m)
           /\ HasRow(insert_edge_if_absent(rows, a, t, m), a)
  <1> DEFINE x == Row(a, t, m)
  <1>1. x.from = a /\ x.to = t
    BY DEF Row
  <1>2. insert_edge_if_absent(rows, a, t, m) = IF Has(rows, a, t) THEN rows ELSE rows \cup {x}
    BY DEF insert_edge_if_absent, insert_edge
  <1> HIDE DEF x
  <1>3. CASE Has(rows, a, t)
    BY <1>2, <1>3 DEF Has, HasRow
  <1>4. CASE ~Has(rows, a, t)
    <2>1. Unique(rows) => Unique(rows \cup {x})
      BY <1>1, <1>4 DEF Has, Unique
    <2> QED
      BY <1>1, <1>2, <1>4, <2>1 DEF HasRow
  <1> QED
    BY <1>3, <1>4

LEMMA RefreshRows ==
    ASSUME RowsInv, Edit \/ index_full \/ Refresh \/ Stop
    PROVE  RowsOK'
  <1> USE DEF RowsInv
  <1>1. CASE Edit \/ Stop \/ restore_sites_with_edge
    <2>1. pc' = "idle" /\ UNCHANGED <<siteRows, callRows>>
      BY <1>1 DEF Edit, Stop, restore_sites_with_edge
    <2> QED
      BY <2>1 DEF RowsOK, Refreshing, Resolving, Staging
  <1>2. CASE index_full
    <2>1. pc' = "idle" /\ siteRows' = {} /\ callRows' = {}
      BY <1>2 DEF index_full
    <2> QED
      BY <2>1 DEF RowsOK, Refreshing, Resolving, Staging, Unique
  <1>3. CASE RefreshReopens
    <2> DEFINE saved == snapshot_inbound_edges(siteRows, dirty)
               savedCalls == {r \in callRows : r.to \in In(dirty)
                                 /\ \A s \in In(dirty) \cap Sites : CallerOf[s] # r.from}
    <2>1. /\ pc' = "purge" /\ UNCHANGED <<siteRows, callRows, dirty>>
          /\ mem'.saved = saved /\ mem'.savedCalls = savedCalls
      BY <1>3 DEF RefreshReopens, treeVars, EmptyMem
    <2>2. saved \subseteq siteRows /\ savedCalls \subseteq callRows
      BY DEF snapshot_inbound_edges
    <2>3. \A r \in saved \cup savedCalls : r.to \in In(dirty)
      BY DEF snapshot_inbound_edges
    <2> HIDE DEF saved, savedCalls
    <2>4. Unique(saved) /\ Unique(savedCalls)
      BY <2>2, RowSets DEF RowsOK
    <2>5. In(dirty)' = In(dirty)
      BY <2>1 DEF In
    <2> QED
      BY <2>1, <2>3, <2>4, <2>5 DEF RowsOK, Refreshing, Resolving, Staging
  <1>4. CASE purge_file_symbols
    <2>1. /\ pc = "purge" /\ pc' = "reparse" /\ UNCHANGED <<mem, dirty>>
          /\ siteRows' \subseteq siteRows /\ callRows' \subseteq callRows
          /\ \A r \in siteRows' \cup callRows' : r.to \notin In(dirty)
      BY <1>4 DEF purge_file_symbols, treeVars
    <2>2. In(dirty)' = In(dirty)
      BY <2>1 DEF In
    <2>3. Unique(siteRows') /\ Unique(callRows')
      BY <2>1, RowSets DEF RowsOK
    <2> QED
      BY <2>1, <2>2, <2>3 DEF RowsOK, Refreshing, Resolving, Staging, Into
  <1>5. CASE reparse_modified_file
    <2>1. pc = "reparse" /\ pc' = "relink" /\ UNCHANGED <<mem, dirty, siteRows, callRows>>
      BY <1>5 DEF reparse_modified_file, treeVars
    <2>2. In(dirty)' = In(dirty)
      BY <2>1 DEF In
    <2> QED
      BY <2>1, <2>2 DEF RowsOK, Refreshing, Resolving, Staging
  <1>6. CASE relink_inbound_edges
    <2> DEFINE A == {r \in mem.saved : r.to \in nodes}
               B == {r \in mem.savedCalls : r.to \in nodes}
    <2>1. /\ pc = "relink" /\ pc' = "restore"
          /\ siteRows' = siteRows \cup A /\ callRows' = callRows \cup B
      BY <1>6 DEF relink_inbound_edges
    <2>2. A \subseteq mem.saved /\ B \subseteq mem.savedCalls
      OBVIOUS
    <2> HIDE DEF A, B
    <2>3. Apart(A, siteRows) /\ Apart(B, callRows)
      BY <2>1, <2>2, RowSets DEF RowsOK, Refreshing
    <2>4. Unique(siteRows') /\ Unique(callRows')
      BY <2>1, <2>2, <2>3, RowSets DEF RowsOK, Refreshing
    <2> QED
      BY <2>1, <2>4 DEF RowsOK, Refreshing, Resolving, Staging
  <1> QED
    BY <1>1, <1>2, <1>3, <1>4, <1>5, <1>6 DEF Refresh

LEMMA ResolveRows ==
    ASSUME RowsInv, Resolve
    PROVE  RowsOK'
  <1> USE DEF RowsInv
  <1>0. siteRows \subseteq SiteRow /\ callRows \subseteq CallRow
    BY DEF SitesTyped
  <1>1. CASE reset_macro_expansion
    <2>1. /\ pc' = "resetCalls"
          /\ siteRows' = {r \in siteRows : r.method # "macro"}
          /\ callRows' = {r \in callRows : r.method # "macro"}
      BY <1>1 DEF reset_macro_expansion
    <2>2. ~Into(siteRows', {Std}) /\ ~Into(callRows', {Std})
      BY <1>0, <2>1, RowShapes DEF Into
    <2>3. Unique(siteRows') /\ Unique(callRows')
      BY <2>1 DEF Unique, RowsOK
    <2> QED
      BY <2>1, <2>2, <2>3 DEF RowsOK, Refreshing, Resolving, Staging
  <1>2. CASE reset_call_rows \/ reset_lsp_twin_rows \/ LspTwinsReopened
    <2>1. /\ pc \in {"resetCalls", "resetLsp", "reopenLsp"}
          /\ pc' \in {"resetLsp", "reopenLsp", "calls"}
          /\ siteRows' \subseteq siteRows /\ callRows' \subseteq callRows
      BY <1>2 DEF reset_call_rows, reset_lsp_twin_rows, LspTwinsReopened
    <2>2. Unique(siteRows') /\ Unique(callRows')
      BY <2>1, RowSets DEF RowsOK
    <2>3. ~Into(siteRows', {Std}) /\ ~Into(callRows', {Std})
      BY <2>1, RowSets DEF RowsOK, Resolving
    <2> QED
      BY <2>1, <2>2, <2>3 DEF RowsOK, Refreshing, Staging
  <1>3. CASE CallsMarked
    <2> DEFINE won == {s \in here \cap Plain : Answer(s) # {}}
    <2>1. won \in SUBSET Sites
      BY DEF SitesTyped
    <2>2. /\ pc = "calls" /\ pc' = "callReasons" /\ UNCHANGED <<siteRows, callRows>>
          /\ mem' = [EmptyMem EXCEPT !.ids = won, !.staged = StagedSites(won),
                                     !.stagedCalls = StagedCalls(won)]
      BY <1>3 DEF CallsMarked
    <2> HIDE DEF won
    <2>3. mem'.staged = StagedSites(won) /\ mem'.stagedCalls = StagedCalls(won)
      BY <2>2 DEF EmptyMem
    <2>4. /\ Unique(StagedSites(won)) /\ Apart(StagedSites(won), siteRows)
          /\ Unique(StagedCalls(won)) /\ Apart(StagedCalls(won), callRows)
      BY <2>1, StagedFacts, StagedCallFacts
    <2>5. ~Into(StagedSites(won), {Std}) /\ ~Into(StagedCalls(won), {Std})
      <3>1. \A r \in StagedSites(won) : r.to \in Targets
        BY <2>1, StagedFacts
      <3>2. \A r \in StagedCalls(won) : r.to \in Targets
        BY <2>1, StagedCallFacts
      <3> QED
        BY <3>1, <3>2, SiteKinds DEF Into, Std
    <2> QED
      BY <2>2, <2>3, <2>4, <2>5 DEF RowsOK, Refreshing, Resolving, Staging
  <1>4. CASE CallsReasoned
    <2>1. pc = "callReasons" /\ pc' = "macros" /\ UNCHANGED <<siteRows, callRows, mem>>
      BY <1>4 DEF CallsReasoned
    <2> QED
      BY <2>1 DEF RowsOK, Refreshing, Resolving, Staging
  <1>5. CASE run_macro_expansion
    <2> DEFINE rows == {Row(s, Std, "macro") : s \in here \cap Expands}
               calls == {Row(CallerOf[s], Std, "macro") : s \in here \cap Expands}
    <2>1. /\ pc = "macros" /\ pc' = "flush" /\ UNCHANGED <<siteRows, callRows>>
          /\ mem' = [mem EXCEPT !.staged = @ \cup rows, !.stagedCalls = @ \cup calls]
      BY <1>5 DEF run_macro_expansion
    <2>2. \A r \in rows \cup calls : r.to \in {Std}
      BY DEF Row
    <2>3. Unique(rows) /\ Unique(calls)
      BY DEF Unique, Row
    <2> HIDE DEF rows, calls
    <2>4. mem'.staged = mem.staged \cup rows /\ mem'.stagedCalls = mem.stagedCalls \cup calls
      BY <2>1 DEF SitesTyped, MemType
    <2>5. /\ ~Into(siteRows, {Std}) /\ ~Into(callRows, {Std})
          /\ ~Into(mem.staged, {Std}) /\ ~Into(mem.stagedCalls, {Std})
          /\ Unique(mem.staged) /\ Unique(mem.stagedCalls)
          /\ Apart(mem.staged, siteRows) /\ Apart(mem.stagedCalls, callRows)
      BY <2>1 DEF RowsOK, Resolving, Staging
    <2>6. /\ Apart(rows, mem.staged) /\ Apart(calls, mem.stagedCalls)
          /\ Apart(rows, siteRows) /\ Apart(calls, callRows)
      BY <2>2, <2>5, RowSets
    <2>7. Unique(mem'.staged) /\ Unique(mem'.stagedCalls)
      BY <2>3, <2>4, <2>5, <2>6, RowSets
    <2>8. Apart(mem'.staged, siteRows) /\ Apart(mem'.stagedCalls, callRows)
      BY <2>4, <2>5, <2>6 DEF Apart
    <2> QED
      BY <2>1, <2>5, <2>7, <2>8 DEF RowsOK, Refreshing, Resolving, Staging
  <1>6. CASE flush
    <2>1. /\ pc = "flush" /\ pc' = "idle"
          /\ siteRows' = siteRows \cup mem.staged /\ callRows' = callRows \cup mem.stagedCalls
      BY <1>6 DEF flush
    <2>2. Unique(siteRows') /\ Unique(callRows')
      BY <2>1, RowSets DEF RowsOK, Staging
    <2> QED
      BY <2>1, <2>2 DEF RowsOK, Refreshing, Resolving, Staging
  <1> QED
    BY <1>1, <1>2, <1>3, <1>4, <1>5, <1>6 DEF Resolve

LEMMA LspRows ==
    ASSUME RowsInv, LspPass
    PROVE  RowsOK'
  <1> USE DEF RowsInv
  <1>1. pc' \in {"idle", "lsp", "lspReasons", "lspOutside", "lspTwins", "lspExternal"}
    BY DEF LspPass, LspBegins, record, mark_outside_targets, mark_resolved, LspReasons,
           clear_callsite_reasons, LspOutside, LspTwins, promote_callsite_reason_to_external,
           SetReason
  <1>2. Unique(siteRows) /\ Unique(callRows)
    BY DEF RowsOK
  <1>3. CASE record
    <2>1. PICK s \in mem.todo : \/ \E t \in nodes : lsp_edge(s, t)
                                \/ NoEdge(s)
      BY <1>3 DEF record
    <2>2. ASSUME NEW t \in nodes, lsp_edge(s, t)
          PROVE  Unique(siteRows') /\ Unique(callRows')
      <3>1. /\ callRows' = insert_edge_if_absent(callRows, CallerOf[s], t, "lsp")
            /\ \/ siteRows' = siteRows
               \/ siteRows' = insert_edge_if_absent(siteRows, s, t, "lsp")
        BY <2>2 DEF lsp_edge
      <3> QED
        BY <1>2, <3>1, InsertFacts
    <2>3. Unique(siteRows') /\ Unique(callRows')
      BY <1>2, <2>1, <2>2 DEF NoEdge
    <2> QED
      BY <1>1, <2>3 DEF RowsOK, Refreshing, Resolving, Staging
  <1>4. CASE LspBegins \/ mark_outside_targets \/ mark_resolved \/ LspReasons
    <2>1. UNCHANGED <<siteRows, callRows>>
      BY <1>4 DEF LspBegins, mark_outside_targets, mark_resolved, LspReasons,
                  clear_callsite_reasons, LspOutside, LspTwins,
                  promote_callsite_reason_to_external, SetReason
    <2> QED
      BY <1>1, <1>2, <2>1 DEF RowsOK, Refreshing, Resolving, Staging
  <1> QED
    BY <1>3, <1>4 DEF LspPass

LEMMA RowsInvStep ==
    ASSUME RowsInv, [SitesNext]_siteVars
    PROVE  RowsInv'
  <1>1. CASE UNCHANGED siteVars
    <2>1. UNCHANGED <<siteRows, callRows, mem, pc, dirty>>
      BY <1>1 DEF siteVars
    <2>2. In(dirty)' = In(dirty)
      BY <2>1 DEF In
    <2>3. RowsOK'
      BY <2>1, <2>2 DEF RowsInv, RowsOK
    <2> QED
      BY <2>3, SitesTypedStep DEF RowsInv
  <1> QED
    BY <1>1, SitesTypedStep, RefreshRows, ResolveRows, LspRows DEF SitesNext, RowsInv

\* No two nodes are ever joined by two rows of one table: a refresh relinks only what its
\* purge took, the resolver stages a row only when neither the table nor its buffer has
\* it, and the language-server pass inserts only what is absent, wherever a pass stops
\* and whatever runs after it.
THEOREM RowsAreNotDoubled == SitesSpec => []NoParallelRows
  <1>1. SitesInit => RowsInv
    <2>1. SitesInit => RowsOK
      BY DEF SitesInit, RowsOK, Unique, Refreshing, Resolving, Staging
    <2> QED
      BY <2>1, SitesTypedInit DEF RowsInv
  <1>2. RowsInv /\ [SitesNext]_siteVars => RowsInv'
    BY RowsInvStep
  <1>3. RowsInv => NoParallelRows
    BY DEF RowsInv, RowsOK, Unique, NoParallelRows
  <1> QED
    BY <1>1, <1>2, <1>3, PTL DEF SitesSpec

-----------------------------------------------------------------------------
(* Flags are backed, and reasons tell the open sites.                        *)

\* Only a macro site has a macro row, and a flag is one of two values.
LEMMA SiteFacts ==
    ASSUME SitesTyped
    PROVE  /\ here \subseteq Sites /\ debt \subseteq Sites
           /\ \A r \in siteRows : r.from \in Sites /\ (r.method = "macro" => r.from \in MacroSites)
           /\ \A s \in Sites : flag[s] = TRUE \/ flag[s] = FALSE
           /\ mem.ids \subseteq Sites /\ mem.staged \subseteq SiteRow
           /\ mem.todo \subseteq Sites /\ mem.done \subseteq Sites \X Targets
           /\ mem.out \subseteq Sites /\ mem.twins \subseteq Sites /\ mem.ext \subseteq Sites
  <1>1. /\ mem.ids \subseteq Sites /\ mem.staged \subseteq SiteRow
        /\ mem.todo \subseteq Sites /\ mem.done \subseteq Sites \X Targets
        /\ mem.out \subseteq Sites /\ mem.twins \subseteq Sites /\ mem.ext \subseteq Sites
    BY DEF SitesTyped, MemType
  <1>2. \A r \in siteRows : r.from \in Sites /\ (r.method = "macro" => r.from \in MacroSites)
    BY SiteKinds DEF SitesTyped, SiteRow, Found
  <1>3. \A s \in Sites : flag[s] = TRUE \/ flag[s] = FALSE
    BY DEF SitesTyped
  <1> QED
    BY <1>1, <1>2, <1>3 DEF SitesTyped

\* More rows back at least as many sites.
LEMMA BackedGrows ==
    ASSUME NEW s, NEW A, NEW B, A \subseteq B, Backed(s, A)
    PROVE  Backed(s, B)
  BY DEF Backed, HasRow

LEMMA RefreshState ==
    ASSUME StateInv, Edit \/ index_full \/ Refresh \/ Stop
    PROVE  FlagsOK' /\ ReasonsOK'
  <1> USE DEF StateInv
  <1>0. /\ here \subseteq Sites /\ debt \subseteq Sites /\ mem.ids \subseteq Sites
        /\ \A r \in siteRows : r.from \in Sites
        /\ \A s \in Sites : flag[s] = TRUE \/ flag[s] = FALSE
        /\ \A s \in here : flag[s] = TRUE => s \in debt \/ Backed(s, siteRows)
        /\ \A s \in here : flag[s] = TRUE /\ s \notin debt => reason[s] = ""
    BY SiteFacts DEF FlagsOK, ReasonsOK
  <1>1. CASE Edit
    <2>1. pc = "idle" /\ UNCHANGED <<pc, flag, reason, siteRows, here, debt, settled>>
      BY <1>1 DEF Edit
    <2>2. FlagsOK'
      BY <2>1 DEF FlagsOK, Staging
    <2>3. ReasonsOK'
      BY <2>1 DEF ReasonsOK, Refreshing, Resolving, Staging
    <2> QED
      BY <2>2, <2>3
  <1>2. CASE Stop
    <2>1. /\ pc' = "idle" /\ settled' = FALSE
          /\ UNCHANGED <<flag, reason, siteRows, here, debt>>
      BY <1>2 DEF Stop
    <2>2. FlagsOK'
      BY <2>1 DEF FlagsOK, Staging
    <2>3. ReasonsOK'
      BY <2>1 DEF ReasonsOK, Refreshing, Resolving, Staging
    <2> QED
      BY <2>2, <2>3
  <1>3. CASE index_full
    <2>1. /\ pc' = "idle" /\ settled' = FALSE /\ here' = Sites
          /\ \A s \in Sites : flag'[s] = FALSE
      BY <1>3 DEF index_full
    <2>2. FlagsOK'
      BY <2>1 DEF FlagsOK, Staging
    <2>3. ReasonsOK'
      BY <2>1 DEF ReasonsOK, Refreshing, Resolving, Staging
    <2> QED
      BY <2>2, <2>3
  <1>4. CASE RefreshReopens
    <2> DEFINE reopened == reopen_sites_resolved_into(dirty)
    <2>1. /\ pc' = "purge" /\ settled' = FALSE /\ mem'.ids = reopened
          /\ UNCHANGED <<dirty, here, siteRows, debt>>
          /\ flag' = [s \in Sites |-> flag[s] /\ s \notin reopened]
          /\ reason' = Blank(reopened)
      BY <1>4 DEF RefreshReopens, treeVars, EmptyMem
    <2>2. \A r \in siteRows : r.to \in In(dirty) /\ r.from \notin In(dirty) => r.from \in reopened
      BY DEF reopen_sites_resolved_into, snapshot_inbound_edges
    <2>3. reopened \subseteq Sites
      BY <1>0 DEF reopen_sites_resolved_into, snapshot_inbound_edges
    <2> HIDE DEF reopened
    <2>4. \A s \in Sites : /\ flag'[s] = TRUE => flag[s] = TRUE
                           /\ s \in reopened => flag'[s] = FALSE /\ reason'[s] = ""
                           /\ s \notin reopened => flag'[s] = flag[s] /\ reason'[s] = reason[s]
      BY <1>0, <2>1 DEF Blank
    <2>5. In(dirty)' = In(dirty)
      BY <2>1 DEF In
    <2>6. FlagsOK'
      BY <1>0, <2>1, <2>2, <2>4, <2>5 DEF FlagsOK, Staging
    <2>7. ReasonsOK'
      BY <1>0, <2>1, <2>3, <2>4 DEF ReasonsOK, Refreshing, Resolving, Staging
    <2> QED
      BY <2>6, <2>7
  <1>5. CASE purge_file_symbols
    <2>1. /\ pc = "purge" /\ pc' = "reparse" /\ UNCHANGED <<dirty, mem, settled>>
          /\ flag' = [s \in Sites |-> flag[s] /\ s \notin In(dirty)]
          /\ reason' = Blank(In(dirty) \cap Sites)
          /\ here' = here \ In(dirty) /\ debt' = debt \ In(dirty)
          /\ siteRows' = {r \in siteRows : {r.from, r.to} \cap In(dirty) = {}}
      BY <1>5 DEF purge_file_symbols, treeVars
    <2>2. \A s \in Sites : /\ flag'[s] = TRUE => flag[s] = TRUE
                           /\ s \in In(dirty) => flag'[s] = FALSE /\ reason'[s] = ""
                           /\ s \notin In(dirty) => flag'[s] = flag[s] /\ reason'[s] = reason[s]
      BY <1>0, <2>1 DEF Blank
    <2>3. In(dirty)' = In(dirty)
      BY <2>1 DEF In
    <2>4. ASSUME NEW s \in here', flag'[s] = TRUE
          PROVE  s \in debt' \/ Backed(s, siteRows')
      <3>1. s \in here /\ s \in Sites /\ s \notin In(dirty) /\ flag[s] = TRUE
        BY <1>0, <2>1, <2>2, <2>4
      <3>2. \A r \in siteRows : r.from = s => r.to \notin In(dirty)
        BY <2>1, <3>1 DEF FlagsOK
      <3>3. \A r \in siteRows : r.from = s => r \in siteRows'
        BY <2>1, <3>1, <3>2
      <3> QED
        BY <1>0, <2>1, <3>1, <3>3 DEF Backed, HasRow
    <2>5. FlagsOK'
      BY <2>1, <2>2, <2>3, <2>4 DEF FlagsOK, Staging
    <2>6. settled = FALSE
      BY <2>1 DEF ReasonsOK, SitesTyped
    <2>7. \A s \in mem.ids : reason[s] = ""
      BY <2>1 DEF ReasonsOK, Refreshing
    <2>8. ReasonsOK'
      BY <1>0, <2>1, <2>2, <2>6, <2>7 DEF ReasonsOK, Refreshing, Resolving, Staging
    <2> QED
      BY <2>5, <2>8
  <1>6. CASE reparse_modified_file
    <2>1. /\ pc = "reparse" /\ pc' = "relink"
          /\ UNCHANGED <<mem, settled, flag, reason, siteRows, debt>>
          /\ here' = here \cup (Sites \cap In(dirty))
      BY <1>6 DEF reparse_modified_file, treeVars
    <2>2. \A s \in In(dirty) \cap Sites : flag[s] = FALSE
      BY <2>1 DEF FlagsOK
    <2>3. FlagsOK'
      BY <1>0, <2>1, <2>2 DEF FlagsOK, Staging
    <2>4. settled = FALSE /\ \A s \in mem.ids : reason[s] = ""
      BY <2>1 DEF ReasonsOK, SitesTyped, Refreshing
    <2>5. ReasonsOK'
      BY <1>0, <2>1, <2>2, <2>4 DEF ReasonsOK, Refreshing, Resolving, Staging
    <2> QED
      BY <2>3, <2>5
  <1>7. CASE relink_inbound_edges
    <2>1. /\ pc = "relink" /\ pc' = "restore"
          /\ UNCHANGED <<mem, settled, flag, reason, here, debt>>
          /\ siteRows \subseteq siteRows'
      BY <1>7 DEF relink_inbound_edges, treeVars
    <2>2. FlagsOK'
      BY <1>0, <2>1, BackedGrows DEF FlagsOK, Staging
    <2>3. settled = FALSE /\ \A s \in mem.ids : reason[s] = ""
      BY <2>1 DEF ReasonsOK, SitesTyped, Refreshing
    <2>4. ReasonsOK'
      BY <1>0, <2>1, <2>3 DEF ReasonsOK, Refreshing, Resolving, Staging
    <2> QED
      BY <2>2, <2>4
  <1>8. CASE restore_sites_with_edge
    <2>1. /\ pc = "restore" /\ pc' = "idle"
          /\ UNCHANGED <<settled, reason, here, debt, siteRows>>
          /\ flag' = [s \in Sites |-> flag[s] \/
                        (s \in mem.ids /\ \E r \in siteRows : r.from = s)]
      BY <1>8 DEF restore_sites_with_edge
    <2>2. \A s \in Sites : flag'[s] = TRUE =>
              flag[s] = TRUE \/ (s \in mem.ids /\ HasRow(siteRows, s))
      BY <1>0, <2>1 DEF HasRow
    <2>3. FlagsOK'
      BY <1>0, <2>1, <2>2 DEF FlagsOK, Staging, Backed
    <2>4. settled = FALSE /\ \A s \in mem.ids : reason[s] = ""
      BY <2>1 DEF ReasonsOK, SitesTyped, Refreshing
    <2>5. ReasonsOK'
      BY <1>0, <2>1, <2>2, <2>4 DEF ReasonsOK, Refreshing, Resolving, Staging
    <2> QED
      BY <2>3, <2>5
  <1> QED
    BY <1>1, <1>2, <1>3, <1>4, <1>5, <1>6, <1>7, <1>8 DEF Refresh

LEMMA ResolveState ==
    ASSUME StateInv, Resolve
    PROVE  FlagsOK' /\ ReasonsOK'
  <1> USE DEF StateInv
  <1>0. /\ here \subseteq Sites /\ debt \subseteq Sites /\ mem.ids \subseteq Sites
        /\ \A r \in siteRows : r.from \in Sites /\ (r.method = "macro" => r.from \in MacroSites)
        /\ \A s \in Sites : flag[s] = TRUE \/ flag[s] = FALSE
        /\ \A s \in here : flag[s] = TRUE => s \in debt \/ Backed(s, siteRows)
        /\ \A s \in here : flag[s] = TRUE /\ s \notin debt => reason[s] = ""
    BY SiteFacts DEF FlagsOK, ReasonsOK
  <1>1. CASE reset_macro_expansion
    <2>1. /\ pc' = "resetCalls" /\ settled' = FALSE /\ UNCHANGED <<reason, here, debt>>
          /\ siteRows' = {r \in siteRows : r.method # "macro"}
          /\ flag' = [s \in Sites |-> flag[s] /\ s \notin MacroSites]
      BY <1>1 DEF reset_macro_expansion
    <2>2. \A s \in Sites : /\ flag'[s] = TRUE => flag[s] = TRUE /\ s \notin MacroSites
                           /\ s \in MacroSites => flag'[s] = FALSE
      BY <1>0, <2>1
    <2>3. ASSUME NEW s \in here, s \notin MacroSites, Backed(s, siteRows)
          PROVE  Backed(s, siteRows')
      BY <1>0, <2>1, <2>3 DEF Backed, HasRow
    <2>4. FlagsOK'
      BY <1>0, <2>1, <2>2, <2>3 DEF FlagsOK, Staging
    <2>5. ReasonsOK'
      BY <1>0, <2>1, <2>2, SiteKinds DEF ReasonsOK, Refreshing, Resolving, Staging
    <2> QED
      BY <2>4, <2>5
  <1>2. CASE reset_call_rows
    <2> DEFINE chosen == {r \in siteRows : r.method = "cfg-selected"}
    <2>1. /\ pc = "resetCalls" /\ pc' = "resetLsp" /\ UNCHANGED <<reason, here, debt, settled>>
          /\ siteRows' = siteRows \ chosen
          /\ flag' = [s \in Sites |-> flag[s] /\ \A r \in chosen : r.from # s]
      BY <1>2 DEF reset_call_rows
    <2> HIDE DEF chosen
    <2>2. \A s \in Sites : /\ flag'[s] = TRUE => flag[s] = TRUE /\ \A r \in chosen : r.from # s
                           /\ flag[s] = FALSE => flag'[s] = FALSE
      BY <1>0, <2>1
    <2>3. ASSUME NEW s \in here, \A r \in chosen : r.from # s, Backed(s, siteRows)
          PROVE  Backed(s, siteRows')
      BY <2>1, <2>3 DEF Backed, HasRow
    <2>4. FlagsOK'
      BY <1>0, <2>1, <2>2, <2>3 DEF FlagsOK, Staging
    <2>5. settled = FALSE /\ \A s \in MacroSites : flag[s] = FALSE
      BY <2>1 DEF ReasonsOK, SitesTyped, Resolving
    <2>6. ReasonsOK'
      BY <1>0, <2>1, <2>2, <2>5, SiteKinds DEF ReasonsOK, Refreshing, Resolving, Staging
    <2> QED
      BY <2>4, <2>6
  <1>3. CASE reset_lsp_twin_rows
    <2> DEFINE lost == {r \in siteRows : r.method = "lsp" /\ is_compiled_out(r.to)}
               gone == {r.from : r \in lost}
    <2>1. /\ pc = "resetLsp" /\ pc' = "reopenLsp" /\ UNCHANGED <<reason, here, flag, settled>>
          /\ siteRows' = siteRows \ lost /\ debt' = debt \cup gone
      BY <1>3 DEF reset_lsp_twin_rows
    <2>2. \A r \in lost : r.from \in gone
      OBVIOUS
    <2> HIDE DEF gone, lost
    <2>3. ASSUME NEW s \in here, Backed(s, siteRows)
          PROVE  s \in gone \/ Backed(s, siteRows')
      BY <2>1, <2>2, <2>3 DEF Backed, HasRow
    <2>4. FlagsOK'
      BY <1>0, <2>1, <2>3 DEF FlagsOK, Staging
    <2>5. settled = FALSE /\ \A s \in MacroSites : flag[s] = FALSE
      BY <2>1 DEF ReasonsOK, SitesTyped, Resolving
    <2>6. ReasonsOK'
      BY <1>0, <2>1, <2>5 DEF ReasonsOK, Refreshing, Resolving, Staging
    <2> QED
      BY <2>4, <2>6
  <1>4. CASE LspTwinsReopened
    <2>1. /\ pc = "reopenLsp" /\ pc' = "calls" /\ UNCHANGED <<here, siteRows, settled>>
          /\ flag' = [s \in Sites |-> flag[s] /\ s \notin mem.ids]
          /\ reason' = [s \in Sites |-> IF s \in mem.ids THEN "cfg_twins" ELSE reason[s]]
          /\ debt' = debt \ mem.ids
      BY <1>4 DEF LspTwinsReopened
    <2>2. \A s \in Sites :
              /\ flag'[s] = TRUE => flag[s] = TRUE /\ s \notin mem.ids /\ reason'[s] = reason[s]
              /\ flag[s] = FALSE => flag'[s] = FALSE
      BY <1>0, <2>1
    <2>3. FlagsOK'
      BY <1>0, <2>1, <2>2 DEF FlagsOK, Staging
    <2>4. settled = FALSE /\ \A s \in MacroSites : flag[s] = FALSE
      BY <2>1 DEF ReasonsOK, SitesTyped, Resolving
    <2>5. ReasonsOK'
      BY <1>0, <2>1, <2>2, <2>4, SiteKinds DEF ReasonsOK, Refreshing, Resolving, Staging
    <2> QED
      BY <2>3, <2>5
  <1>5. CASE CallsMarked
    <2> DEFINE won == {s \in here \cap Plain : Answer(s) # {}}
    <2>1. /\ pc = "calls" /\ pc' = "callReasons" /\ UNCHANGED <<reason, here, siteRows, settled>>
          /\ flag' = [s \in Sites |-> flag[s] \/ s \in won]
          /\ mem' = [EmptyMem EXCEPT !.ids = won, !.staged = StagedSites(won),
                                     !.stagedCalls = StagedCalls(won)]
          /\ debt' = debt \cup won
      BY <1>5 DEF CallsMarked
    <2>2. won \in SUBSET Sites /\ won \subseteq Plain /\ \A s \in won : Answer(s) # {}
      BY <1>0
    <2> HIDE DEF won
    <2>3. mem'.ids = won /\ mem'.staged = StagedSites(won)
      BY <2>1 DEF EmptyMem
    <2>4. /\ \A r \in StagedSites(won) : r.from \in won
          /\ \A s \in won : Backed(s, siteRows \cup StagedSites(won))
      BY <2>2, StagedFacts
    <2>5. \A s \in Sites : /\ flag'[s] = TRUE => flag[s] = TRUE \/ s \in won
                           /\ s \notin won => flag'[s] = flag[s]
      BY <1>0, <2>1
    <2>6. FlagsOK'
      BY <1>0, <2>1, <2>3, <2>4, <2>5 DEF FlagsOK, Staging
    <2>7. settled = FALSE /\ \A s \in MacroSites : flag[s] = FALSE
      BY <2>1 DEF ReasonsOK, SitesTyped, Resolving
    <2>8. (\A s \in MacroSites : flag'[s] = FALSE) /\ \A s \in won : flag'[s] = TRUE
      BY <2>1, <2>2, <2>5, <2>7, SiteKinds DEF Plain
    <2>9. \A s \in here : flag[s] = TRUE /\ s \notin debt => reason[s] = ""
      BY DEF ReasonsOK
    <2>10. \A s \in here : flag'[s] = TRUE /\ s \notin debt' => reason'[s] = ""
      BY <1>0, <2>1, <2>5, <2>9
    <2>11. mem'.ids \subseteq Plain /\ \A r \in mem'.staged : r.from \in mem'.ids
      BY <2>2, <2>3, <2>4
    <2>12. ReasonsOK'
      BY <2>1, <2>3, <2>7, <2>8, <2>10, <2>11
         DEF ReasonsOK, Refreshing, Resolving, Staging
    <2> QED
      BY <2>6, <2>12
  <1>6. CASE CallsReasoned
    <2>1. /\ pc = "callReasons" /\ pc' = "macros"
          /\ UNCHANGED <<flag, here, siteRows, settled, mem, debt>>
          /\ reason' = [s \in Sites |-> IF s \in mem.ids THEN ""
                          ELSE write_callsite_reasons(here \cap Plain)[s]]
      BY <1>6 DEF CallsReasoned
    <2>2. \A s \in Sites :
              write_callsite_reasons(here \cap Plain)[s] =
                IF s \in here \cap Plain /\ ~flag[s] THEN classify(s) ELSE reason[s]
      BY DEF write_callsite_reasons
    <2>3. \A s \in Sites :
              /\ s \in mem.ids => reason'[s] = ""
              /\ flag[s] = TRUE => reason'[s] = reason[s] \/ reason'[s] = ""
              /\ s \notin mem.ids /\ s \in here \cap Plain /\ flag[s] = FALSE
                    => reason'[s] = classify(s)
      BY <1>0, <2>1, <2>2
    <2>4. FlagsOK'
      BY <2>1 DEF FlagsOK, Staging
    <2>5. /\ settled = FALSE /\ mem.ids \subseteq Plain
          /\ \A s \in MacroSites : flag[s] = FALSE
          /\ \A r \in mem.staged : r.from \in mem.ids
      BY <2>1 DEF ReasonsOK, SitesTyped, Resolving, Staging
    <2>6. ASSUME NEW s \in here \cap Plain, flag[s] = FALSE, s \notin mem.ids
          PROVE  reason'[s] # ""
      BY <1>0, <2>3, <2>6, ReasonsTyped
    <2>7. \A s \in mem.ids : flag[s] = TRUE
      BY <2>1 DEF ReasonsOK
    <2>8. ReasonsOK'
      BY <1>0, <2>1, <2>3, <2>5, <2>6, <2>7 DEF ReasonsOK, Refreshing, Resolving, Staging
    <2> QED
      BY <2>4, <2>8
  <1>7. CASE run_macro_expansion
    <2> DEFINE won == here \cap Expands
               rows == {Row(s, Std, "macro") : s \in won}
               calls == {Row(CallerOf[s], Std, "macro") : s \in won}
    <2>1. /\ pc = "macros" /\ pc' = "flush" /\ UNCHANGED <<here, siteRows, settled>>
          /\ flag' = [s \in Sites |-> flag[s] \/ s \in won]
          /\ reason' = [s \in Sites |-> IF s \in won THEN ""
                                        ELSE IF s \in here \cap MacroSites THEN macro_reason(s)
                                        ELSE reason[s]]
          /\ mem' = [mem EXCEPT !.staged = @ \cup rows, !.stagedCalls = @ \cup calls]
          /\ debt' = debt \cup won
      BY <1>7 DEF run_macro_expansion
    <2>2. won \subseteq MacroSites /\ MacroSites \subseteq Sites /\ won \subseteq here
      BY SiteKinds
    <2>3. \A r \in rows : r.from \in won
      BY DEF Row
    <2> HIDE DEF won, rows, calls
    <2>4. mem'.ids = mem.ids /\ mem'.staged = mem.staged \cup rows
      BY <2>1 DEF SitesTyped, MemType
    <2>5. \A s \in Sites :
              /\ s \in won => flag'[s] = TRUE /\ reason'[s] = ""
              /\ s \notin won => flag'[s] = flag[s]
              /\ s \notin MacroSites => reason'[s] = reason[s]
              /\ s \notin won /\ s \in here \cap MacroSites => reason'[s] = macro_reason(s)
      BY <1>0, <2>1, <2>2
    <2>6. \A s \in mem.ids : Backed(s, siteRows \cup mem.staged)
      BY <2>1 DEF FlagsOK, Staging
    <2>7. \A s \in mem.ids : Backed(s, siteRows \cup (mem.staged \cup rows))
      BY <2>6, BackedGrows
    <2>8. FlagsOK'
      BY <1>0, <2>1, <2>4, <2>5, <2>7 DEF FlagsOK, Staging
    <2>9. /\ settled = FALSE /\ mem.ids \subseteq Plain
          /\ \A s \in MacroSites : flag[s] = FALSE
          /\ \A r \in mem.staged : r.from \in mem.ids
          /\ \A s \in mem.ids : reason[s] = ""
          /\ \A s \in here \cap Plain : flag[s] = FALSE => reason[s] # ""
      BY <2>1 DEF ReasonsOK, SitesTyped, Resolving, Staging
    <2>10. \A s \in mem.ids : reason'[s] = ""
      BY <1>0, <2>5, <2>9 DEF Plain
    <2>11. \A r \in mem'.staged : reason'[r.from] = ""
      BY <2>2, <2>3, <2>4, <2>5, <2>9, <2>10
    <2>12. ASSUME NEW s \in here, flag'[s] = FALSE
           PROVE  reason'[s] # ""
      <3>1. s \in Sites /\ s \notin won /\ flag[s] = FALSE
        BY <1>0, <2>5, <2>12
      <3>2. CASE s \in MacroSites
        BY <2>5, <3>1, <3>2, ReasonsTyped
      <3>3. CASE s \notin MacroSites
        BY <2>5, <2>9, <3>1, <3>3 DEF Plain
      <3> QED
        BY <3>2, <3>3
    <2>13. ASSUME NEW s \in here, flag'[s] = TRUE, s \notin debt'
           PROVE  reason'[s] = ""
      BY <1>0, <2>1, <2>5, <2>9, <2>13
    <2>14. ReasonsOK'
      BY <2>1, <2>4, <2>9, <2>10, <2>11, <2>12, <2>13
         DEF ReasonsOK, Refreshing, Resolving, Staging
    <2> QED
      BY <2>8, <2>14
  <1>8. CASE flush
    <2> DEFINE paid == {r.from : r \in mem.staged} \cup mem.ids
    <2>1. /\ pc = "flush" /\ pc' = "idle" /\ UNCHANGED <<here, flag, reason>>
          /\ siteRows' = siteRows \cup mem.staged
          /\ debt' = debt \ paid
          /\ settled' = (rowsForm /\ debt' = {})
      BY <1>8 DEF flush
    <2>2. \A s \in paid : s \in mem.ids \/ \E r \in mem.staged : r.from = s
      OBVIOUS
    <2> HIDE DEF paid
    <2>3. settled' = TRUE => debt' = {}
      BY <2>1
    <2>4. \A s \in mem.ids : Backed(s, siteRows')
      BY <2>1 DEF FlagsOK, Staging
    <2>5. \A s \in paid : Backed(s, siteRows')
      BY <2>1, <2>2, <2>4 DEF Backed, HasRow
    <2>6. FlagsOK'
      <3>1. \A s \in here : flag[s] = TRUE => s \in debt \/ Backed(s, siteRows')
        <4>1. siteRows \subseteq siteRows'
          BY <2>1
        <4> QED
          BY <1>0, <4>1, BackedGrows
      <3> QED
        BY <2>1, <2>5, <3>1 DEF FlagsOK, Staging
    <2>7. /\ \A s \in mem.ids : reason[s] = ""
          /\ \A r \in mem.staged : reason[r.from] = ""
          /\ \A s \in here : flag[s] = FALSE => reason[s] # ""
      BY <2>1 DEF ReasonsOK
    <2>8. \A s \in paid : reason[s] = ""
      BY <2>2, <2>7
    <2>9. ReasonsOK'
      BY <1>0, <2>1, <2>3, <2>7, <2>8 DEF ReasonsOK, Refreshing, Resolving, Staging
    <2> QED
      BY <2>6, <2>9
  <1> QED
    BY <1>1, <1>2, <1>3, <1>4, <1>5, <1>6, <1>7, <1>8 DEF Resolve

LEMMA LspState ==
    ASSUME StateInv, LspPass
    PROVE  FlagsOK' /\ ReasonsOK'
  <1> USE DEF StateInv
  <1>0. /\ here \subseteq Sites /\ debt \subseteq Sites
        /\ \A s \in Sites : flag[s] = TRUE \/ flag[s] = FALSE
        /\ \A s \in here : flag[s] = TRUE => s \in debt \/ Backed(s, siteRows)
        /\ \A s \in here : flag[s] = TRUE /\ s \notin debt => reason[s] = ""
        /\ mem.todo \subseteq Sites /\ mem.done \subseteq Sites \X Targets
        /\ mem.out \subseteq Sites /\ mem.twins \subseteq Sites /\ mem.ext \subseteq Sites
    BY SiteFacts DEF FlagsOK, ReasonsOK
  <1>1. CASE LspBegins
    <2> DEFINE open == collect_unresolved_callsites
    <2>1. /\ pc = "idle" /\ pc' = "lsp"
          /\ UNCHANGED <<here, flag, reason, siteRows, debt, settled>>
          /\ mem'.todo = open /\ mem'.done = {}
          /\ mem'.out = {} /\ mem'.twins = {} /\ mem'.ext = {}
      BY <1>1 DEF LspBegins, EmptyMem
    <2>2. \A s \in open : flag[s] = FALSE
      BY <1>0 DEF collect_unresolved_callsites
    <2> HIDE DEF open
    <2>3. FlagsOK'
      BY <1>0, <2>1 DEF FlagsOK, Staging
    <2>4. Wins' = {} /\ Asked' = open
      BY <2>1 DEF Wins, Asked
    <2>5. ReasonsOK'
      BY <1>0, <2>1, <2>2, <2>4 DEF ReasonsOK, Refreshing, Resolving, Staging
    <2> QED
      BY <2>3, <2>5
  <1>2. CASE record
    <2>1. /\ pc = "lsp" /\ pc' = "lsp" /\ UNCHANGED <<here, flag, reason, debt, settled>>
      BY <1>2 DEF record
    <2>2. PICK s \in mem.todo : \/ \E t \in nodes : lsp_edge(s, t)
                                \/ NoEdge(s)
      BY <1>2 DEF record
    <2>3. /\ \A x \in Asked : flag[x] = FALSE /\ x \notin Wins
          /\ \A x \in mem.todo : x \notin mem.out \cup mem.twins \cup mem.ext
          /\ \A p \in mem.done : Backed(p[1], siteRows)
          /\ settled = TRUE => debt = {} /\ \A x \in here : flag[x] = FALSE => reason[x] # ""
      BY <2>1 DEF ReasonsOK, FlagsOK
    <2>4. /\ siteRows \subseteq siteRows' /\ mem'.todo = mem.todo \ {s} /\ mem'.out = mem.out
          /\ \A p \in mem'.done : Backed(p[1], siteRows')
          /\ \A x \in mem'.twins \cup mem'.ext : x \in mem.twins \cup mem.ext \cup {s}
          /\ \/ Wins' = Wins
             \/ Wins' = Wins \cup {s} /\ mem'.twins = mem.twins /\ mem'.ext = mem.ext
      <3>1. CASE NoEdge(s)
        <4>1. /\ mem' \in {[mem EXCEPT !.todo = @ \ {s}],
                          [mem EXCEPT !.todo = @ \ {s}, !.twins = @ \cup {s}],
                          [mem EXCEPT !.todo = @ \ {s}, !.ext = @ \cup {s}]}
              /\ siteRows' = siteRows
          BY <3>1 DEF NoEdge
        <4>2. /\ mem'.todo = mem.todo \ {s} /\ mem'.done = mem.done /\ mem'.out = mem.out
              /\ mem'.twins \in {mem.twins, mem.twins \cup {s}}
              /\ mem'.ext \in {mem.ext, mem.ext \cup {s}}
          BY <4>1 DEF SitesTyped, MemType
        <4> QED
          BY <2>3, <4>1, <4>2 DEF Wins
      <3>2. ASSUME NEW t \in nodes, lsp_edge(s, t)
            PROVE  /\ siteRows \subseteq siteRows' /\ Backed(s, siteRows')
                   /\ mem'.todo = mem.todo \ {s} /\ mem'.done = mem.done \cup {<<s, t>>}
                   /\ mem'.twins = mem.twins /\ mem'.ext = mem.ext /\ mem'.out = mem.out
        <4>1. /\ t \in Callee[s]
              /\ mem' = [mem EXCEPT !.todo = @ \ {s}, !.done = @ \cup {<<s, t>>}]
              /\ siteRows' = IF t \in Rowless THEN siteRows
                             ELSE insert_edge_if_absent(siteRows, s, t, "lsp")
          BY <3>2 DEF lsp_edge, Candidates
        <4>2. siteRows \subseteq siteRows' /\ Backed(s, siteRows')
          BY <4>1, InsertFacts DEF Backed
        <4> QED
          BY <4>1, <4>2 DEF SitesTyped, MemType
      <3>3. CASE ~NoEdge(s)
        <4>1. PICK t \in nodes : lsp_edge(s, t)
          BY <2>2, <3>3
        <4>2. /\ siteRows \subseteq siteRows' /\ Backed(s, siteRows')
              /\ mem'.todo = mem.todo \ {s} /\ mem'.done = mem.done \cup {<<s, t>>}
              /\ mem'.twins = mem.twins /\ mem'.ext = mem.ext /\ mem'.out = mem.out
          BY <3>2, <4>1
        <4>3. \A p \in mem'.done : Backed(p[1], siteRows')
          BY <2>3, <4>2, BackedGrows
        <4>4. Wins' = Wins \cup {s}
          <5> DEFINE pair == <<s, t>>
          <5>1. pair[1] = s /\ mem'.done = mem.done \cup {pair}
            BY <4>2
          <5> HIDE DEF pair
          <5> QED
            BY <5>1 DEF Wins
        <4> QED
          BY <4>2, <4>3, <4>4
      <3> QED
        BY <3>1, <3>3
    <2>5. Asked' \subseteq Asked
      BY <2>2, <2>4 DEF Asked
    <2>6. \A x \in Asked' : x \notin Wins'
      BY <2>2, <2>3, <2>4, <2>5 DEF Asked
    <2>7. FlagsOK'
      BY <1>0, <2>1, <2>4, BackedGrows DEF FlagsOK, Staging
    <2>8. ReasonsOK'
      BY <1>0, <2>1, <2>3, <2>4, <2>5, <2>6 DEF ReasonsOK, Refreshing, Resolving, Staging
    <2> QED
      BY <2>7, <2>8
  <1>3. CASE mark_resolved
    <2>1. /\ pc = "lsp" /\ pc' = "lspReasons"
          /\ UNCHANGED <<here, reason, siteRows, settled>>
          /\ flag' = [s \in Sites |-> flag[s] \/ s \in Wins]
          /\ debt' = debt \cup Wins /\ mem' = [mem EXCEPT !.todo = {}]
      BY <1>3 DEF mark_resolved
    <2>0. /\ mem'.done = mem.done /\ mem'.todo = {} /\ mem'.out = mem.out
          /\ mem'.twins = mem.twins /\ mem'.ext = mem.ext
      BY <2>1 DEF SitesTyped, MemType
    <2>2. Wins' = Wins /\ Asked' \subseteq Asked
      BY <2>0 DEF Wins, Asked
    <2>3. Wins \subseteq Sites /\ Asked \subseteq Sites
      BY <1>0 DEF Wins, Asked
    <2>4. \A s \in Sites : /\ s \in Wins => flag'[s] = TRUE
                           /\ s \notin Wins => flag'[s] = flag[s]
      BY <1>0, <2>1
    <2>5. FlagsOK'
      BY <1>0, <2>0, <2>1, <2>4 DEF FlagsOK, Staging, Wins
    <2>6. /\ \A s \in Asked : flag[s] = FALSE /\ s \notin Wins
          /\ settled = TRUE => debt = {} /\ \A s \in here : flag[s] = FALSE => reason[s] # ""
      BY <2>1 DEF ReasonsOK
    <2>7. settled = TRUE => \A s \in here : flag'[s] = FALSE => reason'[s] # ""
      BY <1>0, <2>1, <2>4, <2>6
    <2>8. ReasonsOK'
      BY <1>0, <2>1, <2>2, <2>3, <2>4, <2>6, <2>7 DEF ReasonsOK, Refreshing, Resolving, Staging
    <2> QED
      BY <2>5, <2>8
  <1>4. CASE clear_callsite_reasons
    <2>1. /\ pc = "lspReasons" /\ pc' = "lspOutside"
          /\ UNCHANGED <<here, flag, siteRows, settled>>
          /\ debt' = debt \ Wins /\ mem' = [mem EXCEPT !.done = {}]
          /\ reason' = [s \in Sites |-> IF s \in Wins THEN "" ELSE reason[s]]
      BY <1>4 DEF clear_callsite_reasons, SetReason
    <2>2. /\ \A s \in Asked : flag[s] = FALSE /\ s \notin Wins
          /\ \A s \in Wins : flag[s] = TRUE
          /\ \A s \in Wins : Backed(s, siteRows)
          /\ settled = TRUE => /\ debt \subseteq Wins
                               /\ \A s \in here : flag[s] = FALSE => reason[s] # ""
      BY <2>1 DEF ReasonsOK, FlagsOK, Wins
    <2>0. /\ mem'.done = {} /\ mem'.todo = mem.todo /\ mem'.out = mem.out
          /\ mem'.twins = mem.twins /\ mem'.ext = mem.ext
      BY <2>1 DEF SitesTyped, MemType
    <2>3. Wins' = {} /\ Asked' = Asked
      BY <2>0 DEF Wins, Asked
    <2>4. \A s \in Sites : /\ s \in Wins => reason'[s] = ""
                           /\ s \notin Wins => reason'[s] = reason[s]
      BY <2>1
    <2>5. FlagsOK'
      BY <1>0, <2>1, <2>2 DEF FlagsOK, Staging
    <2>6. ReasonsOK'
      BY <1>0, <2>1, <2>2, <2>3, <2>4
         DEF ReasonsOK, Refreshing, Resolving, Staging
    <2> QED
      BY <2>5, <2>6
  <1>5. CASE LspOutside \/ LspTwins \/ promote_callsite_reason_to_external
    <2>1. /\ pc \in {"lspOutside", "lspTwins", "lspExternal"}
          /\ pc' \in {"lspTwins", "lspExternal", "idle"}
          /\ UNCHANGED <<here, flag, siteRows, settled, debt>>
          /\ mem' \in {[mem EXCEPT !.out = {}], [mem EXCEPT !.twins = {}], EmptyMem}
      BY <1>5 DEF LspOutside, LspTwins, promote_callsite_reason_to_external, SetReason
    <2>0. /\ mem'.done \subseteq mem.done /\ mem'.todo \subseteq mem.todo
          /\ mem'.out \subseteq mem.out /\ mem'.twins \subseteq mem.twins
          /\ mem'.ext \subseteq mem.ext
      BY <2>1 DEF SitesTyped, MemType, EmptyMem
    <2> DEFINE Set(ss, why) == reason' = [s \in Sites |-> IF s \in ss THEN why ELSE reason[s]]
    <2>9. \/ Set(mem.out, "outside_build_targets")
          \/ Set(mem.twins, "cfg_twins")
          \/ Set({s \in mem.ext : ~flag[s] /\ reason[s] \in Improvable}, "external_callee")
      BY <1>5 DEF LspOutside, LspTwins, promote_callsite_reason_to_external, SetReason
    <2>2. PICK ss \in SUBSET Asked, why \in {"outside_build_targets", "cfg_twins",
                                             "external_callee"} :
             reason' = [s \in Sites |-> IF s \in ss THEN why ELSE reason[s]]
      BY <2>9 DEF Asked
    <2> HIDE DEF Set
    <2>3. \A s \in Asked : flag[s] = FALSE /\ s \notin Wins
      BY <2>1 DEF ReasonsOK
    <2>4. settled = TRUE => debt = {} /\ \A s \in here : flag[s] = FALSE => reason[s] # ""
      BY <2>1 DEF ReasonsOK
    <2>5. \A s \in Sites : /\ flag[s] = TRUE => reason'[s] = reason[s]
                           /\ reason[s] # "" => reason'[s] # ""
      BY <2>2, <2>3
    <2>6. Wins' \subseteq Wins /\ Asked' \subseteq Asked
      BY <2>0 DEF Wins, Asked
    <2>7. FlagsOK'
      BY <1>0, <2>1 DEF FlagsOK, Staging
    <2>8. ReasonsOK'
      BY <1>0, <2>1, <2>3, <2>4, <2>5, <2>6
         DEF ReasonsOK, Refreshing, Resolving, Staging
    <2> QED
      BY <2>7, <2>8
  <1>6. CASE mark_outside_targets
    <2>1. /\ pc = "lsp" /\ pc' = "lsp"
          /\ UNCHANGED <<here, flag, reason, siteRows, debt, settled>>
      BY <1>6 DEF mark_outside_targets
    <2>2. PICK f \in Outside :
             mem' = [mem EXCEPT !.todo = @ \ In({f}), !.out = @ \cup (mem.todo \cap In({f}))]
      BY <1>6 DEF mark_outside_targets
    <2>3. /\ mem'.todo = mem.todo \ In({f}) /\ mem'.out = mem.out \cup (mem.todo \cap In({f}))
          /\ mem'.done = mem.done /\ mem'.twins = mem.twins /\ mem'.ext = mem.ext
      BY <2>2 DEF SitesTyped, MemType
    <2>4. Wins' = Wins /\ Asked' = Asked
      BY <2>3 DEF Wins, Asked
    <2>5. FlagsOK'
      BY <1>0, <2>1, <2>3 DEF FlagsOK, Staging
    <2>6. ReasonsOK'
      BY <1>0, <2>1, <2>3, <2>4 DEF ReasonsOK, Refreshing, Resolving, Staging
    <2> QED
      BY <2>5, <2>6
  <1> QED
    BY <1>1, <1>2, <1>3, <1>4, <1>5, <1>6 DEF LspPass, LspReasons

LEMMA StateInvStep ==
    ASSUME StateInv, [SitesNext]_siteVars
    PROVE  StateInv'
  <1>1. CASE UNCHANGED siteVars
    <2>1. UNCHANGED <<here, flag, reason, siteRows, mem, pc, dirty, debt, settled>>
      BY <1>1 DEF siteVars
    <2>2. In(dirty)' = In(dirty) /\ Wins' = Wins /\ Asked' = Asked
      BY <2>1 DEF In, Wins, Asked
    <2>3. FlagsOK'
      BY <2>1, <2>2 DEF StateInv, FlagsOK
    <2>4. ReasonsOK'
      BY <2>1, <2>2 DEF StateInv, ReasonsOK
    <2> QED
      BY <2>3, <2>4, SitesTypedStep DEF StateInv
  <1> QED
    BY <1>1, SitesTypedStep, RefreshState, ResolveState, LspState DEF SitesNext, StateInv

\* No site claims a resolution the graph does not hold, and after a complete resolve over
\* rows of the current form a site has a reason exactly when it is open: for every order
\* and every stop of the refresh, the resolver, the macro layer and the language-server
\* pass.
THEOREM SiteStatesAreBacked == SitesSpec => []SiteStateIsBacked
  <1>1. SitesInit => StateInv
    <2>1. SitesInit => FlagsOK
      BY DEF SitesInit, FlagsOK, Staging
    <2>2. SitesInit => ReasonsOK
      BY DEF SitesInit, ReasonsOK, Refreshing, Resolving, Staging
    <2> QED
      BY <2>1, <2>2, SitesTypedInit DEF StateInv
  <1>2. StateInv /\ [SitesNext]_siteVars => StateInv'
    BY StateInvStep
  <1>3. StateInv => SiteStateIsBacked
    <2> SUFFICES ASSUME StateInv PROVE FlagIsBacked /\ ReasonIffOpen
      BY DEF SiteStateIsBacked
    <2>1. \A s \in here : flag[s] = TRUE \/ flag[s] = FALSE
      BY SiteFacts DEF StateInv
    <2>2. FlagIsBacked
      <3>1. \A s \in here : flag[s] = TRUE => s \in debt \/ Backed(s, siteRows)
        BY DEF StateInv, FlagsOK
      <3> QED
        BY <2>1, <3>1 DEF FlagIsBacked, Backed, HasRow
    <2>3. ASSUME settled, pc \in {"idle", "lsp"}, NEW s \in here
          PROVE  flag[s] <=> reason[s] = ""
      <3>1. settled = TRUE
        BY <2>3 DEF StateInv, SitesTyped
      <3>2. debt = {} /\ (flag[s] = FALSE => reason[s] # "")
        BY <2>3, <3>1 DEF StateInv, ReasonsOK
      <3>3. flag[s] = TRUE => reason[s] = ""
        BY <3>2 DEF StateInv, ReasonsOK
      <3> QED
        BY <2>1, <3>2, <3>3
    <2> QED
      BY <2>2, <2>3 DEF ReasonIffOpen
  <1> QED
    BY <1>1, <1>2, <1>3, PTL DEF SitesSpec

-----------------------------------------------------------------------------
(* A refresh keeps the resolutions of the files it does not touch.           *)

\* Outside a refresh nothing is promised.
LEMMA KeepElsewhere ==
    ASSUME pc' \notin Refreshing \cup {"restore"}
    PROVE  KeepOK'
  BY DEF KeepOK, Refreshing

LEMMA KeepInvStep ==
    ASSUME KeepInv, [SitesNext]_siteVars
    PROVE  KeepInv'
  <1> USE DEF KeepInv
  <1>0. SitesTyped'
    BY SitesTypedStep
  <1>1. CASE Edit \/ index_full \/ Stop \/ restore_sites_with_edge \/ Resolve \/ LspPass
    <2>1. pc' \notin Refreshing \cup {"restore"}
      BY <1>1 DEF Edit, index_full, Stop, restore_sites_with_edge, Resolve,
                  reset_macro_expansion, reset_call_rows, reset_lsp_twin_rows,
                  LspTwinsReopened, CallsMarked, CallsReasoned, run_macro_expansion, flush,
                  LspPass, LspBegins, record, mark_outside_targets, mark_resolved,
                  LspReasons, clear_callsite_reasons, LspOutside, LspTwins,
                  promote_callsite_reason_to_external, SetReason, Refreshing
    <2> QED
      BY <1>0, <2>1, KeepElsewhere
  <1>2. CASE RefreshReopens
    <2> DEFINE reopened == reopen_sites_resolved_into(dirty)
               saved == snapshot_inbound_edges(siteRows, dirty)
    <2>1. /\ pc' = "purge" /\ UNCHANGED <<dirty, src, siteRows>>
          /\ flag' = [s \in Sites |-> flag[s] /\ s \notin reopened]
          /\ before' = {s \in here \ In(dirty) : flag[s] /\ \E r \in siteRows :
                            r.from = s /\ r.to \in src \cup {Std}}
      BY <1>2 DEF RefreshReopens, treeVars
    <2>2. mem'.ids = reopened /\ mem'.saved = saved
      BY <1>2 DEF RefreshReopens, EmptyMem
    <2>3. \A r \in siteRows : r.to \in In(dirty) /\ r.from \notin In(dirty) => r \in saved
      BY DEF snapshot_inbound_edges
    <2>4. In(dirty)' = In(dirty)
      BY <2>1 DEF In
    <2>5. Std \notin In(dirty)
      BY SiteKinds DEF In, Std
    <2> HIDE DEF reopened, saved
    <2>6. ASSUME NEW s \in before'
          PROVE  /\ s \notin In(dirty)
                 /\ flag'[s] = TRUE \/ s \in mem'.ids
                 /\ \E r \in siteRows \cup saved :
                       /\ r.from = s
                       /\ \/ r \in siteRows /\ r.to \notin In(dirty)
                          \/ r \in saved /\ r.to \in src \cap In(dirty)
      <3>1. s \in Sites /\ s \notin In(dirty) /\ flag[s]
        BY <2>1, <2>6 DEF SitesTyped
      <3>2. flag'[s] = TRUE \/ s \in mem'.ids
        BY <2>1, <2>2, <3>1
      <3>3. PICK r \in siteRows : r.from = s /\ r.to \in src \cup {Std}
        BY <2>1, <2>6
      <3>4. r.to \in In(dirty) => r \in saved /\ r.to \in src
        BY <2>3, <2>5, <3>1, <3>3
      <3> QED
        BY <3>1, <3>2, <3>3, <3>4
    <2>7. KeepOK'
      BY <2>1, <2>2, <2>4, <2>6 DEF KeepOK
    <2> QED
      BY <1>0, <2>7
  <1>3. CASE purge_file_symbols
    <2>1. /\ pc = "purge" /\ pc' = "reparse" /\ UNCHANGED <<dirty, src, mem, before>>
          /\ flag' = [s \in Sites |-> flag[s] /\ s \notin In(dirty)]
          /\ siteRows' = {r \in siteRows : {r.from, r.to} \cap In(dirty) = {}}
      BY <1>3 DEF purge_file_symbols, treeVars
    <2>2. In(dirty)' = In(dirty)
      BY <2>1 DEF In
    <2>3. ASSUME NEW s \in before
          PROVE  /\ s \notin In(dirty)
                 /\ flag'[s] = TRUE \/ s \in mem.ids
                 /\ \E r \in siteRows' \cup mem.saved :
                       /\ r.from = s
                       /\ \/ r \in siteRows' /\ r.to \notin In(dirty)
                          \/ r \in mem.saved /\ r.to \in src \cap In(dirty)
      <3>1. /\ s \in Sites /\ s \notin In(dirty)
            /\ flag[s] = TRUE \/ s \in mem.ids
        BY <2>1 DEF KeepOK, Refreshing, SitesTyped
      <3>2. PICK r \in siteRows \cup mem.saved :
                /\ r.from = s
                /\ \/ r \in siteRows /\ r.to \notin In(dirty)
                   \/ r \in mem.saved /\ r.to \in src \cap In(dirty)
        BY <2>1 DEF KeepOK, Refreshing
      <3>3. r \in siteRows /\ r.to \notin In(dirty) => r \in siteRows'
        BY <2>1, <3>1, <3>2
      <3> QED
        BY <2>1, <3>1, <3>2, <3>3
    <2>4. KeepOK'
      BY <2>1, <2>2, <2>3 DEF KeepOK
    <2> QED
      BY <1>0, <2>4
  <1>4. CASE reparse_modified_file
    <2>1. /\ pc = "reparse" /\ pc' = "relink"
          /\ UNCHANGED <<dirty, src, mem, before, flag, siteRows>>
          /\ nodes' = nodes \cup (src \cap In(dirty))
      BY <1>4 DEF reparse_modified_file, treeVars
    <2>2. In(dirty)' = In(dirty)
      BY <2>1 DEF In
    <2>3. KeepOK'
      BY <2>1, <2>2 DEF KeepOK, Refreshing
    <2> QED
      BY <1>0, <2>3
  <1>5. CASE relink_inbound_edges
    <2>1. /\ pc = "relink" /\ pc' = "restore" /\ UNCHANGED <<mem, before, flag>>
          /\ siteRows' = siteRows \cup {r \in mem.saved : r.to \in nodes}
      BY <1>5 DEF relink_inbound_edges
    <2>2. ASSUME NEW s \in before
          PROVE  (flag[s] = TRUE \/ s \in mem.ids) /\ HasRow(siteRows', s)
      <3>1. src \cap In(dirty) \subseteq nodes /\ (flag[s] = TRUE \/ s \in mem.ids)
        BY <2>1 DEF KeepOK, Refreshing
      <3>2. PICK r \in siteRows \cup mem.saved :
                /\ r.from = s
                /\ \/ r \in siteRows /\ r.to \notin In(dirty)
                   \/ r \in mem.saved /\ r.to \in src \cap In(dirty)
        BY <2>1 DEF KeepOK, Refreshing
      <3> QED
        BY <2>1, <3>1, <3>2 DEF HasRow
    <2>3. KeepOK'
      BY <2>1, <2>2 DEF KeepOK, Refreshing
    <2> QED
      BY <1>0, <2>3
  <1>6. CASE UNCHANGED siteVars
    <2>1. UNCHANGED <<nodes, src, flag, siteRows, mem, pc, dirty, before>>
      BY <1>6 DEF siteVars
    <2>2. In(dirty)' = In(dirty)
      BY <2>1 DEF In
    <2>3. KeepOK'
      BY <2>1, <2>2 DEF KeepOK
    <2> QED
      BY <1>0, <2>3
  <1> QED
    BY <1>1, <1>2, <1>3, <1>4, <1>5, <1>6 DEF SitesNext, Refresh

\* A refresh that runs to its end leaves resolved, with a row, every site of an unchanged
\* file that was resolved into a target the tree still has: the snapshot taken before the
\* purge covers what the purge takes, and only that.
THEOREM ResolutionsAreKept == SitesSpec => RefreshKeepsResolutions
  <1> DEFINE Kept == pc = "restore" /\ pc' = "idle" /\ stops' = stops =>
                       \A s \in before : flag'[s] /\ \E r \in siteRows' : r.from = s
  <1>1. SitesInit => KeepInv
    <2>1. SitesInit => KeepOK
      BY DEF SitesInit, KeepOK, Refreshing
    <2> QED
      BY <2>1, SitesTypedInit DEF KeepInv
  <1>2. KeepInv /\ [SitesNext]_siteVars => KeepInv'
    BY KeepInvStep
  <1>3. KeepInv /\ [SitesNext]_siteVars => [Kept]_siteVars
    <2> SUFFICES ASSUME KeepInv, SitesNext, pc = "restore", pc' = "idle", stops' = stops,
                        NEW s \in before
                 PROVE  flag'[s] /\ \E r \in siteRows' : r.from = s
      OBVIOUS
    <2>1. ~Stop
      <3>1. stops \in Nat
        BY DEF KeepInv, SitesTyped
      <3>2. Stop => stops' = stops + 1
        BY DEF Stop
      <3> QED
        BY <3>1, <3>2
    <2>2. restore_sites_with_edge
      BY <2>1 DEF SitesNext, Edit, index_full, Refresh, RefreshReopens, purge_file_symbols,
                  reparse_modified_file, relink_inbound_edges, Resolve,
                  reset_macro_expansion, reset_call_rows, reset_lsp_twin_rows,
                  LspTwinsReopened, CallsMarked, CallsReasoned, run_macro_expansion, flush,
                  LspPass, LspBegins, record, mark_outside_targets, mark_resolved,
                  LspReasons, clear_callsite_reasons, LspOutside, LspTwins,
                  promote_callsite_reason_to_external, SetReason
    <2>3. /\ flag' = [x \in Sites |-> flag[x] \/
                        (x \in mem.ids /\ \E r \in siteRows : r.from = x)]
          /\ siteRows' = siteRows
      BY <2>2 DEF restore_sites_with_edge
    <2>4. (flag[s] = TRUE \/ s \in mem.ids) /\ \E r \in siteRows : r.from = s
      BY DEF KeepInv, KeepOK, HasRow
    <2>5. s \in Sites
      BY DEF KeepInv, SitesTyped
    <2> QED
      BY <2>3, <2>4, <2>5
  <1> QED
    BY <1>1, <1>2, <1>3, PTL DEF SitesSpec, RefreshKeepsResolutions
=============================================================================
