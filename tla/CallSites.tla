------------------------------ MODULE CallSites ------------------------------
(***************************************************************************)
(* The call sites of a graph and the passes that settle them: the refresh  *)
(* that reopens and restores them around a purge, the static resolver, the *)
(* macro layer and the language-server pass.  Every pass writes the store  *)
(* in several statements and may stop between two of them.                 *)
(*                                                                         *)
(* How a candidate is chosen is in CallResolution; here a callee name stands   *)
(* for its set of targets, and two targets of one name are #[cfg] twins    *)
(* between which the build profile decides.                                *)
(***************************************************************************)
EXTENDS Naturals, FiniteSets

CONSTANTS
    Sites,       \* CallSite ids
    MacroSites,  \* those that are Rust macro invocations
    Expands,     \* macro sites whose expansion names a target
    Untyped,     \* sites on a receiver whose type the static resolver lacks
    Targets,     \* functions, methods and types a call can name
    Rowless,     \* targets of a label with no Calls_CallSite_* table
    Files, Outside,  \* files, and those no Cargo target compiles
    FileOf,      \* the file of a site or target
    CallerOf,    \* the function a site sits in
    Callee,      \* a site's callee name, as the targets that carry it
    MaxEdits, MaxStops

ASSUME SiteKinds == /\ Expands \subseteq MacroSites /\ MacroSites \subseteq Sites
                    /\ Untyped \subseteq Sites \ MacroSites
                    /\ "std" \notin Sites \cup Targets
ASSUME SiteBounds == MaxEdits \in Nat /\ MaxStops \in Nat

Std == "std"         \* the StdlibSymbol every expansion reaches
NoProfile == "none"  \* cfg_active undecided
Plain == Sites \ MacroSites

VARIABLES
    src, cargo, dirty,     \* the tree: targets written, profile, changed files
    nodes, here, active,   \* the graph: targets, site nodes, cfg_active
    flag, reason,          \* CallSite.is_resolved, CallSite.unresolved_reason
    siteRows, callRows,    \* Calls_CallSite_* and Calls_<caller>_* rows
    rowsForm, reasonForm,  \* the two markers
    pc, mem,               \* the pass that runs, and what it holds in memory
    edits, stops,
    before, debt, settled  \* history, see the properties

siteVars == <<src, cargo, dirty, nodes, here, active, flag, reason, siteRows,
              callRows, rowsForm, reasonForm, pc, mem, edits, stops, before,
              debt, settled>>

treeVars == <<src, cargo, dirty, edits>>
markers == <<rowsForm, reasonForm>>

Row(a, t, m) == [from |-> a, to |-> t, method |-> m]
Has(rows, a, t) == \E r \in rows : r.from = a /\ r.to = t
EmptyMem == [saved |-> {}, savedCalls |-> {}, ids |-> {}, staged |-> {},
             stagedCalls |-> {}, todo |-> {}, done |-> {}, out |-> {},
             twins |-> {}, ext |-> {}]

In(fs) == {x \in Sites \cup Targets : FileOf[x] \in fs}

-----------------------------------------------------------------------------
(* The tree, and a full index of it.                                       *)

Edit ==
    /\ pc = "idle" /\ edits < MaxEdits /\ edits' = edits + 1
    /\ \/ \E f \in Files, ts \in SUBSET Targets :
            /\ ts \subseteq In({f})
            /\ src' = (src \ In({f})) \cup ts /\ dirty' = dirty \cup {f}
            /\ UNCHANGED cargo
       \/ \E p \in Targets \cup {NoProfile} :
            cargo' = p /\ cargo # p /\ UNCHANGED <<src, dirty>>
    /\ UNCHANGED <<nodes, here, active, flag, reason, siteRows, callRows, markers,
                   pc, mem, stops, before, debt, settled>>

Blank(ss) == [s \in Sites |-> IF s \in ss THEN "" ELSE reason[s]]

\* A full index starts from no CallSite row and no marker.
index_full ==
    /\ pc = "idle"
    /\ nodes' = src /\ here' = Sites /\ active' = cargo /\ dirty' = {}
    /\ flag' = [s \in Sites |-> FALSE] /\ reason' = Blank(Sites)
    /\ siteRows' = {} /\ callRows' = {}
    /\ rowsForm' = TRUE /\ reasonForm' = FALSE
    /\ debt' = {} /\ settled' = FALSE
    /\ UNCHANGED <<src, cargo, pc, mem, edits, stops, before>>

-----------------------------------------------------------------------------
(* apply_changes, the part that concerns call sites.                       *)

snapshot_inbound_edges(rows, fs) ==
    {r \in rows : r.to \in In(fs) /\ r.from \notin In(fs)}

\* Mutant: the sites whose target is about to be purged stay resolved.
reopen_nothing(fs) == {}

\* The sites outside the purged files that hold a per-site row into one.
reopen_sites_resolved_into(fs) == {r.from : r \in snapshot_inbound_edges(siteRows, fs)}

RefreshReopens ==
    /\ pc = "idle" /\ (dirty # {} \/ cargo # active)
    /\ LET reopened == reopen_sites_resolved_into(dirty) IN
        /\ mem' = [EmptyMem EXCEPT
                     !.saved = snapshot_inbound_edges(siteRows, dirty),
                     !.savedCalls = {r \in callRows : r.to \in In(dirty)
                                         /\ \A s \in In(dirty) \cap Sites : CallerOf[s] # r.from},
                     !.ids = reopened]
        /\ flag' = [s \in Sites |-> flag[s] /\ s \notin reopened]
        /\ reason' = Blank(reopened)
    /\ before' = {s \in here \ In(dirty) : flag[s] /\ \E r \in siteRows :
                      r.from = s /\ r.to \in src \cup {Std}}
    /\ pc' = "purge" /\ settled' = FALSE
    /\ UNCHANGED <<treeVars, nodes, here, active, siteRows, callRows, markers, stops, debt>>

\* Deleting a node takes its rows along.
purge_file_symbols ==
    /\ pc = "purge" /\ pc' = "reparse"
    /\ nodes' = nodes \ In(dirty) /\ here' = here \ In(dirty)
    /\ flag' = [s \in Sites |-> flag[s] /\ s \notin In(dirty)]
    /\ reason' = Blank(In(dirty) \cap Sites)
    /\ siteRows' = {r \in siteRows : {r.from, r.to} \cap In(dirty) = {}}
    /\ callRows' = {r \in callRows : r.to \notin In(dirty)
                        /\ \A s \in In(dirty) \cap Sites : CallerOf[s] # r.from}
    /\ debt' = debt \ In(dirty)
    /\ UNCHANGED <<treeVars, active, markers, mem, stops, before, settled>>

reparse_modified_file ==
    /\ pc = "reparse" /\ pc' = "relink"
    /\ nodes' = nodes \cup (src \cap In(dirty))
    /\ here' = here \cup (Sites \cap In(dirty))
    /\ UNCHANGED <<treeVars, active, flag, reason, siteRows, callRows, markers, mem,
                   stops, before, debt, settled>>

relink_inbound_edges ==
    /\ pc = "relink" /\ pc' = "restore"
    /\ siteRows' = siteRows \cup {r \in mem.saved : r.to \in nodes}
    /\ callRows' = callRows \cup {r \in mem.savedCalls : r.to \in nodes}
    /\ UNCHANGED <<treeVars, nodes, here, active, flag, reason, markers, mem, stops,
                   before, debt, settled>>

\* Mutant: a reopened site whose row came back stays open.
RestoreNothing ==
    /\ pc = "restore" /\ pc' = "idle"
    /\ active' = cargo /\ dirty' = {} /\ mem' = EmptyMem /\ before' = {}
    /\ UNCHANGED <<src, cargo, edits, nodes, here, flag, reason, siteRows, callRows,
                   markers, stops, debt, settled>>

restore_sites_with_edge ==
    /\ pc = "restore" /\ pc' = "idle"
    /\ flag' = [s \in Sites |-> flag[s] \/
                  (s \in mem.ids /\ \E r \in siteRows : r.from = s)]
    /\ active' = cargo /\ dirty' = {} /\ mem' = EmptyMem /\ before' = {}
    /\ UNCHANGED <<src, cargo, edits, nodes, here, reason, siteRows, callRows,
                   markers, stops, debt, settled>>

-----------------------------------------------------------------------------
(* resolve_graph.                                                          *)

Twin(t) == \E s \in Plain : t \in Callee[s] /\ Cardinality(Callee[s]) > 1

\* The build compiles another twin than t.
is_compiled_out(t) == Twin(t) /\ active # NoProfile /\ active # t

Candidates(s) == Callee[s] \cap nodes

\* What the static resolver answers for a site: the one candidate, or the twin
\* the profile names; otherwise no target.
Answer(s) ==
    LET c == IF s \in Untyped THEN {} ELSE Candidates(s) IN
    CASE Cardinality(c) = 1 -> {[to |-> CHOOSE t \in c : TRUE, method |-> "name"]}
      [] Cardinality(c) > 1 /\ active \in c -> {[to |-> active, method |-> "cfg-selected"]}
      [] OTHER -> {}

\* reason::classify: a file outside the targets first, then what the lookup left.
classify(s) ==
    CASE FileOf[s] \in Outside -> "outside_build_targets"
      [] s \in Untyped -> "no_receiver_type"
      [] Cardinality(Candidates(s)) > 1 -> "cfg_twins"
      [] OTHER -> "not_found"

macro_reason(s) ==
    IF FileOf[s] \in Outside THEN "outside_build_targets" ELSE "macro_site"

reset_macro_expansion ==
    /\ pc = "idle" /\ pc' = "resetCalls"
    /\ siteRows' = {r \in siteRows : r.method # "macro"}
    /\ callRows' = {r \in callRows : r.method # "macro"}
    /\ flag' = [s \in Sites |-> flag[s] /\ s \notin MacroSites]
    /\ settled' = FALSE
    /\ UNCHANGED <<treeVars, nodes, here, active, reason, markers, mem, stops, before,
                   debt>>

\* The sites are opened before their rows go.
reset_call_rows ==
    /\ pc = "resetCalls" /\ pc' = "resetLsp"
    /\ LET chosen == {r \in siteRows : r.method = "cfg-selected"} IN
        /\ flag' = [s \in Sites |-> flag[s] /\ \A r \in chosen : r.from # s]
        /\ siteRows' = siteRows \ chosen
        /\ callRows' = {r \in callRows : r.method # "cfg-selected"}
    /\ UNCHANGED <<treeVars, nodes, here, active, reason, markers, mem, stops, before,
                   debt, settled>>

\* The rows go first, and the sites that lost one are opened in a last statement.
reset_lsp_twin_rows ==
    /\ pc = "resetLsp" /\ pc' = "reopenLsp"
    /\ LET lost(rows) == {r \in rows : r.method = "lsp" /\ is_compiled_out(r.to)} IN
        /\ siteRows' = siteRows \ lost(siteRows)
        /\ callRows' = callRows \ lost(callRows)
        /\ mem' = [EmptyMem EXCEPT !.ids = {r.from : r \in lost(siteRows)}]
        /\ debt' = debt \cup {r.from : r \in lost(siteRows)}
    /\ UNCHANGED <<treeVars, nodes, here, active, flag, reason, markers, stops, before,
                   settled>>

LspTwinsReopened ==
    /\ pc = "reopenLsp" /\ pc' = "calls"
    /\ flag' = [s \in Sites |-> flag[s] /\ s \notin mem.ids]
    /\ reason' = [s \in Sites |-> IF s \in mem.ids THEN "cfg_twins" ELSE reason[s]]
    /\ debt' = debt \ mem.ids /\ mem' = EmptyMem
    /\ UNCHANGED <<treeVars, nodes, here, active, siteRows, callRows, markers, stops,
                   before, settled>>

\* Mutant: what the graph already holds is not looked up.
add_unchecked(rows, staged, r) == staged \cup {r}

\* EdgeBuffer.add: a row is staged only when no row joins the same two nodes.
add(rows, staged, r) ==
    IF Has(rows, r.from, r.to) \/ Has(staged, r.from, r.to) THEN staged
    ELSE staged \cup {r}

\* The staged rows of a set of resolved sites: every site has at most one answer.
StagedSites(ss) ==
    UNION {UNION {add(siteRows, {}, Row(s, a.to, a.method)) :
                    a \in {x \in Answer(s) : x.to \notin Rowless}} : s \in ss}

\* Sites of one caller that reach one target share a caller row: the first
\* one scanned stages it.
StagedCalls(ss) ==
    LET Method(c, t) == CHOOSE m \in {"name", "cfg-selected"} :
            \E s \in ss : CallerOf[s] = c /\ [to |-> t, method |-> m] \in Answer(s)
    IN {Row(p[1], p[2], Method(p[1], p[2])) :
          p \in {q \in {CallerOf[s] : s \in ss} \X nodes :
             /\ ~Has(callRows, q[1], q[2])
             /\ \E s \in ss : CallerOf[s] = q[1] /\ \E a \in Answer(s) : a.to = q[2]}}

\* resolve_calls marks what it resolved at once; the rows follow at the flush.
CallsMarked ==
    /\ pc = "calls" /\ pc' = "callReasons"
    /\ LET won == {s \in here \cap Plain : Answer(s) # {}} IN
        /\ flag' = [s \in Sites |-> flag[s] \/ s \in won]
        /\ mem' = [EmptyMem EXCEPT !.ids = won, !.staged = StagedSites(won),
                                   !.stagedCalls = StagedCalls(won)]
        /\ debt' = debt \cup won
    /\ UNCHANGED <<treeVars, nodes, here, active, reason, siteRows, callRows, markers,
                   stops, before, settled>>

\* A resolved site carries no reason, an open one its own; a site the language
\* server resolved is not open, whatever this pass could not do.
write_callsite_reasons(ss) ==
    [s \in Sites |-> IF s \in ss /\ ~flag[s] THEN classify(s) ELSE reason[s]]

CallsReasoned ==
    /\ pc = "callReasons" /\ pc' = "macros"
    /\ reason' = [s \in Sites |->
                    IF s \in mem.ids THEN ""
                    ELSE write_callsite_reasons(here \cap Plain)[s]]
    /\ UNCHANGED <<treeVars, nodes, here, active, flag, siteRows, callRows, markers,
                   mem, stops, before, debt, settled>>

\* The marker that says every open site has its reason is written only over
\* rows of the current form, and withdrawn from any other graph.
write_callsite_reason_marker == reasonForm' = rowsForm

\* The macro layer, and the marker.
run_macro_expansion ==
    /\ pc = "macros" /\ pc' = "flush"
    /\ LET won == here \cap Expands IN
        /\ flag' = [s \in Sites |-> flag[s] \/ s \in won]
        /\ reason' = [s \in Sites |-> IF s \in won THEN ""
                                      ELSE IF s \in here \cap MacroSites THEN macro_reason(s)
                                      ELSE reason[s]]
        /\ mem' = [mem EXCEPT !.staged = @ \cup {Row(s, Std, "macro") : s \in won},
                              !.stagedCalls = @ \cup {Row(CallerOf[s], Std, "macro") : s \in won}]
        /\ debt' = debt \cup won
    /\ write_callsite_reason_marker
    /\ UNCHANGED <<treeVars, nodes, here, active, siteRows, callRows, rowsForm, stops,
                   before, settled>>

flush ==
    /\ pc = "flush" /\ pc' = "idle"
    /\ siteRows' = siteRows \cup mem.staged
    /\ callRows' = callRows \cup mem.stagedCalls
    /\ debt' = debt \ ({r.from : r \in mem.staged} \cup mem.ids)
    /\ settled' = (rowsForm /\ debt' = {}) /\ mem' = EmptyMem
    /\ UNCHANGED <<treeVars, nodes, here, active, flag, reason, markers, stops, before>>

-----------------------------------------------------------------------------
(* resolve_with_lsp.  The server's answers are any.                        *)

\* Every site the static resolver left open, macros apart.
collect_unresolved_callsites == {s \in here \cap Plain : ~flag[s]}

\* No open site, or a server that is missing or could not load the project:
\* nothing is asked and nothing written.
LspBegins ==
    /\ pc = "idle" /\ collect_unresolved_callsites # {}
    /\ pc' = "lsp"
    /\ mem' = [EmptyMem EXCEPT !.todo = collect_unresolved_callsites]
    /\ UNCHANGED <<treeVars, nodes, here, active, flag, reason, siteRows, callRows,
                   markers, stops, before, debt, settled>>

insert_edge(rows, a, t, m) == rows \cup {Row(a, t, m)}
insert_edge_if_absent(rows, a, t, m) ==
    IF Has(rows, a, t) THEN rows ELSE insert_edge(rows, a, t, m)

\* A definition that maps onto a node of the right name, which the build of
\* this caller does not rule out, is written as it comes.
lsp_edge(s, t) ==
    /\ t \in Candidates(s) /\ ~is_compiled_out(t)
    /\ callRows' = insert_edge_if_absent(callRows, CallerOf[s], t, "lsp")
    /\ siteRows' = IF t \in Rowless THEN siteRows
                   ELSE insert_edge_if_absent(siteRows, s, t, "lsp")
    /\ mem' = [mem EXCEPT !.todo = @ \ {s}, !.done = @ \cup {<<s, t>>}]

\* Any other outcome of one site: no answer, a twin the build compiles out, a
\* definition outside the root.
NoEdge(s) ==
    /\ \/ mem' = [mem EXCEPT !.todo = @ \ {s}]
       \/ /\ \E t \in Candidates(s) : is_compiled_out(t)
          /\ mem' = [mem EXCEPT !.todo = @ \ {s}, !.twins = @ \cup {s}]
       \/ mem' = [mem EXCEPT !.todo = @ \ {s}, !.ext = @ \cup {s}]
    /\ UNCHANGED <<siteRows, callRows>>

record ==
    /\ pc = "lsp"
    /\ \E s \in mem.todo : /\ FileOf[s] \notin Outside
                           /\ (\E t \in nodes : lsp_edge(s, t)) \/ NoEdge(s)
    /\ UNCHANGED <<treeVars, nodes, here, active, flag, reason, markers, pc, stops,
                   before, debt, settled>>

\* The sites of a file outside the targets are attributed without asking.
mark_outside_targets ==
    /\ pc = "lsp"
    /\ \E f \in Outside :
          /\ mem.todo \cap In({f}) # {}
          /\ mem' = [mem EXCEPT !.todo = @ \ In({f}), !.out = @ \cup (mem.todo \cap In({f}))]
    /\ UNCHANGED <<treeVars, nodes, here, active, flag, reason, siteRows, callRows,
                   markers, pc, stops, before, debt, settled>>

\* The sites or the budget run out.  Flags first, then the reasons, in one statement
\* for each outcome.
Wins == {p[1] : p \in mem.done}

mark_resolved ==
    /\ pc = "lsp" /\ pc' = "lspReasons"
    /\ flag' = [s \in Sites |-> flag[s] \/ s \in Wins]
    /\ debt' = debt \cup Wins /\ mem' = [mem EXCEPT !.todo = {}]
    /\ UNCHANGED <<treeVars, nodes, here, active, reason, siteRows, callRows, markers,
                   stops, before, settled>>

Improvable == {"not_found", "no_receiver_type"}

SetReason(from, to, ss, why) ==
    /\ pc = from /\ pc' = to
    /\ reason' = [s \in Sites |-> IF s \in ss THEN why ELSE reason[s]]
    /\ UNCHANGED <<treeVars, nodes, here, active, flag, siteRows, callRows, markers,
                   stops, before, settled>>

clear_callsite_reasons ==
    /\ SetReason("lspReasons", "lspOutside", Wins, "")
    /\ debt' = debt \ Wins /\ mem' = [mem EXCEPT !.done = {}]
LspOutside ==
    /\ SetReason("lspOutside", "lspTwins", mem.out, "outside_build_targets")
    /\ mem' = [mem EXCEPT !.out = {}] /\ UNCHANGED debt
LspTwins ==
    /\ SetReason("lspTwins", "lspExternal", mem.twins, "cfg_twins")
    /\ mem' = [mem EXCEPT !.twins = {}] /\ UNCHANGED debt
promote_callsite_reason_to_external ==
    /\ SetReason("lspExternal", "idle",
                 {s \in mem.ext : ~flag[s] /\ reason[s] \in Improvable}, "external_callee")
    /\ mem' = EmptyMem /\ UNCHANGED debt

\* The server process stops in the middle of a pass: what was written stays.
Stop ==
    /\ pc # "idle" /\ stops < MaxStops /\ stops' = stops + 1
    /\ pc' = "idle" /\ mem' = EmptyMem /\ before' = {} /\ settled' = FALSE
    /\ UNCHANGED <<treeVars, nodes, here, active, flag, reason, siteRows, callRows,
                   markers, debt>>

Refresh == \/ RefreshReopens \/ purge_file_symbols \/ reparse_modified_file
           \/ relink_inbound_edges \/ restore_sites_with_edge
Resolve == \/ reset_macro_expansion \/ reset_call_rows \/ reset_lsp_twin_rows
           \/ LspTwinsReopened \/ CallsMarked \/ CallsReasoned
           \/ run_macro_expansion \/ flush
LspReasons == clear_callsite_reasons \/ LspOutside \/ LspTwins
                 \/ promote_callsite_reason_to_external
LspPass == LspBegins \/ record \/ mark_outside_targets \/ mark_resolved \/ LspReasons

\* A graph of an earlier build has no rows marker until a full index.
SitesInit ==
    /\ src = Targets /\ cargo = NoProfile /\ dirty = {}
    /\ nodes = Targets /\ here = Sites /\ active = NoProfile
    /\ flag = [s \in Sites |-> FALSE] /\ reason = [s \in Sites |-> ""]
    /\ siteRows = {} /\ callRows = {}
    /\ rowsForm \in BOOLEAN /\ reasonForm = FALSE
    /\ pc = "idle" /\ mem = EmptyMem /\ edits = 0 /\ stops = 0
    /\ before = {} /\ debt = {} /\ settled = FALSE

SitesNext == Edit \/ index_full \/ Refresh \/ Resolve \/ LspPass \/ Stop
SitesSpec == SitesInit /\ [][SitesNext]_siteVars

-----------------------------------------------------------------------------
(* Properties.  `debt` holds the sites a pass has marked resolved and still *)
(* owes a statement: it stays when the pass stops.                         *)

\* No site claims a resolution the graph does not hold, whatever was purged
\* under it and wherever a refresh stopped: a flagged site has its per-site
\* row, but for a target whose label has no per-site table (the gap
\* stale_sites.rs accepts) and for the statement a pass still owes.
FlagIsBacked ==
    \A s \in here : flag[s] =>
        \/ s \in debt \/ (\E r \in siteRows : r.from = s)
        \/ Callee[s] \cap Rowless # {}

\* A refresh takes no resolution from a site of an unchanged file whose target
\* is still written in the tree: the row is relinked and the flag set again.
RefreshKeepsResolutions ==
    [][pc = "restore" /\ pc' = "idle" /\ stops' = stops =>
         \A s \in before : flag'[s] /\ \E r \in siteRows' : r.from = s]_siteVars

\* After a complete resolve over rows of the current form, and through the
\* language-server passes that follow, a site has a reason exactly when it is
\* open.
ReasonIffOpen ==
    settled /\ pc \in {"idle", "lsp"} => \A s \in here : flag[s] <=> reason[s] = ""

\* Passes that stop and run again, and passes of two kinds that reach one
\* target, never join two nodes twice (get_impact counts rows).
NoParallelRows ==
    \A rows \in {siteRows, callRows} : \A r, q \in rows :
        r.from = q.from /\ r.to = q.to => r = q

\* The two halves a reader of a site sees, its flag and its reason, agree with
\* the rows and with each other.
SiteStateIsBacked == FlagIsBacked /\ ReasonIffOpen
=============================================================================
