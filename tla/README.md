# TLA+ models of the ai-architect codebase-intelligence server

This directory holds a formal model of the MCP server under `src/` (Rust): TLA+
modules, the TLC configurations that check them on small instances, and proofs
checked by TLAPS. It is meant to be read beside the code; `PROJECT.json` maps
every definition to the lines it models.

## 1. The system and its parts

The program is one process per MCP host. It reads JSON-RPC requests from stdin,
executes one tool call at a time to its end (`main.rs`) and keeps everything it
must remember in files: a run directory with one record per *finding*, and a
graph directory (a LadybugDB property graph plus `meta.json` and
`file_manifest.json`) per indexed repository. Inside a process nothing runs
concurrently except the thread that reads frames from a language server.
Several processes may work in the same directories, and a process may end at
any point.

| Part | State | Operations | What is hard |
|---|---|---|---|
| Transport and dispatch (`main.rs`, `tool_profile.rs`, `mcp_prompts.rs`, `tool_schemas*`) | protocol version, tool profile | read a request, dispatch, answer | nothing concurrent; request/response shape only |
| Finding records, stage 1 (`finding_extract.rs`, `finding_refine.rs`, `finding_index.rs`) | `stage-1.*.json`, `index.json` | `extract_finding`, `refine_finding` | a call writes several files; re-running an earlier stage must not lose later ones; a crash between writes |
| Clarification sessions, stage 2 (`verification_core.rs`, `verification_ops.rs`) | `stage-2.session.json`, `stage-2.verified.json`, `index.json` | `start_`, `append_`, `finalize_`, `abort_` | read-validate-rewrite without a lock; three writes in finalize; crash windows; terminal states |
| Atomic files (`atomic_file.rs`, `handler_util.rs`) | files | `atomic_write` | all-or-nothing replacement |
| Graph handles (`graph_store/`, `graph_cache.rs`) | open database handles, the per-path cache | open, close, cached open, evict | a handle checkpoints its own view when it closes; a stale cached handle |
| Indexer (`indexer/`) | the graph, `file_manifest.json`, coverage | full index, incremental index, bootstrap | the graph and the manifest are separate commits; renamed and stale files |
| Resolver (`resolver/`, `resolver_layers.rs`, `lsp_resolver/`, `macro_expansion`) | edges of the graph | import, call and type resolution, LSP refinement | ambiguity; idempotent re-resolution |
| Language-server client (`lsp_client/`) | pending request ids, reader thread | request, notification, readiness | late and unrelated answers, timeouts, a dead server |
| Clustering and processes (`clustering/`) | community and process nodes | Louvain, process tracing, impact | fixed points and bounded search |
| Search (`search/`) | BM25 and vector indexes | build, query, rank fusion | numerics |
| Freshness and provenance (`graph_freshness.rs`, `git_provenance.rs`, `artifact.rs`) | `meta.json`, exported artifacts | stamp, compare, export, import | two files that must belong together |
| Read tools (`query_handlers`, pagination, `response_budget.rs`, `search_context`, `semantic_diff.rs`, ...) | none | queries | bounded answers, cursors |
| History and tests (`history/`, `cochange.rs`, `trace_ingest.rs`) | graph edges | ingest, decay | repeated ingestion |
| PRD tools (`prd_input`, `prd_validator`, `security_gates`, `doc_claims`, `epistemic.rs`) | files | prepare, validate | rule tables |
| Host installation (`host_install.rs`, `cli.rs`, `hook_augment.rs`) | host configuration files | install, remove | merging into a file it does not own |
| Parsers (`parser/`) | none | tree-sitter extraction per language | size, not control |

### What makes the main parts correct

- **Finding records.** The index names nothing that is not on disk; what a call
  reported `ok` survives every later call; re-running an earlier stage keeps
  what later stages added.
- **Clarification sessions.** A transcript only grows, a finalized session is
  never written again and has the receipt of exactly its own transcript, a
  finalized finding becomes visible in the index. Together: the tools behave as
  if each call were one step.
- **Graph handles.** Opening, caching, evicting and closing handles never changes
  what a graph holds; a cached read is never answered from an old view; a handle
  in use can always be found by whoever must refuse to write.
- **Indexing.** A call that finished leaves the graph a full index of the tree
  would give; the manifest never hides a file that the graph does not hold as it
  stands; repeated calls repair whatever a failed or stopped call left.
- **Freshness.** A receipt that says "fresh" belongs to a graph that was built
  from the files it was compared with.
- **Call sites.** A site that says "resolved" has the row it speaks of, a site
  with a reason is open, a refresh takes no resolution away from a site whose
  target is still written, and no two passes join the same nodes twice.
- **Language-server client.** An answer is given to the request it belongs to and
  to no other; every session ends; the wait for readiness is not cut short.
- **Bootstrap.** An imported and filled snapshot equals a full index of the
  working tree, and its coverage report speaks of the texts it was built from.
- **Co-change.** The couples are those the mined history earns, in whatever
  passes it was read.
- **Host installation.** A file of another program that cannot be understood is
  left as it is, and nobody else's entry is lost.
- **Answers.** A resolved call is one the language would resolve the same way; an
  answer called exact leaves nothing out; a verdict about a claim holds in every
  build the tree allows; a page sequence shows every hit once; a refresh leaves
  what a full pass would.

## 2. The modules

```
ClarificationSession  <-- implemented by --  FindingRecords  -- uses --> SessionStates
                                              |  MCFindingRecords (TLC)
                                              |  FindingRecordsProofs, SingleWriterProofs (TLAPS)
GraphContents         <-- implemented by --  GraphHandles
                                              |  MCGraphHandles (TLC)
                                              |  GraphHandlesProofs (TLAPS)
IndexRefresh                                  |  MCIndexRefresh (TLC)
                                              |  IndexRefreshProofs (TLAPS)

CallSites  Sharing  CoChange  Freshness       |  MCComponents (TLC): state machines
HostInstall  LspClient  LspReadiness          |  that share no state, one at a time
                                              |  CallSitesProofs, LanguageServerProofs,
                                              |  ComponentProofs (TLAPS)

RustPaths <-- CallResolution <-- TypeEdges    |  operators, each against a reference
CppScope  Diffs  Clustering  CargoScope       |  definition: MCAnswers (TLC)
Search                                        |
CallResolution  TypeEdges  Impact             |  Answers <-- MCAnswers (TLC)
DocClaims  PrdGates  Infra  SourceWalk        |          <-- AnswersProofs (TLAPS)
```

### FindingRecords (with SessionStates and ClarificationSession)

State: the five files of each finding and `index.json`, each a value because
every write replaces a whole file by rename (`atomic_file.rs`); `call[p]`, the
call server `p` executes with what it read; and `acked`, the calls that answered
`ok` (a history variable). A call begins with its reads and validations
(`ExtractFinding`, `RefineFinding`, `StartVerification`, `AppendClarification`,
`FinalizeVerification`, `AbortVerification`) and then takes one step per file it
reads or writes: `WriteSource`, `WriteExtracted`, `WriteRefined`,
`WriteVerified`, `WriteSession`, `ReadIndex`, `WriteIndex`. `Stop` ends it before
any of them: a crash, or an I/O error that the tool returns. `SessionStates`
holds the transition table (`can_transition`), the construction of a session
file and of the receipt. `MergeIndexEntry` is the table of merge modes.

Contents of artifacts are values of `Payloads` and `Contents`. Timestamps, file
layout and argument validation are left out: a call with invalid arguments
touches nothing.

`ClarificationSession` is what stage 2 promises: sessions that start, take turns,
finish with a receipt or are aborted, each in one step.

### GraphHandles (with GraphContents)

State: `disk` (per graph: present, incarnation, rows of the file, rows of the
log), `cache` (the entries of `graph_cache.rs` under their keys), `next_seq`,
`hook` (whether `register_release_hook` ran) and `req` (the running request and
the handle it holds). Actions are the opens of the tools: a cached read (hit or
miss with eviction), a read through a fresh handle, an open to write with its
commits and its close, the removal and rebuild of a graph by `index_codebase`,
the import of an artifact, a refused or failing open, the end of the process in
order or not, and another process that rebuilds a graph. The durability check
after a language-server pass (`verify_after_reopen`) is `CloseWriter` followed by
a read through a fresh handle.

What the database does is external and taken from the header of
`graph_store/handles.rs`: a handle sees the rows it was opened on plus its own, a
commit goes to the log, and a close checkpoints the closing handle's view over
the file. Two assumptions: the fingerprint (newest mtime, total size) tells any
two contents apart, and another process appears only as the removal and creation
of a graph. How two processes share one open database is decided by the
database's file lock, which is outside `src/`, and is not modelled.

`GraphContents` is the promise: rows are added by commits, and disappear only
with a removal or a rebuild.

### IndexRefresh

State: `tree` (what is on disk, owned by others), `graph` (File nodes, directories,
symbols by the version they were parsed from, light links, the marker of a finished
build), `saved` and `manifest`, `meta` (whether `meta.json` names the manifest on
disk), `run` (the call under way, by phase), and the two bounded counters. A call
goes through `IndexCodebase(full)`, then for a refresh `Discover`, `Classify`,
`PurgeFile`, `InsertFile`, `ParseFile`, `Prune`, `Link`, `SaveManifest`, and for a
rebuild `CreateGraph`, the same parse and link steps, `WriteMarkers`, `Restat` and
`WriteFullManifest`; both end with `WriteMeta`. `InsertRefused` is the primary-key
conflict, `RefreshFails` and `FullFails` any other error return, `FullManifestLost`
the manifest that could not be written, `Crash` the end of the process. A marked
graph beside the manifest of before, by a lost manifest or by an error of the counts
taken after the markers (`indexer/mod.rs:310-311`), comes with `CrashWhen =
"always"` only. `Write`, `Delete` and `Move` change the tree.

The content of a file is a version number; every write gives a new mtime (the
code compares mtime and size; size is folded in). Discovery, hashing, parsing and
linking read the tree at their own time. A rename is a deletion and an addition,
which is what `apply_changes` does with it. Every file is a source file that may
refer to others; `Cites` says which version refers to which file. A rename keeps
the mtime, so two paths can come to share one; `Lookalikes` says whether a rename
may put a file on a path whose manifest entry already has that file's mtime or
text, which the cheap check then takes for the file it knew.

### CallSites

State: which targets and sites the graph holds, each site's `is_resolved` flag and
open reason, the rows from sites and from callers to targets, the pass under way
with what it keeps in memory, and the tree it is indexed from. `Edit` changes the
tree or the build profile; `index_full` starts over; a refresh takes its statements
one by one (`RefreshReopens`, the purge and insert, the relink of inbound edges,
`restore_sites_with_edge`); the resolver decides sites, buffers rows and flushes
them; the macro layer and the language-server pass add theirs and mark sites, the
latter with one statement for each outcome (resolved, outside the build targets,
twin, external). `Stop` ends any of them between two statements. `debt` is a history
variable: the sites a pass has marked and still owes a row. How a candidate is
chosen is not decided here but in `CallResolution`.

### Sharing

The repository's commits and working tree, the index beside it (graph, manifest,
coverage gaps), the exported archive with its sidecar, and the answer given last.
Exports write the archive, then the sidecar; an import replaces graph and
manifest; a fill takes its change set from git (tracked differences and untracked
files) or from hashes, and runs `apply_changes`. Files are functions to texts.
`Ignored` holds files that git ignores and the walk visits all the same: git never
lists them as changed, so a fill from git leaves them as the snapshot had them.
`components` and the proof take it empty.

### CoChange

The commit log, `cochange.json`, the `FILE_CHANGES_WITH` edges and the pass under
way. A pass reads HEAD (`mine_begin`), then the log and accumulates (`mine_read`),
deletes every edge (`DeleteCouples`), inserts the earned ones one by one
(`InsertCouple`) and saves (`mine_end`). `MineStops` is an error or the end of the
process anywhere; after it, `rewriting` remembers that the edges were deleted and
not yet written again, and the next pass rewrites them all.

### HostInstall

Each host's configuration file by the condition it is read in and the entries it
holds, and the hook settings. `install` and `uninstall`, with `--only`, the merge
into JSON and TOML, and the version a later install replaces. The files are written
one after the other in place, so each write has a fate of its own (`Fates`): it is
written, or left as it was because the file did not open or the command had stopped;
with `TornWrites` also left blank or cut short.

### LspClient and LspReadiness

`LspClient`: the caller and its session (start, probe, `initialized`, documents,
requests, shutdown, reap), the two pipes, the reader thread and its bounded channel,
and a server that answers, answers late, asks questions of its own, sends
notifications or malformed frames, or dies. Every write may block, the
acknowledgement of a progress token too (`respond_to_create`). Deadlines are not
clocked: a waiting caller's budget may always run out. `LspReadiness` is the one
wait where the clock decides the result: progress tokens, status messages, the quiet
window and the deadline, counted in ticks.

### Freshness

The receipt of a read tool, one read at a time (`admissible_inputs`,
`count_dirty`, `verdict`): whether the graph is there, `meta.json`, the manifest
with its identity, a `stat` per file, git's HEAD and the distance to it in both
directions. Beside it one indexer removes and rebuilds the graph or keeps it,
walks, saves the manifest and writes `meta.json`, and may stop anywhere; an editor
saves files, and a checkout moves HEAD and rewrites the files whose text differs.
`passes`, `done` and `moments` are history variables: what each index read, the
last one that wrote `meta.json`, and what was true at some moment of the check.

### The operators of MCAnswers

`MCAnswers` has one variable, `probe`: its first state chooses what was read (a
*world*), its step the question. Every answer is compared with a definition written
from the language, the tool's promise or the mathematics and not from the code.
`Answers` declares the variable and holds the properties that are proved, with the
*shape* their worlds must have (`IsTree`, `AreTexts`, `IsTypeWorld`, `HintIsImported`,
`IsWorld` and `Plausible`, `WrittenTree` and `SubjectIsWritten`, `IsPrdGraph`,
`AreSearches`): what a walk, a parser or a graph can hand to the code, whatever its size. `MCAnswers` extends it with
the finite worlds of TLC and the other properties, and assumes `ShapesHold`, which TLC
evaluates: every world of the run has the shape its theorem asks for.

| Module | Code | Reference |
|---|---|---|
| `RustPaths`, `CallResolution` | `resolver/receiver`, `resolver/calls`, `call_evidence.rs`, `ambiguity_policy.rs` | where Rust's own scoping leads a path (`RustDenotes`); the receiver's type owns the target |
| `TypeEdges` | `resolver/{imports,implements,extends,uses,phases,cfg_twins}.rs`, the edge buffer of `resolver/mod.rs` | every reference counted once, no edge twice, a second pass changes nothing, no twin picked by its place |
| `CppScope` | `resolver/calls/{includes,member_calls,declarations}.rs` | the definitions the translation unit can reach |
| `Diffs` | `semantic_diff.rs`, `git_diff.rs`, `history/mod.rs` | strongly connected parts by reachability; the lines a script touches; one chain of versions |
| `Impact` | `clustering/impact*.rs`, `process_impact_handlers/` | a site that does call the target is in the answer, or the answer is not called exact |
| `Clustering` | `clustering/community*.rs`, `process.rs` | connectedness; modularity in exact integers; shortest depth |
| `PrdGates` | `prd_input/`, `prd_validator/`, `security_gates/` | what the graph holds under the claimed name; own imports; the strongest hit of each qualified name |
| `DocClaims` | `doc_claims/`, `epistemic.rs` | counts and visibility in every build (`Builds`) |
| `CargoScope` | `indexer/cargo_*.rs`, `feature_gated.rs`, `file_scope.rs`, `target_context.rs`, `cfg_active.rs` | the files some build compiles |
| `Infra` | `indexer/iac/` with the purge and relink of a refresh | the nodes of a full pass, the references of the files read again |
| `SourceWalk` | `indexer/walk.rs`, `coverage.rs`, `incremental/coverage.rs` | the report of a full pass; every regular file under the cap that the filter keeps is in the graph or named |
| `Search` | `search/`, `search_context_handlers.rs`, `bridge.rs` | every document that passes the filter, once, over all pages, as far as the fetch and `min_score` reach (`FindsAll`) |

A name or path is a sequence of segments, a text is the set of facts the parser
takes from it, and a scoring library is an order the world chooses.

## 3. The runs

| Run | Instance | Shows |
|---|---|---|
| `records_single` | 1 server that may stop, 2 findings, transcripts of up to 3 turns | the stage-2 tools implement the one-step session; receipts, transcript, index |
| `records_two_servers` | 2 servers, 1 finding | outside the documented single-writer use updates get lost, but every session file and receipt stays well formed |
| `records_discoverable` | 1 server that never stops, transcripts of up to 4 turns | a finalized finding reaches the index |
| `records_undiscoverable` | the same server, may stop | **violation**: after a stop between the session and the index, never |
| `handles` | 2 graphs with 2 spellings each, 2 rows, 1 cache slot, 2 incarnations, 3 cached opens | no handle undoes a commit; cached reads are current; handles in use stay cached |
| `refresh_between` | 2 files, 1 directory, 3 edits between calls, 1 fault | every finished call leaves the graph of the tree, refreshes alone converge |
| `refresh_during` | 4 edits, also inside a refresh; no `Lookalikes` | the manifest never runs ahead of the graph |
| `rebuild_recovers` | 3 edits, the process may end anywhere | `full: true` restores the graph from every state |
| `refresh_after_crash` | as above, refreshes only | **violation**: the stop between the graph and its manifest |
| `fresh_receipt` | a rebuild that fails | **violation**: the old sidecars say "fresh" |
| `components` | see `MCComponents.cfg`: 4 sites, one of them outside the build targets, with 2 twin targets, 1 edit, 1 stop; 2 shared files, 3 edits, 2 commits, 1 stopped export; logs of 4 commits over 3 files; 2 hosts, 2 commands; a queue and pipes of depth 1, 1 request, 2 unasked messages; 2 progress tokens, 5 ticks; 3 revisions of 2 files, 2 checkouts, 1 save, 2 indexes | the ten properties of the seven state machines |
| `answers` | the worlds of `MCAnswers` | every answer equals its reference, over some 702,000 states |

**Bounds.** One server and two findings are enough for everything the tools share
(`index.json`) and for every crash window; two servers for every lost update,
since a call depends on at most one interleaved rewrite of each file. Three turns
give a question, an answer and a turn that must be refused or accepted after
them; four turns give two complete rounds. One cache slot with two graphs makes
every second open evict. Two incarnations let a handle outlive its file. Two
files, one of them in a directory, give a citation in both directions, a
directory that must be pruned, and a rename onto a name that is or is not taken;
three edits allow change, deletion and return of the same file; one fault at
every step covers each crash window once (two faults multiply the states without
a new window, because every call starts from what is on disk). Two files are not
enough for one case: with three of them, `Lookalikes` and a write inside the pass,
`UnchangedIsIndexed` fails (section 5, item 30), so `refresh_during` sets
`Lookalikes` to `FALSE` instead of hiding the case behind its bound.

The seven machines of `components` share no variable, so running them one at a time
loses no behaviour: `chosen` picks one and the others stay in their first state. Two
twin targets make the build profile decide; a macro site, a site without a receiver
type, an ordinary one and one in a file no build compiles meet every layer. A depth
of one in the queue and the pipes makes every write and every frame a possible wait,
and an id is used by a request, by a late answer and by a question of the server.
Four commits let an edge be earned, diluted and mined in two or more passes with
`MIN_COCHANGE` scaled to 2. Two checkouts between three revisions give HEAD a way
forward, back and sideways; the second revision only lacks a file of the first, so
that no manifested file tells them apart; two indexes are what a receipt can mix.
The searches of `answers` ask for one or two of up to eight documents, with the
ceiling of a fetch scaled from 4000 to 7 and `min_score` at the tool's 0.01 and at a
value that cuts the second place of one ranking, so that both ways a search may fall
short are met (`FindsAll` says when it may not). In `answers` a world has two to
four items, so that two candidates compete, a name is shadowed, a path leads through
two uses, a cycle has more than one shape, and one file changes while another refers
to it.

**Fairness.** A server that has accepted a call keeps executing it: the dispatch
loop is synchronous, so weak fairness of the call's steps. Nothing makes a client
send a request; the liveness runs add the client the promise is about, and say
so in the specification: one that keeps retrying `finalize_verification` while it
is accepted (strong fairness of `FinalizeVerification`), and a host that keeps
asking for a refresh (`RefreshSpec`) or for a rebuild (`RebuildSpec`). In `components`
the caller and the reader thread take their enabled steps, as threads do, and the
server goes on reading its input (`Hearing`); it need never answer. Crashes
and edits have no fairness, and their number is bounded, which is what
"eventually, once the tree is left alone" needs.

**Deadlock** is checked in every run but two: the machines of `components` end when
their bounds are used up, and `answers` ends with its question.

## 4. The proofs

All hold for every value of the constants that satisfies the named assumptions:
any number of servers, files, sites, targets, requests or commits, and any bound.
TLC checks each property on its run, and checked the two invariants of
`IndexRefreshProofs` on the runs of that module before they were proved.

**`FindingRecordsProofs`**: `TypeCorrect`, `SessionsStayWellFormed`,
`ReceiptsAreComplete`, `IndexStaysBacked`, for any number of servers. None of the
properties is inductive, because a write uses what an earlier read put in the call.
`IInv` adds `CallOK(p)`: by the file it is about to write, what the call carries and
which files exist already. Files are never removed (`Grows`), so what a pending call
relies on stays true while others move.

**`SingleWriterProofs`**, from the assumption `SingleWriter` (the use that
`stages/stage-1.review.md` documents): `FinalizedStaysReceipted`,
`SingleWriterImplements`, `TranscriptsGrow`, `AckedStaysIndexed`. The strengthening
is `CallIsFresh`: with one writer, what the pending call read is still on disk when
it writes, so each write is one step of `ClarificationSession` or a stutter, and
`TranscriptsGrow` follows from the abstract step. `AckedStaysIndexed` needs `AInv`:
the index a call carries to its last write is the one on disk, every entry is one
the tools can build, and the merge of each tool keeps what the other tools reported
(`MergePreserves`).

**`GraphHandlesProofs`**: `HandlesTypeCorrect`, `OneLiveHandle`, `HeldStaysCached`,
`CachedReadsStayCurrent`, `CacheStaysBounded`, `HandlesImplementContents`. The
invariant `InOrder`: every open handle on a present file has the durable rows as its
view, the handle of a writer is alone on its file, every entry is under its
canonical path, and a cache with entries has its hook registered. A close then
changes nothing that a tool can see (`CloseIsInvisible`), which is the step the
refinement rests on. `CacheStaysBounded` adds that every entry has a number, so
eviction from a full cache finds one opened first (`SomethingIsEvicted`).

**`IndexRefreshProofs`**. Two invariants, for two ways the tree may change.

- `QuietInv`, when the tree changes only between calls (`EditWhen = "idle"`) and a
  call may fail anywhere, or stop while a full build has no marker
  (`CrashWhen # "always"`): `RefreshedGraphIsTree`, `RefreshedLinksAreSound`,
  `QuietUnchangedIsIndexed`, with reverts and every rename. `GraphIsTree` speaks of
  the end of a call only. The invariant says what each phase has reached
  (`ProgressOK`: before a pass the graph is built from the manifest; then, by phase,
  which files the pass has purged, inserted and parsed), and `Stamped`, that one
  mtime names one text, without which a skipped file could hold another text.
- `EditedInv`, when files are also written, created and deleted inside a refresh:
  `EditedUnchangedIsIndexed`, from `EditWhen # "always"` (not inside a rebuild: item
  22), `Revert = FALSE` and `Lookalikes = FALSE`. A pass hashes before it parses, so
  every entry it will save that matches the file on disk is of a file the graph
  holds as it stands or that the pass has still to parse (`RefreshOwes`). A write in
  between takes the match away, because nothing on record is as new as the text it
  writes (`DatesOK`).

A stop between the graph and its manifest is excluded because `GraphIsTree` is then
false (`refresh_after_crash`).

**`CallSitesProofs`**, with no assumption beyond those of the module:
`RowsAreNotDoubled`, `SiteStatesAreBacked`, `ResolutionsAreKept`, for every order
and every stop of the four passes. `RowsInv`: what a refresh remembers leads into
the files it purged and nothing else still does, and what the resolver has staged is
apart from what the tables hold. `StateInv`: a flag has its row or a pass owes it
(`debt`), by phase what each pass will count as paid is there, and a reason goes
with an open site. `KeepInv`: between the snapshot and the restore, every row to be
kept is in the table or in the memory of the pass, with a target that comes back.

**`LanguageServerProofs`**: `ClientTypeCorrect`, `AnswersAreOwn`, `WaitIsNotCutShort`.
`AnswersAreOwn` needs that what is in the pipes, in the queue and in the reader's hand
is honest (`InFlightIsHonest`: a response carries the id of a request the server has
answered) and that the ids never run out (`IdsSuffice`). `WaitIsNotCutShort` needs that
no idle time is counted while a token is open (`WaitInv`).

**`ComponentProofs`**:

- `SnapshotsAreCurrent`, from `DirtyExports = FALSE`, `TornExports = FALSE` (item 5) and
  `Ignored = {}`: graph, manifest and coverage of an index or an archive are of one tree
  (`Coherent`), and an export half way has the parts it is about to pair.
- `CouplesComeFromLog`, from `CommitsInPass`, `GitFails` and `SkippedCouples` all `FALSE`
  (items 6 and 20): the saved counts, and those a pass extends, are exactly those of a
  prefix of the log, wherever a pass stopped, and but for one that stopped between its
  DELETE and its save the edges are those the counts earn; the counts of a log are the sum
  of those of its two parts (`TouchingSplit`).
- `FreshReceiptsAreCurrent`, from `~MovesInIndex` and `~LostManifests` (items 11 and 12
  show both are needed). `FreshInv` follows the pair of sidecars: a `meta.json` with an
  identity names the manifest of the pass that wrote it, a pass under way has not yet
  written what it will, and by the read it has reached the receipt holds values of one
  pass, each true at some moment of the check.
- `HostFilesSurvive`: `FilesAreNotClobbered` from `~UnreadableFiles` (item 4) and
  `~TornWrites` (item 19), for any fate of each write, any hosts, entries and commands.
  `HostInv` keeps every file readable or as it was and every foreign entry where it stood;
  `retain`, which drops our own entries, keeps the others in their order (`RetainHolds` and
  what follows it).

**`AnswersProofs`**: properties of `answers`, for every world of the shape `Answers`
names, of any size.

- `CoverageStaysHonest` (`WalkIsHonest`), from `~Oversized` (item 13): after a refresh under
  the language filter of the pass before, whose report was saved (items 14 and 15), the
  coverage report is that of a full index of the new tree; every regular file under the size
  cap that the filter keeps is in the graph, or it or a directory above it is named; and a
  file whose parse failed keeps that kind. Links and what the filter drops are not named,
  which the code intends.
- `InfraStaysExact` (`InfraIsExact`): after a refresh whose infrastructure pass did not
  fail (item 18) the graph has the nodes a full pass of the present texts would give, and
  the references of the files read again.
- `ImpactStaysExhaustive` (`ImpactIsExhaustive`): an impact answer called exact has left
  out no site that calls the target, without dispatch through a trait (item 9). What the
  filter of other owners drops cannot call the target (`DroppedCannotCall`).
- `DocVerdictsHold`: the verdict of `check_doc_claims` on a claim of any kind, for any
  `WrittenTree`: finite, no two functions at one line of a file, no visibility on a trait's
  own methods, variants gated in Rust only; and for a claim about a name, no macro declares
  it. Tests and proofs: what is certainly compiled is compiled in every build, and what a
  build compiles a parser has seen (`CountsAreBounds`). Variants: those of a build are between
  the ungated and the declared ones (`VariantBounds`). Visibility: the verdict is about every
  declaration of the name, cfg twins included (`VisibilityHolds`).
- `ClaimVerdictsAreRight` (`ClaimVerdictsHold`): that, and the verdicts of the PRD gates.
  The name a gate looks up has at most one candidate in the default build (`Decided`, item
  8) and the gate's row has no twin; a qualified name is grounded with the strength of its
  strongest hit, whichever twin gave it, which a sum over its level sets shows, and an
  import is the file's own.

- `TypeEdgesStaySettled` (`TypeEdgesAreSettled`), from `~TwinBases` (item 10): the passes over
  imports, traits, bases and type names count each reference once, stage no edge twice, write
  nothing when run again over what they wrote, give each import they mark an edge to what its
  path names, and pick no trait or named type among twins. Every phase returns a tally that is
  `Balanced` (resolved and open references add up, every edge is sound), which sums preserve
  (`SumIsBalanced`); the edge buffer holds exactly the edges the store has not, once each
  (`StagedOnce`), so a second pass stages none.
- `ReceiverCallsStayInType` (the receiver's half of `ResolvedIsCallable`): for any graph and
  any site, a call on `self`, on a local or on an expression that the resolver ties to a
  definition goes to the caller's own type, or to the type the parser gave the receiver. It
  holds gate by gate (`OwnedBy`): each answers with candidates of that type, and so does the
  first of two that does not pass. A hint that a `use` of its own crate shows is the last
  name of that use (`HintIsImported`): `file_declares_alias` gives no hint for a renamed one.

The operators of these modules filter and fold. Their induction is done on a *set* in
place of the predicate a library theorem would take: `LeastNumber` finds a least number in
a set of naturals from the well-foundedness of `<`, and `Counting` gives, for a set of
functions each of which extends the last, the recursive function itself. So `retain`,
`weigh_hits`, `add_all` and their like are written as recursive functions and proved about for
sequences of any length.

**Assumptions of the modules.** Bounds are natural numbers (`ConstantsAssumption`,
`BoundsAssumption`, `ClientBounds`, `WaitBounds`, `SiteBounds`, `SharingBounds`,
`CoChangeBounds`), the cache has room for one handle (`CapacityAssumption`), "no file"
is not a record (`EntryAssumption`), kinds of sites are disjoint and the standard
library's symbol is none of the repository's (`SiteKinds`), ancestry between revisions
is reflexive and has no cycle (`FreshnessBounds`), and the shape of paths and citations
(`ShapeAssumption`); and what section 2 says of the database.

**Only model-checked.** The liveness properties (`FinalizedIsDiscoverable`,
`RefreshConverges`, `RebuildRecovers`, `SessionEnds`): fairness is beyond the prover used
here. Of the properties of `answers`:

- `DiffsAreExact`, `ClustersAreConnected`, `CargoIsRight` and `SearchPagesAreComplete`:
  their operators or references are recursive over graphs and lists (strong components,
  Louvain, the module tree, the fusion of ranked pages) and are declared `RECURSIVE`, which
  takes the prover's SMT backend away.
- `ResolvedIsCallable`, but for calls on a receiver: that a Rust path leads where the
  language leads it compares two closures over the `use` declarations, each the last of
  bounded rounds, and the bound of C++ scoping is of the same kind; that the rounds are
  enough for every graph is not proved.

## 5. What disagrees with the code's own words

Shown by a run:

1. `finalize_verification` that stops after the session is flipped leaves a
   finding that no retry makes visible (`records_undiscoverable`).
2. `index_incremental` that stops before it saves the manifest breaks the
   precondition its own documentation states for the next call, which then
   answers `ok` with nodes of files that are gone (`refresh_after_crash`).
   `full: true` repairs it (`rebuild_recovers`).
3. An unfinished rebuild is reported "fresh" from the sidecars of the index
   before it (`fresh_receipt`).

Left out of a passing run by a constant, which the run sets to `FALSE`; setting it to
`TRUE` makes TLC show the case (21 is a condition of the property instead):

4. `UnreadableFiles` (`MCComponents.cfg`, `FilesAreNotClobbered`): `cli.rs:236`
   reads the configuration with `read_to_string(..).ok()`, so a file that exists
   and is not UTF-8, or cannot be read, counts as absent and is overwritten.
   `host_install.rs:10` says "A file we cannot parse is NEVER overwritten", and
   `docs/install.md:72-73` the same.
5. `DirtyExports` (`BootstrapIsCurrent`): a snapshot exported from a dirty tree
   carries the commit of its HEAD (`history_handlers.rs:262`) and is imported as
   fresh. `TornExports`: the archive is renamed into place before its sidecar is
   written (`artifact.rs:235`), and a stop in between pairs the new graph with the
   commit of the old one.
6. `CommitsInPass` and `GitFails` (`CouplesAreEarned`): HEAD is read before the
   log (`cochange.rs:182`), so a commit made in between is counted by this pass
   and by the next; a log that fails reads as empty and the resume point moves
   past it.
7. `Paired` (`MCAnswers.cfg`, `CargoIsRight`): `file_scope.rs` visits a file once
   per module path, whatever the gates on the way, so of two declarations of one
   module under different gates the second is lost, while the header says the
   verdict is `inactive` when *every* path is compiled out.
8. `Undecided` (`ClaimVerdictsHold`): when a name has several rows and none is in the
   default build, `search/name_lookup.rs:86-90` answers nothing and the claim is
   refuted as if the symbol did not exist.
9. `Dynamic` (`ImpactIsExhaustive`): the dispatch surface is recognised by the
   label `Trait` alone (`epistemic.rs:26`), so the impact of a method reached
   through its trait can be called exact.
10. `TwinBases` (`TypeEdgesAreSettled`): `resolver/extends.rs:152-155` takes the first
    candidate of the child's label, or of any, also when it is one of several
    `#[cfg]` twins. `resolver/cfg_twins.rs:44-48` says "A resolver that takes the
    first candidate of a name must drop such a target instead"; the passes over
    traits and type names do.
11. `LostManifests` (`FreshIsCurrent`): when the manifest of a full index cannot be
    written, `index_codebase` logs it and goes on to `write_graph_meta`
    (`indexing_handlers.rs:170-175`), which names the manifest of the index before.
    The pair then matches, and a file that only the new index read is never looked
    at: "fresh" after it changed. `analyze_codebase` returns before `meta.json`
    (`analyze_handlers.rs:269-272`).
12. `MovesInIndex` (`FreshIsCurrent`): `commit_sha` is the HEAD at the time
    `meta.json` is written (`graph_paths.rs:148`), not at the time of the walk; a
    checkout in between leaves a "fresh" index of the other commit, while
    `graph_freshness.rs:9-11` speaks of the "index-time sha".
13. `Oversized` (`WalkIsHonest`): a file over the size cap is dropped by the walk without an
    entry in the report (`indexer/walk.rs:394-401`), while `coverage.rs:9-10` and `77-78`
    say that `skipped` covers it.
14. `Refiltered` (`WalkIsHonest`): the language filter decides the grammar of a `.h`
    (`header_dialect.rs:27-34`), and the manifest does not record it
    (`indexing_handlers.rs:90-93`): a refresh under another filter keeps the outcome of the
    last parse for every header it does not read again.
15. `LostReports` (`WalkIsHonest`): the report is saved after the manifest, best effort
    (`incremental/mod.rs:190-206`, `indexing_handlers.rs:180`). When that save is lost the
    next refresh merges into no report, or into an old one, and the files it does not read
    again are missing from it.
16. `Undiffable` (`DiffsAreExact`): `verify_semantic_diff` reports two identical graphs as
    unclean when they hold an edge to a node it does not compare, such as `HasVariant`:
    every such edge is dangling.
17. `AllSymbols` (`DiffsAreExact`): `detect_changes` maps no methods, because it asks for a
    `Defines_File_Method` table that does not exist (`git_diff.rs:181-205`), and neither it
    nor the history of a commit (`history/mod.rs:353-377`) reaches what an inline module
    defines. The property claims the exact answer for what a `File` node leads to.
18. `FailedPasses` (`InfraIsExact`): an error of the infrastructure pass is logged, and the
    manifest is saved all the same (`incremental/mod.rs:354-358`; for a full index
    `indexer/mod.rs:345-348`), so the next refresh takes the files for unchanged and their
    nodes stay away.
19. `TornWrites` (`FilesAreNotClobbered`): host configuration is written with
    `std::fs::write` (`cli.rs:195-198`), which truncates before it writes. A write that
    fails or stops half way leaves the file blank or cut short, with every entry of other
    programs gone; `atomic_file.rs`, beside it, replaces files by rename.
20. `SkippedCouples` (`CouplesAreEarned`): an insert that fails is logged and passed over
    (`cochange.rs:278-294`), and the counts are saved as if the edge were there. The next
    pass inserts every earned edge again.
21. Searches (`SearchPagesAreComplete`): a hit that only one ranking knows, and that no
    community or process boosts, scores 1 / (60 + rank), so with the tool's `min_score` of
    0.01 (`search_context_handlers.rs:333`) it is cut from rank 41 on whatever the limit says
    (`search/hybrid.rs:276`); and under a label filter a fetch ends at `MAX_FETCH_LIMIT`,
    where "the honest answer is the partial one" (`hybrid.rs:54-59`). `FindsAll` is the
    condition under which the property asks for every match: outside it, only that what is
    shown are matches, each once.

Seen while modelling, without a run of their own:

22. The manifest of a full index records what a second walk sees, not what was
    parsed (`indexer/incremental/mod.rs:415`): a file written in between is
    recorded in its new state and the next refresh skips it, although
    `manifest.rs:3-4` calls the manifest the record of "what the graph was built
    from" (also `mod.rs:389-391`). The incremental path does not have this window
    (`refresh_during`).
23. A refresh re-derives light links only out of re-parsed files
    (`indexer/incremental/mod.rs:336`): unchanged files get no link to a file that
    was added, which `mod.rs:143-145` promises.
24. `detect_changes` reads changed lines that start with `--` or `++` as headers
    (`git_diff.rs:136-141`).
25. `federated_search` says "same options as the local search" and drops the label
    filter. A substring fallback lists a key that two labels hold twice; building
    an index with no documents leaves the old vector file.
26. An unchanged manifest is not relinked when the ConfigMap, base or Dockerfile
    it names appears in another file, and an overlay that becomes unreadable loses
    the edges of its base; `InfraIsExact` therefore asks a refresh for the
    references of the files it read again only.
27. The modularity that `community_louvain.rs:168` reports is not Newman's formula
    for a graph with self-loops; the run compares partitions by the formula.
28. `import_matches` compares characters where its comment says path segments.
29. A `#[path]` cycle behind a gate that is off keeps the walk of `file_scope.rs`
    from ending; the run has no such cycle. `merge_install` on a TOML file whose
    `mcp_servers` is not a table stops in the TOML library; an entry in an inline
    table is never uninstalled.
30. A rename can carry a known mtime to a path the manifest knows by that mtime
    (`Lookalikes`, `classify.rs:131`). Two paths share an mtime after renames; one
    of them is renamed to a new path, a refresh discovers it there, it is written
    while that refresh hashes and parses it, and then the other is renamed over it:
    the next refresh finds the recorded mtime and skips a text the graph does not
    hold. The attempt to prove `UnchangedIsIndexed` without the assumption led to
    this history; TLC shows it with three files.
31. Stage 4 adds `stage4_prepared_at` and `stage4_path` to `index.json` with a plain
    `fs::write` (`prd_input/mod.rs:437-452`). The index of stages 1 and 2 has four fields
    (`finding_index.rs:36-42`), so their next rewrite drops both keys, and a stop inside
    the write leaves an index that no stage can parse, where every other write of it is
    a rename.

## 6. What is left out, and why

- In `IndexRefresh`: edges between directories, and the sub-passes that have
  modules of their own (call sites, infrastructure, coverage, co-change,
  bootstrap): each is checked alone, the composed call is not. A rename while a
  pass runs, and a version that comes back with its old timestamp inside the pass
  that hashed it, are excluded; `refresh_during` also leaves out `Lookalikes`. The
  cheap check, which compares mtime and size, accepts these by design.
- In the freshness receipt: the policy on the root and on the manifest's keys, and
  the answer the receipt is attached to, which is read before it: the two may be of
  different indexes.
- In the resolver: the call rules of languages other
  than Rust, C and C++ (beyond the bare-name tiers, which they share).
- In `LspClient`: a server that stops reading its input. The client's write then
  blocks for ever, which `lsp_client.rs:338` records as "TRACKED, NOT CLOSED".
- In `FindingRecords`: stage 4's write to `index.json` (item 31). `PrdGates` says what
  that stage leaves when the index is absent, does not parse or is marked; that its own
  artifact cannot be written is not modelled.
- In `CoChange`: the one-year window and the 10,000-commit cap of a full pass.
- Transport and schemas: one request is read, run and answered before the next,
  which is the assumption that calls of one process do not overlap; the rest is
  the shape of JSON.
- Parsers and language tables, `zera`: text in, facts out; their difficulty is in
  the data and not in the control.
- Two processes that have one graph open: the database's file lock decides.

## 7. Plan

Done: every module above, their runs, and the proofs of section 4. Next:

1. A specification of what a resolve promises, which `CallSites` would implement with
   the choice of `CallResolution` in place of its own.
2. The closures of `CargoScope` and `Diffs` as recursive functions, with the induction of
   `AnswersProofs`, and their theorems.
