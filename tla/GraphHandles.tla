---------------------------- MODULE GraphHandles ----------------------------
(***************************************************************************)
(* The handles a server process keeps on its graph databases: the read     *)
(* cache of graph_cache.rs, the release rule of graph_store/handles.rs and *)
(* the guarded open of graph_store/mod.rs, driven by the tools' requests.  *)
(*                                                                         *)
(* A graph is one database file with a write-ahead log beside it.  An open *)
(* handle has its own view, taken when it is opened; a commit goes through *)
(* that view to the log, other open handles never see it, and a close      *)
(* checkpoints the closing handle's view over the file (lbug, measured in  *)
(* handles.rs).  A handle kept across somebody else's commit therefore     *)
(* undoes it when it closes.                                               *)
(*                                                                         *)
(* The process executes one request at a time.  A second process may       *)
(* remove a graph and build a new one under its name at any moment: a      *)
(* handle of the old incarnation then writes to an unlinked file.          *)
(***************************************************************************)
EXTENDS Naturals, FiniteSets

CONSTANTS
  Graphs,           \* the databases on disk
  Rows,             \* what can be committed to a graph
  MaxCachedGraphs,  \* MAX_CACHED_GRAPHS, 8 in the code
  MaxIncarnations,  \* bound: a graph is created at most this often
  MaxOpens          \* bound: cached opens of one process

ASSUME CapacityAssumption == MaxCachedGraphs \in Nat \ {0}
ASSUME BoundsAssumption == MaxIncarnations \in Nat /\ MaxOpens \in Nat

VARIABLES
  disk,      \* the database file and the log of each graph
  cache,     \* CACHE: the entry of each key
  next_seq,  \* GraphCache.next_seq
  hook,      \* RELEASE_HOOK is registered
  req        \* the request being executed and the handle it holds

vars == <<disk, cache, next_seq, hook, req>>

-----------------------------------------------------------------------------
(* Paths and files.  Every graph has a canonical path and another spelling *)
(* of it; canonicalize resolves the spelling only while the file exists.   *)

Paths == Graphs \X {"canonical", "alias"}

GraphOf(p) == p[1]

Key(d, p) == IF d[GraphOf(p)].exists THEN <<GraphOf(p), "canonical">> ELSE p

\* A log whose inc is not the file's belongs to an earlier database of that name.
NoLog == [inc |-> 0, rows |-> {}]

File == [exists : BOOLEAN, inc : Nat, rows : SUBSET Rows,
         log : [inc : Nat, rows : SUBSET Rows]]

Handle == [graph : Graphs, inc : Nat, rows : SUBSET Rows]

\* The rows an open of the file would find: the file's, or the log's.
DurableRows(f) == IF f.log.inc = f.inc THEN f.log.rows ELSE f.rows

\* A plausible bug: the total size is left out.
FingerprintOfTime(f) == [inc |-> f.inc]

\* GraphFingerprint::of: the file itself, not the log beside it.
Fingerprint(f) == [inc |-> f.inc, rows |-> f.rows]

\* What a tool that looks at the graph finds.
Seen(f) == [exists |-> f.exists, rows |-> IF f.exists THEN DurableRows(f) ELSE {}]

\* The handle is on the present file, not on an unlinked one.
Current(d, h) == d[h.graph].exists /\ d[h.graph].inc = h.inc

-----------------------------------------------------------------------------
(* The database engine.                                                    *)

\* Database::new, with the one retry after recover_from_stale_sidecars has
\* moved the log of an earlier database aside; a missing file is created.
Opened(d, g) ==
  LET f == d[g] IN
    IF ~ f.exists
      THEN [d EXCEPT ![g] = [exists |-> TRUE, inc |-> f.inc + 1, rows |-> {}, log |-> NoLog]]
      ELSE IF f.log.inc # f.inc THEN [d EXCEPT ![g].log = NoLog] ELSE d

HandleOn(d, g) == [graph |-> g, inc |-> d[g].inc, rows |-> DurableRows(d[g])]

Committed(d, h, row) ==
  IF Current(d, h)
    THEN [d EXCEPT ![h.graph].log = [inc |-> h.inc, rows |-> h.rows \cup {row}]]
    ELSE d

\* Dropping handles: each one that is on the present file checkpoints its view.
Closed(d, hs) ==
  [g \in Graphs |->
     LET mine == {h \in hs : h.graph = g /\ Current(d, h)} IN
       IF mine = {} THEN d[g]
       ELSE [d[g] EXCEPT !.rows = (CHOOSE h \in mine : TRUE).rows, !.log = NoLog]]

-----------------------------------------------------------------------------
(* The cache and the release rule.                                         *)

NoEntry == [cached |-> FALSE]

Entry == [cached : {TRUE}, handle : Handle,
          fingerprint : [inc : Nat, rows : SUBSET Rows], opened_seq : Nat]

CachedKeys(c) == {k \in Paths : c[k].cached}

HandlesAt(c, keys) == {c[k].handle : k \in keys \cap CachedKeys(c)}

\* The request holds a clone of this entry's Rc (strong_count > 1).
InUse(k) == req.pc = "read" /\ req.key = k

\* release: refused (graph_handle_in_use) while the request holds the entry.
MayRelease(p) ==
  LET k == Key(disk, p) IN hook /\ cache[k].cached => ~ InUse(k)

\* A plausible bug: the write path never calls the release hook.
ReleasedNothing(p) == {}

\* The keys a successful release drops; nothing before a hook is registered.
Released(p) == IF hook THEN {Key(disk, p)} \cap CachedKeys(cache) ELSE {}

Without(c, keys) == [k \in Paths |-> IF k \in keys THEN NoEntry ELSE c[k]]

\* A plausible bug: the victim is the entry opened last.
EvictedNewest(c) ==
  {k \in CachedKeys(c) :
     /\ Cardinality(CachedKeys(c)) > MaxCachedGraphs
     /\ \A j \in CachedKeys(c) : c[k].opened_seq >= c[j].opened_seq}

\* A plausible bug: capacity is compared before the insertion is counted.
EvictedLate(c) ==
  {k \in CachedKeys(c) :
     /\ Cardinality(CachedKeys(c)) > MaxCachedGraphs + 1
     /\ \A j \in CachedKeys(c) : c[k].opened_seq <= c[j].opened_seq}

\* evict_if_over_capacity: one insertion exceeds the capacity by at most one,
\* and no two entries have the same opened_seq, so one entry goes.
Evicted(c) ==
  {k \in CachedKeys(c) :
     /\ Cardinality(CachedKeys(c)) > MaxCachedGraphs
     /\ \A j \in CachedKeys(c) : c[k].opened_seq <= c[j].opened_seq}

-----------------------------------------------------------------------------
(* Requests.  "read" holds a clone of a cached entry's handle; "write"     *)
(* owns a fresh handle; "rebuild" has removed the stale graph and not yet  *)
(* created the new one.                                                    *)

Idle == [pc |-> "idle"]

Reading(k, h) == [pc |-> "read", key |-> k, handle |-> h]

Writing(h) == [pc |-> "write", handle |-> h]

Rebuilding(p) == [pc |-> "rebuild", path |-> p]

Request ==
  {Idle} \cup [pc : {"read"}, key : Paths, handle : Handle]
         \cup [pc : {"write"}, handle : Handle] \cup [pc : {"rebuild"}, path : Paths]

Init ==
  /\ disk = [g \in Graphs |-> [exists |-> FALSE, inc |-> 0, rows |-> {}, log |-> NoLog]]
  /\ cache = [k \in Paths |-> NoEntry]
  /\ next_seq = 0
  /\ hook = FALSE
  /\ req = Idle

\* A plausible bug: the fingerprint is not compared.
IsHitAlways(p) == cache[Key(disk, p)].cached

\* get_with_opener: an entry whose fingerprint is still the file's.
IsHit(p) ==
  LET e == cache[Key(disk, p)] IN
    e.cached /\ e.fingerprint = Fingerprint(disk[GraphOf(p)])

\* open_cached answered from the cache, by a read tool that found the path.
CachedHit(p) ==
  /\ req = Idle
  /\ disk[GraphOf(p)].exists
  /\ IsHit(p)
  /\ hook' = TRUE
  /\ req' = Reading(Key(disk, p), cache[Key(disk, p)].handle)
  /\ UNCHANGED <<disk, cache, next_seq>>

\* A plausible bug: a read tool does not check that the path exists.
CachedMissUnchecked(p) ==
  LET g == GraphOf(p)
      k == Key(disk, p)
      d == Opened(disk, g)
      entry == [cached |-> TRUE, handle |-> HandleOn(d, g),
                fingerprint |-> Fingerprint(d[g]), opened_seq |-> next_seq]
      c == [cache EXCEPT ![k] = entry]
  IN /\ req = Idle
     /\ ~ IsHit(p)
     /\ next_seq < MaxOpens
     /\ disk[g].inc < MaxIncarnations
     /\ disk' = Closed(d, HandlesAt(cache, {k} \cup Evicted(c)))
     /\ cache' = Without(c, Evicted(c))
     /\ next_seq' = next_seq + 1
     /\ hook' = TRUE
     /\ req' = Reading(k, entry.handle)

\* open_cached opening the graph: the new handle is opened first; inserting it
\* drops the stale entry of the key, and the capacity may drop another entry.
CachedMiss(p) ==
  LET g == GraphOf(p)
      k == Key(disk, p)
      d == Opened(disk, g)
      entry == [cached |-> TRUE, handle |-> HandleOn(d, g),
                fingerprint |-> Fingerprint(d[g]), opened_seq |-> next_seq]
      c == [cache EXCEPT ![k] = entry]
  IN /\ req = Idle
     /\ disk[g].exists
     /\ ~ IsHit(p)
     /\ next_seq < MaxOpens
     /\ disk' = Closed(d, HandlesAt(cache, {k} \cup Evicted(c)))
     /\ cache' = Without(c, Evicted(c))
     /\ next_seq' = next_seq + 1
     /\ hook' = TRUE
     /\ req' = Reading(k, entry.handle)

\* open_cached when the open fails: a stale entry stays where it is.
CachedOpenFails(p) ==
  /\ req = Idle
  /\ disk[GraphOf(p)].exists
  /\ ~ IsHit(p)
  /\ hook' = TRUE
  /\ UNCHANGED <<disk, cache, next_seq, req>>

\* The read tool returns: its clone is dropped, and closes if it was the last.
EndRead ==
  /\ req.pc = "read"
  /\ disk' = IF cache[req.key].cached /\ cache[req.key].handle = req.handle
               THEN disk ELSE Closed(disk, {req.handle})
  /\ req' = Idle
  /\ UNCHANGED <<cache, next_seq, hook>>

\* open_or_create, used and closed at once: a sibling graph consulted during a
\* read request (open_sibling), or a snapshot or a count of its own.
FreshRead(p) ==
  LET g == GraphOf(p)
      released == Closed(disk, HandlesAt(cache, Released(p)))
      d == Opened(released, g)
  IN /\ req.pc \in {"idle", "read"}
     /\ disk[g].exists
     /\ MayRelease(p)
     /\ cache' = Without(cache, Released(p))
     /\ disk' = Closed(d, {HandleOn(d, g)})
     /\ UNCHANGED <<next_seq, hook, req>>

\* open_or_create by a tool that writes to an existing graph.
OpenToWrite(p) ==
  LET g == GraphOf(p)
      d == Opened(Closed(disk, HandlesAt(cache, Released(p))), g)
  IN /\ req = Idle
     /\ disk[g].exists
     /\ MayRelease(p)
     /\ cache' = Without(cache, Released(p))
     /\ disk' = d
     /\ req' = Writing(HandleOn(d, g))
     /\ UNCHANGED <<next_seq, hook>>

\* open_or_create when the open fails: the cached handle is gone all the same.
OpenFails(p) ==
  /\ req = Idle
  /\ disk[GraphOf(p)].exists
  /\ MayRelease(p)
  /\ cache' = Without(cache, Released(p))
  /\ disk' = Closed(disk, HandlesAt(cache, Released(p)))
  /\ UNCHANGED <<next_seq, hook, req>>

CommitRow(row) ==
  /\ req.pc = "write"
  /\ disk' = Committed(disk, req.handle, row)
  /\ req' = [req EXCEPT !.handle.rows = @ \cup {row}]
  /\ UNCHANGED <<cache, next_seq, hook>>

CloseWriter ==
  /\ req.pc = "write"
  /\ disk' = Closed(disk, {req.handle})
  /\ req' = Idle
  /\ UNCHANGED <<cache, next_seq, hook>>

\* A full index of an existing graph: remove_stale_graph_artifact.
RemoveStale(p) ==
  LET d == Closed(disk, HandlesAt(cache, Released(p)))
  IN /\ req = Idle
     /\ disk[GraphOf(p)].exists
     /\ MayRelease(p)
     /\ cache' = Without(cache, Released(p))
     /\ disk' = [d EXCEPT ![GraphOf(p)].exists = FALSE]
     /\ req' = Rebuilding(p)
     /\ UNCHANGED <<next_seq, hook>>

\* A full index opens the graph it writes: after RemoveStale, or where there
\* was none.
OpenToIndex(p) ==
  LET g == GraphOf(p)
      d == Opened(Closed(disk, HandlesAt(cache, Released(p))), g)
  IN /\ \/ req = Rebuilding(p)
        \/ req = Idle /\ ~ disk[g].exists
     /\ disk[g].inc < MaxIncarnations
     /\ MayRelease(p)
     /\ cache' = Without(cache, Released(p))
     /\ disk' = d
     /\ req' = Writing(HandleOn(d, g))
     /\ UNCHANGED <<next_seq, hook>>

\* import_artifact unpacks a database where there was none.
ImportArtifact(p, rows) ==
  LET g == GraphOf(p)
      d == Closed(disk, HandlesAt(cache, Released(p)))
  IN /\ req = Idle
     /\ ~ disk[g].exists
     /\ disk[g].inc < MaxIncarnations
     /\ MayRelease(p)
     /\ cache' = Without(cache, Released(p))
     /\ disk' = [d EXCEPT ![g].exists = TRUE, ![g].inc = @ + 1, ![g].rows = rows]
     /\ UNCHANGED <<next_seq, hook, req>>

\* stdin ends between requests: the thread's cache is dropped, and a new
\* process starts.
Exit ==
  /\ req = Idle
  /\ disk' = Closed(disk, HandlesAt(cache, Paths))
  /\ cache' = [k \in Paths |-> NoEntry]
  /\ next_seq' = 0
  /\ hook' = FALSE
  /\ UNCHANGED req

\* The process dies: nothing is closed.
Crash ==
  /\ cache' = [k \in Paths |-> NoEntry]
  /\ next_seq' = 0
  /\ hook' = FALSE
  /\ req' = Idle
  /\ UNCHANGED disk

\* Another server's full index of the same graph, as this process meets it.
OtherRemoves(g) ==
  /\ disk[g].exists
  /\ disk' = [disk EXCEPT ![g].exists = FALSE]
  /\ UNCHANGED <<cache, next_seq, hook, req>>

OtherCreates(g, rows) ==
  /\ ~ disk[g].exists
  /\ disk[g].inc < MaxIncarnations
  /\ disk' = [disk EXCEPT ![g] = [exists |-> TRUE, inc |-> @.inc + 1, rows |-> rows,
                                  log |-> NoLog]]
  /\ UNCHANGED <<cache, next_seq, hook, req>>

Next ==
  \/ \E p \in Paths :
       \/ CachedHit(p) \/ CachedMiss(p) \/ CachedOpenFails(p) \/ FreshRead(p)
       \/ OpenToWrite(p) \/ OpenFails(p) \/ RemoveStale(p) \/ OpenToIndex(p)
       \/ \E rows \in SUBSET Rows : ImportArtifact(p, rows)
  \/ \E row \in Rows : CommitRow(row)
  \/ EndRead \/ CloseWriter \/ Exit \/ Crash
  \/ \E g \in Graphs :
       \/ OtherRemoves(g)
       \/ \E rows \in SUBSET Rows : OtherCreates(g, rows)

Spec == Init /\ [][Next]_vars

-----------------------------------------------------------------------------
(* Properties.                                                             *)

\* Every variable keeps its type; the cached handle of a key is on the graph
\* the key names.
TypeOK ==
  /\ disk \in [Graphs -> File]
  /\ cache \in [Paths -> {NoEntry} \cup Entry]
  /\ next_seq \in Nat
  /\ hook \in BOOLEAN
  /\ req \in Request

\* The handles this process has open: the cache's and the request's.
LiveKeys(g) == {k \in CachedKeys(cache) : Current(disk, cache[k].handle) /\ GraphOf(k) = g}

\* graph_store/handles.rs: one live handle per graph inside the process.  No
\* two entries are on the same present file, under any spelling of its path,
\* and none is while a tool owns a handle to write through.
OneHandlePerGraph ==
  \A g \in Graphs :
    /\ \A j, k \in LiveKeys(g) : j = k
    /\ req.pc = "write" /\ req.handle.graph = g /\ Current(disk, req.handle)
         => LiveKeys(g) = {}

\* A handle a running request holds stays in the cache under its key for the
\* whole request, where a release finds it and refuses: neither the capacity
\* nor a sibling opened meanwhile takes it out.
HeldIsCached ==
  req.pc = "read" => cache[req.key].cached /\ cache[req.key].handle = req.handle

\* The cache never holds more than MAX_CACHED_GRAPHS handles.
CacheIsBounded == Cardinality(CachedKeys(cache)) <= MaxCachedGraphs

\* Whenever open_cached hands out a handle, reused or not, it sees the rows the
\* graph durably has at that moment (postcondition of open_cached).
CachedReadsAreCurrent ==
  [][req.pc = "idle" /\ req'.pc = "read" =>
       /\ Current(disk', req'.handle)
       /\ req'.handle.rows = DurableRows(disk'[req'.handle.graph])]_vars

\* What tools see of the graphs changes by creation, commit and removal only:
\* no open, release, eviction, close or crash undoes a committed row.
Contents == INSTANCE GraphContents WITH
  graph <- [g \in Graphs |-> Seen(disk[g])]

ImplementsContents == Contents!Spec
=============================================================================
