------------------------- MODULE GraphHandlesProofs -------------------------
(***************************************************************************)
(* GraphHandles, proved for any set of graphs, any rows, any capacity and  *)
(* any bounds.  The argument: every open handle on a present file has the  *)
(* durable rows as its view, and a handle somebody writes through is the   *)
(* only one.  Then a close, which checkpoints the view it closes, changes  *)
(* nothing a tool can see.  Release finds the cached handle of a graph     *)
(* only because every entry is under its canonical path.                   *)
(***************************************************************************)
EXTENDS GraphHandles, FiniteSetTheorems, TLAPS

\* Files: a present file has an incarnation of its own, and no log is newer.
DiskOK(d) ==
  /\ d \in [Graphs -> File]
  /\ \A g \in Graphs : (d[g].exists => d[g].inc > 0) /\ d[g].log.inc <= d[g].inc

\* A handle is of an incarnation the graph has had; on the present file its
\* view is what the file durably holds.
ViewOK(d, h) ==
  /\ h \in Handle
  /\ h.inc <= d[h.graph].inc
  /\ Current(d, h) => h.rows = DurableRows(d[h.graph])

EntryOK(d, k, e) ==
  /\ e \in Entry
  /\ k = <<e.handle.graph, "canonical">>
  /\ ViewOK(d, e.handle)
  /\ e.fingerprint.inc = e.handle.inc

CacheOK(d, c, n) ==
  \A k \in Paths : \/ c[k] = NoEntry
                   \/ EntryOK(d, k, c[k]) /\ c[k].opened_seq < n

\* A handle to write through is alone on its file.
ReqOK(d, c, r) ==
  \/ r = Idle
  \/ /\ r \in [pc : {"read"}, key : Paths, handle : Handle]
     /\ c[r.key].cached /\ c[r.key].handle = r.handle
  \/ /\ r \in [pc : {"write"}, handle : Handle]
     /\ ViewOK(d, r.handle)
     /\ Current(d, r.handle) =>
          \A k \in CachedKeys(c) : Current(d, c[k].handle) => c[k].handle.graph # r.handle.graph
  \/ r \in [pc : {"rebuild"}, path : Paths]

\* The inductive invariant, of any disk, cache and request ...
InOrder(d, c, n, hk, r) ==
  /\ DiskOK(d)
  /\ c \in [Paths -> {NoEntry} \cup Entry]
  /\ CacheOK(d, c, n)
  /\ n \in Nat
  /\ hk \in BOOLEAN
  /\ (CachedKeys(c) # {}) => hk
  /\ ReqOK(d, c, r)

\* ... and of the present ones.
IInv == InOrder(disk, cache, next_seq, hook, req)

\* Two disks no tool can tell apart, with the same incarnations.
Agree(d, e) ==
  /\ DiskOK(e)
  /\ \A g \in Graphs : /\ e[g].exists = d[g].exists
                       /\ e[g].inc = d[g].inc
                       /\ DurableRows(e[g]) = DurableRows(d[g])

\* A change of the disk that leaves the views in order and revives no handle.
Keeps(d, e) ==
  /\ DiskOK(e)
  /\ \A h \in Handle : ViewOK(d, h) => ViewOK(e, h) /\ (Current(e, h) => Current(d, h))

LEMMA PathFacts ==
  ASSUME NEW p \in Paths
  PROVE  GraphOf(p) \in Graphs /\ <<GraphOf(p), "canonical">> \in Paths
BY DEF Paths, GraphOf

LEMMA EntryFacts ==
  /\ NoEntry.cached = FALSE
  /\ \A e \in Entry : e.cached = TRUE /\ e.handle \in Handle /\ e # NoEntry
<1>1. NoEntry.cached = FALSE
  BY Zenon DEF NoEntry
<1>2. \A e \in Entry : e.cached = TRUE
  BY Zenon DEF Entry
<1>3. \A e \in Entry : e.handle \in Handle
  BY DEF Entry
<1>4. \A e \in Entry : e # NoEntry
  BY <1>1, <1>2, Zenon
<1> QED BY <1>1, <1>2, <1>3, <1>4, Zenon

\* Closing handles whose views are the durable rows is invisible.
LEMMA CloseIsInvisible ==
  ASSUME NEW d, DiskOK(d), NEW hs, \A h \in hs : ViewOK(d, h)
  PROVE  Agree(d, Closed(d, hs))
<1> DEFINE mine(g) == {h \in hs : h.graph = g /\ Current(d, h)}
<1>1. ASSUME NEW g \in Graphs, mine(g) = {}
      PROVE  Closed(d, hs)[g] = d[g]
  BY <1>1 DEF Closed
<1>2. ASSUME NEW g \in Graphs, mine(g) # {}
      PROVE  /\ Closed(d, hs)[g] = [d[g] EXCEPT !.rows = DurableRows(d[g]), !.log = NoLog]
             /\ d[g].exists
  <2> DEFINE h == CHOOSE x \in mine(g) : TRUE
  <2>1. h \in mine(g)
    BY <1>2
  <2>2. h \in hs /\ h.graph = g /\ Current(d, h)
    BY <2>1
  <2>3. h.rows = DurableRows(d[g])
    BY <2>2 DEF ViewOK
  <2>4. Closed(d, hs)[g] = [d[g] EXCEPT !.rows = h.rows, !.log = NoLog]
    BY <1>2 DEF Closed
  <2>5. d[g].exists
    BY <2>2 DEF Current
  <2> QED BY <2>3, <2>4, <2>5
<1>3. ASSUME NEW g \in Graphs
      PROVE  /\ Closed(d, hs)[g] \in File
             /\ Closed(d, hs)[g].exists = d[g].exists
             /\ Closed(d, hs)[g].inc = d[g].inc
             /\ DurableRows(Closed(d, hs)[g]) = DurableRows(d[g])
             /\ Closed(d, hs)[g].log.inc <= d[g].inc
  <2>0. d[g] \in File /\ (d[g].exists => d[g].inc > 0) /\ d[g].log.inc <= d[g].inc
    BY DEF DiskOK
  <2>1. CASE mine(g) = {}
    BY <1>1, <2>0, <2>1
  <2>2. CASE mine(g) # {}
    <3>1. d[g].exists /\ Closed(d, hs)[g] = [d[g] EXCEPT !.rows = DurableRows(d[g]), !.log = NoLog]
      BY <1>2, <2>2
    <3>2. DurableRows(d[g]) \in SUBSET Rows
      BY <2>0 DEF DurableRows, File
    <3> DEFINE f == [d[g] EXCEPT !.rows = DurableRows(d[g]), !.log = NoLog]
    <3>3. f \in File
      BY <2>0, <3>2 DEF File, NoLog
    <3>4. f.exists = d[g].exists
      BY <2>0 DEF File
    <3>5. f.inc = d[g].inc /\ f.log = NoLog /\ f.rows = DurableRows(d[g])
      BY <2>0 DEF File
    <3>6. f.log.inc = 0 /\ f.log.inc # f.inc
      BY <2>0, <3>1, <3>5 DEF NoLog, File
    <3>7. DurableRows(f) = DurableRows(d[g])
      BY <3>5, <3>6 DEF DurableRows
    <3>8. f.log.inc <= d[g].inc
      BY <2>0, <3>6 DEF File
    <3> QED BY <3>1, <3>3, <3>4, <3>5, <3>7, <3>8
  <2> QED BY <2>1, <2>2
<1>4. Closed(d, hs) = [g \in Graphs |-> Closed(d, hs)[g]]
  BY DEF Closed
<1>5. Closed(d, hs) \in [Graphs -> File]
  BY <1>3, <1>4
<1> QED BY <1>3, <1>5 DEF Agree, DiskOK

\* Opening an existing file only moves a foreign log aside.
LEMMA OpenIsInvisible ==
  ASSUME NEW d, DiskOK(d), NEW g \in Graphs, d[g].exists
  PROVE  Agree(d, Opened(d, g))
<1>1. d[g] \in File /\ d[g].inc > 0
  BY DEF DiskOK
<1>2. CASE d[g].log.inc = d[g].inc
  BY <1>2 DEF Opened, Agree
<1>3. CASE d[g].log.inc # d[g].inc
  <2>1. Opened(d, g) = [d EXCEPT ![g].log = NoLog]
    BY <1>3 DEF Opened
  <2> QED BY <1>1, <1>3, <2>1 DEF Agree, DiskOK, File, NoLog, DurableRows
<1> QED BY <1>2, <1>3

LEMMA AgreeIsTransitive ==
  ASSUME NEW d, NEW e, NEW f, Agree(d, e), Agree(e, f)
  PROVE  Agree(d, f)
BY DEF Agree

LEMMA AgreeReflexive ==
  ASSUME NEW d, DiskOK(d) PROVE Agree(d, d)
BY DEF Agree

LEMMA AgreeKeepsViews ==
  ASSUME NEW d, NEW e, Agree(d, e), NEW h, ViewOK(d, h)
  PROVE  ViewOK(e, h) /\ (Current(e, h) <=> Current(d, h))
BY DEF Agree, ViewOK, Current, Handle

LEMMA NewHandleOK ==
  ASSUME NEW d, DiskOK(d), NEW g \in Graphs
  PROVE  ViewOK(d, HandleOn(d, g)) /\ HandleOn(d, g) \in Handle /\ HandleOn(d, g).graph = g
<1>1. d[g] \in File
  BY DEF DiskOK
<1>2. DurableRows(d[g]) \in SUBSET Rows
  BY <1>1 DEF DurableRows, File
<1> QED BY <1>1, <1>2 DEF ViewOK, HandleOn, Handle, Current, File

\* The cached handles are views; removing entries keeps the cache in order.
LEMMA CachedViews ==
  ASSUME NEW d, NEW c, NEW n, CacheOK(d, c, n), NEW keys, NEW h \in HandlesAt(c, keys)
  PROVE  ViewOK(d, h)
BY EntryFacts DEF HandlesAt, CachedKeys, CacheOK, EntryOK

LEMMA AgreeKeeps ==
  ASSUME NEW d, NEW e, Agree(d, e) PROVE Keeps(d, e)
BY AgreeKeepsViews DEF Keeps, Agree

LEMMA KeepsIsTransitive ==
  ASSUME NEW d, NEW e, NEW f, Keeps(d, e), Keeps(e, f) PROVE Keeps(d, f)
BY DEF Keeps

\* Removing the file, and creating one of a new incarnation.
LEMMA RemovalKeeps ==
  ASSUME NEW d, DiskOK(d), NEW g \in Graphs
  PROVE  Keeps(d, [d EXCEPT ![g].exists = FALSE])
<1> DEFINE e == [d EXCEPT ![g].exists = FALSE]
<1>1. d \in [Graphs -> File]
  BY DEF DiskOK
<1>2. e \in [Graphs -> File]
  BY <1>1 DEF File
<1>3. \A x \in Graphs : e[x].inc = d[x].inc /\ e[x].log = d[x].log /\ e[x].rows = d[x].rows
  BY <1>1 DEF File
<1>4. \A x \in Graphs : e[x].exists => d[x].exists
  BY <1>1 DEF File
<1>5. DiskOK(e)
  BY <1>2, <1>3, <1>4 DEF DiskOK
<1>6. ASSUME NEW h \in Handle, ViewOK(d, h)
      PROVE  ViewOK(e, h) /\ (Current(e, h) => Current(d, h))
  <2>1. h.graph \in Graphs
    BY DEF Handle
  <2> QED BY <1>3, <1>4, <1>6, <2>1 DEF ViewOK, Current, DurableRows
<1> QED BY <1>5, <1>6 DEF Keeps

LEMMA CreationKeeps ==
  ASSUME NEW d, DiskOK(d), NEW g \in Graphs, NEW f \in File,
         f.inc = d[g].inc + 1, f.log.inc <= d[g].inc
  PROVE  Keeps(d, [d EXCEPT ![g] = f])
<1> DEFINE e == [d EXCEPT ![g] = f]
<1>1. d \in [Graphs -> File] /\ d[g].inc \in Nat /\ f.log.inc \in Nat
  BY DEF DiskOK, File
<1>2. e \in [Graphs -> File] /\ e[g] = f /\ \A x \in Graphs \ {g} : e[x] = d[x]
  BY <1>1
<1>3. DiskOK(e)
  BY <1>1, <1>2 DEF DiskOK
<1>4. ASSUME NEW h \in Handle, ViewOK(d, h)
      PROVE  ViewOK(e, h) /\ (Current(e, h) => Current(d, h))
  <2>1. h.graph \in Graphs /\ h.inc \in Nat
    BY DEF Handle
  <2>2. CASE h.graph = g
    BY <1>1, <1>2, <1>4, <2>1, <2>2 DEF ViewOK, Current
  <2>3. CASE h.graph # g
    BY <1>2, <1>4, <2>1, <2>3 DEF ViewOK, Current
  <2> QED BY <2>2, <2>3
<1> QED BY <1>3, <1>4 DEF Keeps

\* An open that finds no file creates one.
LEMMA OpenCreates ==
  ASSUME NEW d, DiskOK(d), NEW g \in Graphs, ~ d[g].exists
  PROVE  /\ Opened(d, g) = [d EXCEPT ![g] = [exists |-> TRUE, inc |-> d[g].inc + 1,
                                             rows |-> {}, log |-> NoLog]]
         /\ Keeps(d, Opened(d, g))
<1> DEFINE f == [exists |-> TRUE, inc |-> d[g].inc + 1, rows |-> {}, log |-> NoLog]
<1>1. d[g].inc \in Nat
  BY DEF DiskOK, File
<1>2. Opened(d, g) = [d EXCEPT ![g] = f]
  BY DEF Opened
<1>3. f \in File /\ f.inc = d[g].inc + 1 /\ f.log.inc <= d[g].inc
  BY <1>1 DEF File, NoLog
<1> HIDE DEF f
<1>4. Keeps(d, [d EXCEPT ![g] = f])
  BY <1>3, CreationKeeps
<1> QED BY <1>2, <1>4 DEF f

LEMMA OpenKeeps ==
  ASSUME NEW d, DiskOK(d), NEW g \in Graphs
  PROVE  Keeps(d, Opened(d, g))
BY OpenCreates, OpenIsInvisible, AgreeKeeps

LEMMA WithoutFacts ==
  ASSUME NEW c, NEW keys
  PROVE  /\ CachedKeys(Without(c, keys)) = CachedKeys(c) \ keys
         /\ \A k \in CachedKeys(c) \ keys : Without(c, keys)[k] = c[k]
BY EntryFacts DEF CachedKeys, Without

\* Such a change, with entries dropped that no request holds.
LEMMA ChangeKeepsOrder ==
  ASSUME NEW d, NEW e, NEW c, NEW n, NEW hk, NEW r, NEW keys,
         InOrder(d, c, n, hk, r), Keeps(d, e), r.pc = "read" => r.key \notin keys
  PROVE  InOrder(e, Without(c, keys), n, hk, r)
<1> DEFINE w == Without(c, keys)
<1>1. \A k \in Paths : w[k] = IF k \in keys THEN NoEntry ELSE c[k]
  BY DEF Without
<1>2. w \in [Paths -> {NoEntry} \cup Entry]
  BY DEF Without, InOrder
<1>3. CachedKeys(w) = CachedKeys(c) \ keys
  BY WithoutFacts
<1>4. \A k \in CachedKeys(c) \ keys : w[k] = c[k]
  BY WithoutFacts
<1>5. ASSUME NEW k \in Paths, EntryOK(d, k, c[k])
      PROVE  EntryOK(e, k, c[k])
  BY <1>5, EntryFacts DEF EntryOK, Keeps
<1>6. CacheOK(e, w, n)
  BY <1>1, <1>5 DEF CacheOK, InOrder
<1>7. ReqOK(e, w, r)
  <2> HIDE DEF w
  <2>1. CASE r \in [pc : {"read"}, key : Paths, handle : Handle] /\ c[r.key].cached
             /\ c[r.key].handle = r.handle
    <3>1. r.key \in CachedKeys(c) \ keys
      BY <2>1 DEF CachedKeys
    <3>2. w[r.key] = c[r.key]
      BY <1>4, <3>1
    <3> QED BY <2>1, <3>2 DEF ReqOK
  <2>2. CASE r \in [pc : {"write"}, handle : Handle] /\ ViewOK(d, r.handle)
             /\ (Current(d, r.handle) =>
                   \A k \in CachedKeys(c) :
                     Current(d, c[k].handle) => c[k].handle.graph # r.handle.graph)
    <3>1. r.handle \in Handle
      BY <2>2
    <3>2. ViewOK(e, r.handle) /\ (Current(e, r.handle) => Current(d, r.handle))
      BY <2>2, <3>1 DEF Keeps
    <3>3. ASSUME NEW k \in CachedKeys(w), Current(e, w[k].handle), Current(e, r.handle)
          PROVE  w[k].handle.graph # r.handle.graph
      <4>1. k \in CachedKeys(c) /\ w[k] = c[k] /\ k \in Paths
        BY <1>3, <1>4 DEF CachedKeys
      <4>2. EntryOK(d, k, c[k])
        BY <4>1, EntryFacts DEF InOrder, CacheOK, CachedKeys
      <4>3. Current(d, c[k].handle)
        BY <3>3, <4>1, <4>2, EntryFacts DEF EntryOK, Keeps
      <4> QED BY <2>2, <3>2, <3>3, <4>1, <4>3
    <3> QED BY <2>2, <3>2, <3>3 DEF ReqOK
  <2> QED BY <2>1, <2>2 DEF ReqOK, InOrder
<1> QED BY <1>2, <1>3, <1>4, <1>6, <1>7 DEF InOrder, Keeps

LEMMA DiskChangeKeepsOrder ==
  ASSUME NEW d, NEW e, NEW c, NEW n, NEW hk, NEW r, InOrder(d, c, n, hk, r), Keeps(d, e)
  PROVE  InOrder(e, c, n, hk, r)
<1>1. c = [k \in Paths |-> c[k]]
  BY DEF InOrder
<1>2. Without(c, {}) = c
  BY <1>1 DEF Without
<1> QED BY <1>2, ChangeKeepsOrder

\* A release that is not refused: nothing visible happens, and no handle of
\* the graph on a present file is left.
LEMMA ReleaseKeepsOrder ==
  ASSUME IInv, NEW p \in Paths, MayRelease(p),
         NEW d, d = Closed(disk, HandlesAt(cache, Released(p))),
         NEW c, c = Without(cache, Released(p))
  PROVE  /\ Agree(disk, d)
         /\ InOrder(d, c, next_seq, hook, req)
         /\ disk[GraphOf(p)].exists =>
              \A k \in CachedKeys(c) : c[k].handle.graph # GraphOf(p)
<1> DEFINE ks == Released(p)
<1>1. Agree(disk, d)
  BY CachedViews, CloseIsInvisible DEF IInv, InOrder
<1>2. req.pc = "read" => req.key \notin ks
  BY DEF MayRelease, Released, InUse, CachedKeys
<1>3. /\ InOrder(d, c, next_seq, hook, req)
      /\ CachedKeys(c) = CachedKeys(cache) \ ks
      /\ \A k \in CachedKeys(cache) \ ks : c[k] = cache[k]
  <2>1. Keeps(disk, d)
    BY <1>1, AgreeKeeps
  <2>2. InOrder(disk, cache, next_seq, hook, req)
    BY DEF IInv
  <2> HIDE DEF ks
  <2>3. InOrder(d, Without(cache, ks), next_seq, hook, req)
    BY <1>2, <2>1, <2>2, ChangeKeepsOrder
  <2>4. c = Without(cache, ks)
    BY DEF ks
  <2> QED BY <2>3, <2>4, WithoutFacts
<1>4. ASSUME disk[GraphOf(p)].exists, NEW k \in CachedKeys(c)
      PROVE  c[k].handle.graph # GraphOf(p)
  <2>1. k \in CachedKeys(cache) /\ k \notin ks /\ c[k] = cache[k] /\ k \in Paths
    BY <1>3 DEF CachedKeys
  <2>2. hook
    BY <2>1 DEF IInv, InOrder
  <2>3. k # <<GraphOf(p), "canonical">>
    BY <1>4, <2>1, <2>2 DEF Released, Key
  <2>4. k = <<cache[k].handle.graph, "canonical">>
    BY <2>1, EntryFacts DEF IInv, InOrder, CacheOK, EntryOK, CachedKeys
  <2> QED BY <2>1, <2>3, <2>4
<1> QED BY <1>1, <1>3, <1>4

LEMMA InitInOrder == Init => IInv
<1> SUFFICES ASSUME Init PROVE IInv
  OBVIOUS
<1>1. DiskOK(disk)
  BY DEF Init, DiskOK, File, NoLog
<1>2. cache \in [Paths -> {NoEntry} \cup Entry] /\ \A k \in Paths : cache[k] = NoEntry
  BY DEF Init
<1>3. CacheOK(disk, cache, next_seq) /\ CachedKeys(cache) = {}
  BY <1>2, EntryFacts DEF CacheOK, CachedKeys
<1> QED BY <1>1, <1>2, <1>3 DEF Init, IInv, InOrder, ReqOK

\* What the invariant says of one cached entry.
LEMMA CachedEntry ==
  ASSUME IInv, NEW k \in Paths, cache[k].cached
  PROVE  /\ cache[k] \in Entry
         /\ EntryOK(disk, k, cache[k])
         /\ cache[k].handle \in Handle
         /\ ViewOK(disk, cache[k].handle)
         /\ cache[k].opened_seq < next_seq
BY EntryFacts DEF IInv, InOrder, CacheOK, EntryOK

LEMMA HitKeepsOrder ==
  ASSUME IInv, NEW p \in Paths, CachedHit(p)
  PROVE  IInv' /\ disk' = disk /\ Current(disk', req'.handle)
<1>1. Key(disk, p) \in Paths
  BY PathFacts DEF Key
<1>2. cache[Key(disk, p)].cached
  BY DEF CachedHit, IsHit
<1>3. cache[Key(disk, p)].handle \in Handle
  BY <1>1, <1>2, CachedEntry
<1>4. ReqOK(disk, cache, req')
  BY <1>1, <1>2, <1>3 DEF CachedHit, Reading, ReqOK
<1>5. Current(disk, cache[Key(disk, p)].handle)
  <2>1. disk[GraphOf(p)].exists /\ Key(disk, p) = <<GraphOf(p), "canonical">>
    BY DEF CachedHit, Key
  <2>2. EntryOK(disk, Key(disk, p), cache[Key(disk, p)])
    BY <1>1, <1>2, CachedEntry
  <2>3. cache[Key(disk, p)].handle.graph = GraphOf(p)
    BY <2>1, <2>2 DEF EntryOK
  <2>4. cache[Key(disk, p)].fingerprint = Fingerprint(disk[GraphOf(p)])
    BY DEF CachedHit, IsHit
  <2>5. cache[Key(disk, p)].handle.inc = disk[GraphOf(p)].inc
    BY <2>2, <2>4 DEF EntryOK, Fingerprint
  <2> QED BY <2>1, <2>3, <2>5 DEF Current
<1>6. disk' = disk /\ req'.handle = cache[Key(disk, p)].handle
  BY DEF CachedHit, Reading
<1> QED BY <1>4, <1>5, <1>6 DEF CachedHit, IInv, InOrder

\* The entry just opened is not the one that capacity drops.
LEMMA NewestIsNotEvicted ==
  ASSUME NEW c, NEW k \in CachedKeys(c), c[k].opened_seq \in Nat,
         \A j \in CachedKeys(c) \ {k} :
           c[j].opened_seq \in Nat /\ c[j].opened_seq < c[k].opened_seq
  PROVE  k \notin Evicted(c)
<1>1. CASE CachedKeys(c) = {k}
  <2>1. Cardinality(CachedKeys(c)) = 1
    BY <1>1, FS_Singleton
  <2> QED BY <2>1, CapacityAssumption DEF Evicted
<1>2. CASE CachedKeys(c) # {k}
  <2>1. PICK j \in CachedKeys(c) : j # k
    BY <1>2
  <2> QED BY <2>1 DEF Evicted
<1> QED BY <1>1, <1>2

LEMMA MissKeepsOrder ==
  ASSUME IInv, NEW p \in Paths, CachedMiss(p)
  PROVE  IInv' /\ Agree(disk, disk') /\ Current(disk', req'.handle)
<1> DEFINE g == GraphOf(p)
           k == Key(disk, p)
           d == Opened(disk, g)
           entry == [cached |-> TRUE, handle |-> HandleOn(d, g),
                     fingerprint |-> Fingerprint(d[g]), opened_seq |-> next_seq]
           c == [cache EXCEPT ![k] = entry]
           old == HandlesAt(cache, {k} \cup Evicted(c))
<1>1. /\ req = Idle /\ disk[g].exists
      /\ disk' = Closed(d, old)
      /\ cache' = Without(c, Evicted(c))
      /\ next_seq' = next_seq + 1
      /\ hook' = TRUE
      /\ req' = Reading(k, entry.handle)
  BY DEF CachedMiss
<1>2. g \in Graphs /\ k \in Paths /\ k = <<g, "canonical">>
  BY <1>1, PathFacts DEF Key
<1>3. Agree(disk, d) /\ DiskOK(d) /\ DiskOK(disk)
  BY <1>1, <1>2, OpenIsInvisible DEF IInv, InOrder, Agree
<1>4. ViewOK(d, HandleOn(d, g)) /\ HandleOn(d, g) \in Handle /\ HandleOn(d, g).graph = g
  BY <1>2, <1>3, NewHandleOK
<1>5. next_seq \in Nat /\ cache \in [Paths -> {NoEntry} \cup Entry]
      /\ CacheOK(disk, cache, next_seq)
  BY DEF IInv, InOrder
<1>6. entry \in Entry /\ EntryOK(d, k, entry)
  <2>1. d[g].inc \in Nat /\ d[g].rows \in SUBSET Rows
    BY <1>2, <1>3 DEF DiskOK, File
  <2>2. Fingerprint(d[g]) \in [inc : Nat, rows : SUBSET Rows]
    BY <2>1 DEF Fingerprint
  <2>3. entry \in Entry
    BY <1>4, <1>5, <2>2 DEF Entry
  <2>4. entry.handle = HandleOn(d, g) /\ entry.fingerprint.inc = d[g].inc
    BY DEF Fingerprint
  <2>5. HandleOn(d, g).inc = d[g].inc
    BY DEF HandleOn
  <2> QED BY <1>2, <1>4, <2>3, <2>4, <2>5 DEF EntryOK
<1>7. entry.opened_seq = next_seq /\ entry.handle = HandleOn(d, g) /\ entry.cached = TRUE
  BY Zenon
<1> HIDE DEF entry, d
<1>8. c \in [Paths -> {NoEntry} \cup Entry] /\ c[k] = entry
      /\ \A j \in Paths \ {k} : c[j] = cache[j]
  BY <1>2, <1>5, <1>6
<1> HIDE DEF c, k, g
<1>9. k \in CachedKeys(c)
  BY <1>2, <1>7, <1>8 DEF CachedKeys
<1>10. ASSUME NEW j \in CachedKeys(c) \ {k}
       PROVE  c[j] = cache[j] /\ j \in Paths /\ EntryOK(d, j, c[j])
              /\ c[j].opened_seq \in Nat /\ c[j].opened_seq < next_seq
  <2>1. j \in Paths /\ c[j] = cache[j] /\ cache[j].cached
    BY <1>8 DEF CachedKeys
  <2>2. cache[j] \in Entry /\ EntryOK(disk, j, cache[j]) /\ cache[j].opened_seq < next_seq
    BY <2>1, CachedEntry
  <2>3. ViewOK(d, cache[j].handle)
    BY <1>3, <2>2, AgreeKeepsViews DEF EntryOK
  <2> QED BY <2>1, <2>2, <2>3 DEF EntryOK, Entry
<1>11. k \notin Evicted(c)
  BY <1>5, <1>7, <1>8, <1>9, <1>10, NewestIsNotEvicted
<1>12. Agree(d, disk')
  <2>1. \A h \in old : ViewOK(disk, h)
    BY <1>5, CachedViews
  <2>2. \A h \in old : ViewOK(d, h)
    BY <1>3, <2>1, AgreeKeepsViews
  <2> QED BY <1>1, <1>3, <2>2, CloseIsInvisible
<1>13. CacheOK(d, c, next_seq + 1)
  <2> SUFFICES ASSUME NEW j \in Paths, c[j] # NoEntry
               PROVE  EntryOK(d, j, c[j]) /\ c[j].opened_seq < next_seq + 1
    BY DEF CacheOK
  <2>1. CASE j = k
    BY <1>5, <1>6, <1>7, <1>8, <2>1
  <2>2. CASE j # k
    <3>1. c[j] \in Entry
      BY <1>8
    <3>2. j \in CachedKeys(c) \ {k}
      BY <2>2, <3>1, EntryFacts DEF CachedKeys
    <3> QED BY <1>5, <1>10, <3>2
  <2> QED BY <2>1, <2>2
<1>14. InOrder(d, c, next_seq + 1, TRUE, Idle)
  BY <1>3, <1>5, <1>8, <1>13 DEF InOrder, ReqOK
<1>15. InOrder(disk', cache', next_seq + 1, TRUE, Idle)
  <2>1. Idle.pc # "read"
    BY DEF Idle
  <2> QED BY <1>1, <1>12, <1>14, <2>1, AgreeKeeps, ChangeKeepsOrder
<1>16. cache'[k] = entry
  BY <1>1, <1>2, <1>8, <1>11 DEF Without
<1>17. ReqOK(disk', cache', req')
  <2>1. req' = [pc |-> "read", key |-> k, handle |-> HandleOn(d, g)]
    BY <1>1, <1>7 DEF Reading
  <2> QED BY <1>2, <1>4, <1>7, <1>16, <2>1 DEF ReqOK
<1>18. Current(disk', req'.handle)
  <2>1. disk'[g].exists /\ disk'[g].inc = d[g].inc
    BY <1>1, <1>2, <1>3, <1>12 DEF Agree
  <2>2. req'.handle = HandleOn(d, g) /\ HandleOn(d, g).inc = d[g].inc
    BY <1>1, <1>7 DEF Reading, HandleOn
  <2> QED BY <1>4, <2>1, <2>2 DEF Current
<1>19. Agree(disk, disk')
  BY <1>3, <1>12, AgreeIsTransitive
<1> QED BY <1>1, <1>15, <1>17, <1>18, <1>19 DEF IInv, InOrder

LEMMA EndReadKeepsOrder ==
  ASSUME IInv, EndRead PROVE IInv' /\ disk' = disk
<1>1. cache[req.key].cached /\ cache[req.key].handle = req.handle
  BY DEF EndRead, IInv, InOrder, ReqOK, Idle
<1>2. disk' = disk /\ req' = Idle /\ UNCHANGED <<cache, next_seq, hook>>
  BY <1>1 DEF EndRead
<1> QED BY <1>2 DEF IInv, InOrder, ReqOK

LEMMA FreshReadKeepsOrder ==
  ASSUME IInv, NEW p \in Paths, FreshRead(p) PROVE IInv' /\ Agree(disk, disk')
<1> DEFINE g == GraphOf(p)
           released == Closed(disk, HandlesAt(cache, Released(p)))
           d == Opened(released, g)
<1>1. /\ MayRelease(p) /\ disk[g].exists
      /\ cache' = Without(cache, Released(p))
      /\ disk' = Closed(d, {HandleOn(d, g)})
      /\ UNCHANGED <<next_seq, hook, req>>
  BY DEF FreshRead
<1>2. g \in Graphs
  BY PathFacts
<1>3. Agree(disk, released) /\ InOrder(released, cache', next_seq, hook, req)
  BY <1>1, ReleaseKeepsOrder
<1> HIDE DEF released
<1>4. Agree(released, d) /\ DiskOK(d)
  BY <1>1, <1>2, <1>3, OpenIsInvisible DEF Agree
<1> HIDE DEF d, g
<1>5. Agree(d, disk')
  BY <1>1, <1>2, <1>4, NewHandleOK, CloseIsInvisible
<1>6. Agree(released, disk')
  BY <1>4, <1>5, AgreeIsTransitive
<1>7. InOrder(disk', cache', next_seq, hook, req)
  BY <1>3, <1>6, AgreeKeeps, DiskChangeKeepsOrder
<1> QED BY <1>1, <1>3, <1>6, <1>7, AgreeIsTransitive DEF IInv

\* Every guarded open that is kept: the new handle is alone on its file.
LEMMA OpenKeepsOrder ==
  ASSUME IInv, NEW p \in Paths, MayRelease(p), req.pc # "read",
         NEW d, d = Opened(Closed(disk, HandlesAt(cache, Released(p))), GraphOf(p)),
         NEW c, c = Without(cache, Released(p))
  PROVE  InOrder(d, c, next_seq, hook, Writing(HandleOn(d, GraphOf(p))))
<1> DEFINE g == GraphOf(p)
           released == Closed(disk, HandlesAt(cache, Released(p)))
           h == HandleOn(d, g)
<1>1. /\ Agree(disk, released) /\ InOrder(released, c, next_seq, hook, req)
      /\ disk[g].exists => \A k \in CachedKeys(c) : c[k].handle.graph # g
  BY ReleaseKeepsOrder
<1>2. g \in Graphs /\ d = Opened(released, g)
  BY PathFacts
<1> HIDE DEF released, g
<1>3. DiskOK(released) /\ Keeps(released, d) /\ DiskOK(d)
  BY <1>1, <1>2, OpenKeeps DEF Agree, Keeps
<1>4. InOrder(d, c, next_seq, hook, req)
  BY <1>1, <1>3, DiskChangeKeepsOrder
<1>5. ViewOK(d, h) /\ h \in Handle /\ h.graph = g /\ h.inc = d[g].inc
  BY <1>2, <1>3, NewHandleOK DEF HandleOn
<1>6. ASSUME NEW k \in CachedKeys(c), Current(d, c[k].handle)
      PROVE  c[k].handle.graph # h.graph
  <2>1. CASE disk[g].exists
    BY <1>1, <1>5, <2>1
  <2>2. CASE ~ disk[g].exists
    <3>1. ~ released[g].exists
      BY <1>1, <1>2, <2>2 DEF Agree
    <3>2. d[g].inc = released[g].inc + 1 /\ released[g].inc \in Nat
      BY <1>2, <1>3, <3>1, OpenCreates DEF DiskOK, File
    <3>3. c[k] \in Entry /\ EntryOK(released, k, c[k]) /\ c[k].handle \in Handle
      BY <1>1, EntryFacts DEF InOrder, CacheOK, EntryOK, CachedKeys
    <3>4. SUFFICES ASSUME c[k].handle.graph = g PROVE FALSE
      BY <1>5
    <3>5. c[k].handle.inc <= released[g].inc /\ c[k].handle.inc \in Nat
      BY <3>3, <3>4 DEF EntryOK, ViewOK, Handle
    <3> QED BY <1>6, <3>2, <3>4, <3>5 DEF Current
  <2> QED BY <2>1, <2>2
<1>7. ReqOK(d, c, Writing(h))
  <2> HIDE DEF h
  <2>1. Writing(h) \in [pc : {"write"}, handle : Handle] /\ Writing(h).handle = h
    BY <1>5 DEF Writing
  <2> QED BY <1>5, <1>6, <2>1 DEF ReqOK
<1> QED BY <1>4, <1>7 DEF InOrder, g

LEMMA OpenToWriteKeepsOrder ==
  ASSUME IInv, NEW p \in Paths, OpenToWrite(p) PROVE IInv' /\ Agree(disk, disk')
<1> DEFINE released == Closed(disk, HandlesAt(cache, Released(p)))
<1>1. /\ req.pc # "read" /\ MayRelease(p) /\ disk[GraphOf(p)].exists
      /\ disk' = Opened(released, GraphOf(p))
      /\ cache' = Without(cache, Released(p))
      /\ req' = Writing(HandleOn(disk', GraphOf(p)))
      /\ UNCHANGED <<next_seq, hook>>
  BY DEF OpenToWrite, Idle
<1>2. InOrder(disk', cache', next_seq, hook, req')
  BY <1>1, OpenKeepsOrder
<1>3. Agree(disk, released)
  BY <1>1, ReleaseKeepsOrder
<1> HIDE DEF released
<1>4. Agree(released, disk')
  BY <1>1, <1>3, PathFacts, OpenIsInvisible DEF Agree
<1> QED BY <1>1, <1>2, <1>3, <1>4, AgreeIsTransitive DEF IInv

LEMMA OpenFailsKeepsOrder ==
  ASSUME IInv, NEW p \in Paths, OpenFails(p) PROVE IInv' /\ Agree(disk, disk')
<1>1. /\ MayRelease(p)
      /\ disk' = Closed(disk, HandlesAt(cache, Released(p)))
      /\ cache' = Without(cache, Released(p))
      /\ UNCHANGED <<next_seq, hook, req>>
  BY DEF OpenFails
<1>2. Agree(disk, disk') /\ InOrder(disk', cache', next_seq, hook, req)
  BY <1>1, ReleaseKeepsOrder
<1> QED BY <1>1, <1>2 DEF IInv

LEMMA CloseWriterKeepsOrder ==
  ASSUME IInv, CloseWriter PROVE IInv' /\ Agree(disk, disk')
<1>1. ViewOK(disk, req.handle) /\ DiskOK(disk)
  BY DEF CloseWriter, IInv, InOrder, ReqOK, Idle
<1>2. Agree(disk, disk')
  BY <1>1, CloseIsInvisible DEF CloseWriter
<1>3. InOrder(disk', cache, next_seq, hook, req)
  BY <1>2, AgreeKeeps, DiskChangeKeepsOrder DEF IInv
<1> QED BY <1>2, <1>3 DEF CloseWriter, IInv, InOrder, ReqOK

\* A commit on the present file replaces its durable rows by the writer's view.
LEMMA CommitIsSeen ==
  ASSUME NEW d, DiskOK(d), NEW h, ViewOK(d, h), Current(d, h), NEW row \in Rows
  PROVE  /\ DiskOK(Committed(d, h, row))
         /\ \A g \in Graphs : /\ Committed(d, h, row)[g].exists = d[g].exists
                              /\ Committed(d, h, row)[g].inc = d[g].inc
         /\ DurableRows(Committed(d, h, row)[h.graph]) = h.rows \cup {row}
         /\ \A g \in Graphs \ {h.graph} : Committed(d, h, row)[g] = d[g]
<1> DEFINE log == [inc |-> h.inc, rows |-> h.rows \cup {row}]
           e == [d EXCEPT ![h.graph].log = log]
<1>1. h.graph \in Graphs /\ h.inc \in Nat /\ h.rows \in SUBSET Rows
  BY DEF ViewOK, Handle
<1>2. d \in [Graphs -> File] /\ d[h.graph].inc = h.inc /\ d[h.graph] \in File
  BY <1>1 DEF DiskOK, Current
<1>3. log \in [inc : Nat, rows : SUBSET Rows] /\ log.inc = h.inc /\ log.rows = h.rows \cup {row}
  BY <1>1
<1>4. Committed(d, h, row) = e
  BY DEF Committed
<1> HIDE DEF log
<1>5. e \in [Graphs -> File] /\ \A g \in Graphs \ {h.graph} : e[g] = d[g]
  BY <1>1, <1>2, <1>3 DEF File
<1>6. e[h.graph].exists = d[h.graph].exists
  BY <1>1, <1>2 DEF File
<1>7. e[h.graph].inc = h.inc /\ e[h.graph].log = log
  BY <1>1, <1>2 DEF File
<1> HIDE DEF e
<1>8. DiskOK(e)
  BY <1>1, <1>2, <1>3, <1>5, <1>6, <1>7 DEF DiskOK
<1>9. DurableRows(e[h.graph]) = h.rows \cup {row}
  BY <1>3, <1>7 DEF DurableRows
<1> QED BY <1>2, <1>4, <1>5, <1>6, <1>7, <1>8, <1>9

LEMMA CommitKeepsOrder ==
  ASSUME IInv, NEW row \in Rows, CommitRow(row) PROVE IInv'
<1> DEFINE h == req.handle
           h2 == [h EXCEPT !.rows = @ \cup {row}]
<1>1. /\ req \in [pc : {"write"}, handle : Handle]
      /\ ViewOK(disk, h)
      /\ Current(disk, h) =>
           \A k \in CachedKeys(cache) : Current(disk, cache[k].handle) => cache[k].handle.graph # h.graph
  BY DEF CommitRow, IInv, InOrder, ReqOK, Idle
<1>2. req' = [pc |-> "write", handle |-> h2]
  BY <1>1 DEF CommitRow
<1>3. /\ h2 \in Handle /\ h2.graph = h.graph /\ h2.inc = h.inc /\ h2.rows = h.rows \cup {row}
      /\ h \in Handle /\ h.graph \in Graphs
  BY <1>1 DEF Handle
<1>4. UNCHANGED <<cache, next_seq, hook>> /\ disk' = Committed(disk, h, row)
  BY DEF CommitRow
<1>5. DiskOK(disk)
  BY DEF IInv, InOrder
<1> HIDE DEF h, h2
<1>6. CASE ~ Current(disk, h)
  <2>1. disk' = disk
    BY <1>4, <1>6 DEF Committed
  <2>2. ViewOK(disk, h2) /\ ~ Current(disk, h2)
    BY <1>1, <1>3, <1>6 DEF ViewOK, Current
  <2>3. req'.handle = h2 /\ req' \in [pc : {"write"}, handle : Handle]
    BY <1>2, <1>3
  <2>4. ReqOK(disk', cache', req')
    BY <1>4, <2>1, <2>2, <2>3 DEF ReqOK
  <2> QED BY <1>4, <2>1, <2>4 DEF IInv, InOrder
<1>7. CASE Current(disk, h)
  <2>1. /\ DiskOK(disk')
        /\ \A g \in Graphs : disk'[g].exists = disk[g].exists /\ disk'[g].inc = disk[g].inc
        /\ DurableRows(disk'[h.graph]) = h2.rows
        /\ \A g \in Graphs \ {h.graph} : disk'[g] = disk[g]
    BY <1>1, <1>3, <1>4, <1>5, <1>7, CommitIsSeen
  <2>2. ASSUME NEW x \in Handle PROVE Current(disk', x) <=> Current(disk, x)
    BY <2>1 DEF Current, Handle
  <2>3. ViewOK(disk', h2)
    BY <1>1, <1>3, <2>1 DEF ViewOK
  <2>4. ASSUME NEW k \in Paths, cache[k].cached
        PROVE  EntryOK(disk', k, cache[k])
    <3>1. EntryOK(disk, k, cache[k]) /\ cache[k].handle \in Handle /\ cache[k].handle.graph \in Graphs
      BY <2>4, CachedEntry DEF Handle
    <3>2. Current(disk, cache[k].handle) => cache[k].handle.graph # h.graph
      BY <1>1, <1>7, <2>4 DEF CachedKeys
    <3>3. ViewOK(disk', cache[k].handle)
      BY <2>1, <2>2, <3>1, <3>2 DEF EntryOK, ViewOK
    <3> QED BY <3>1, <3>3 DEF EntryOK
  <2>5. CacheOK(disk', cache, next_seq)
    BY <2>4, EntryFacts DEF IInv, InOrder, CacheOK, EntryOK
  <2>6. ReqOK(disk', cache', req')
    <3>1. req'.handle = h2 /\ req' \in [pc : {"write"}, handle : Handle]
      BY <1>2, <1>3
    <3>2. ASSUME NEW k \in CachedKeys(cache), Current(disk', cache[k].handle)
          PROVE  cache[k].handle.graph # h2.graph
      <4>1. cache[k].handle \in Handle
        BY CachedEntry DEF CachedKeys
      <4> QED BY <1>1, <1>3, <1>7, <2>2, <3>2, <4>1
    <3> QED BY <1>4, <2>3, <3>1, <3>2 DEF ReqOK
  <2> QED BY <1>4, <2>1, <2>5, <2>6 DEF IInv, InOrder
<1> QED BY <1>6, <1>7

LEMMA RemoveStaleKeepsOrder ==
  ASSUME IInv, NEW p \in Paths, RemoveStale(p)
  PROVE  /\ IInv'
         /\ \E d : Agree(disk, d) /\ disk' = [d EXCEPT ![GraphOf(p)].exists = FALSE]
<1> DEFINE d == Closed(disk, HandlesAt(cache, Released(p)))
<1>1. /\ MayRelease(p)
      /\ disk' = [d EXCEPT ![GraphOf(p)].exists = FALSE]
      /\ cache' = Without(cache, Released(p))
      /\ req' = Rebuilding(p)
      /\ UNCHANGED <<next_seq, hook>>
  BY DEF RemoveStale
<1>2. Agree(disk, d) /\ InOrder(d, cache', next_seq, hook, req)
  BY <1>1, ReleaseKeepsOrder
<1> HIDE DEF d
<1>3. Keeps(d, disk')
  BY <1>1, <1>2, PathFacts, RemovalKeeps DEF Agree
<1>4. InOrder(disk', cache', next_seq, hook, req)
  BY <1>2, <1>3, DiskChangeKeepsOrder
<1>5. req' \in [pc : {"rebuild"}, path : Paths]
  BY <1>1 DEF Rebuilding
<1>6. IInv'
  BY <1>1, <1>4, <1>5 DEF IInv, InOrder, ReqOK
<1> QED BY <1>1, <1>2, <1>6

LEMMA OpenToIndexKeepsOrder ==
  ASSUME IInv, NEW p \in Paths, OpenToIndex(p)
  PROVE  IInv' /\ \E d : Agree(disk, d) /\ disk' = Opened(d, GraphOf(p))
<1> DEFINE released == Closed(disk, HandlesAt(cache, Released(p)))
<1>1. /\ req.pc # "read" /\ MayRelease(p)
      /\ disk' = Opened(released, GraphOf(p))
      /\ cache' = Without(cache, Released(p))
      /\ req' = Writing(HandleOn(disk', GraphOf(p)))
      /\ UNCHANGED <<next_seq, hook>>
  BY DEF OpenToIndex, Idle, Rebuilding
<1>2. InOrder(disk', cache', next_seq, hook, req')
  BY <1>1, OpenKeepsOrder
<1>3. Agree(disk, released)
  BY <1>1, ReleaseKeepsOrder
<1> HIDE DEF released
<1> QED BY <1>1, <1>2, <1>3 DEF IInv

LEMMA ImportKeepsOrder ==
  ASSUME IInv, NEW p \in Paths, NEW rows \in SUBSET Rows, ImportArtifact(p, rows)
  PROVE  /\ IInv'
         /\ \E d, f : /\ Agree(disk, d) /\ disk' = [d EXCEPT ![GraphOf(p)] = f]
                     /\ f.exists /\ DurableRows(f) = rows
<1> DEFINE d == Closed(disk, HandlesAt(cache, Released(p)))
           g == GraphOf(p)
           f == [d[g] EXCEPT !.exists = TRUE, !.inc = @ + 1, !.rows = rows]
<1>1. /\ MayRelease(p)
      /\ disk' = [d EXCEPT ![g].exists = TRUE, ![g].inc = @ + 1, ![g].rows = rows]
      /\ cache' = Without(cache, Released(p))
      /\ UNCHANGED <<next_seq, hook, req>>
  BY DEF ImportArtifact
<1>2. Agree(disk, d) /\ InOrder(d, cache', next_seq, hook, req) /\ g \in Graphs
  BY <1>1, ReleaseKeepsOrder, PathFacts
<1> HIDE DEF d, g
<1>3. DiskOK(d) /\ d \in [Graphs -> File] /\ d[g] \in File /\ d[g].log.inc <= d[g].inc
  BY <1>2 DEF Agree, DiskOK
<1>4. disk' = [d EXCEPT ![g] = f]
  BY <1>1, <1>2, <1>3 DEF File
<1>5. f \in File /\ f.inc = d[g].inc + 1 /\ f.log = d[g].log /\ f.rows = rows
  <2>1. d[g].inc \in Nat /\ d[g].inc + 1 \in Nat
    BY <1>3 DEF File
  <2>2. f.inc = d[g].inc + 1 /\ f.log = d[g].log /\ f.rows = rows
    BY <1>3 DEF File
  <2>3. f \in File
    BY <1>3, <2>1 DEF File
  <2> QED BY <2>2, <2>3
<1>6. f.exists = TRUE
  BY <1>3 DEF File
<1>7. DurableRows(f) = rows
  BY <1>3, <1>5 DEF DurableRows, File
<1> HIDE DEF f
<1>8. Keeps(d, disk')
  BY <1>2, <1>3, <1>4, <1>5, CreationKeeps
<1>9. InOrder(disk', cache', next_seq, hook, req)
  BY <1>2, <1>8, DiskChangeKeepsOrder
<1> QED BY <1>1, <1>2, <1>4, <1>6, <1>7, <1>9 DEF IInv, g

LEMMA EmptyCacheInOrder ==
  ASSUME NEW d, DiskOK(d), NEW c, c = [k \in Paths |-> NoEntry]
  PROVE  InOrder(d, c, 0, FALSE, Idle)
<1>1. c \in [Paths -> {NoEntry} \cup Entry] /\ \A k \in Paths : c[k] = NoEntry
  OBVIOUS
<1>2. CacheOK(d, c, 0) /\ CachedKeys(c) = {}
  BY <1>1, EntryFacts DEF CacheOK, CachedKeys
<1> QED BY <1>1, <1>2 DEF InOrder, ReqOK

LEMMA ExitKeepsOrder ==
  ASSUME IInv, Exit PROVE IInv' /\ Agree(disk, disk')
<1>1. Agree(disk, disk')
  BY CachedViews, CloseIsInvisible DEF Exit, IInv, InOrder
<1> QED BY <1>1, EmptyCacheInOrder DEF Exit, IInv, Agree

LEMMA CrashKeepsOrder ==
  ASSUME IInv, Crash PROVE IInv'
BY EmptyCacheInOrder DEF Crash, IInv, InOrder

LEMMA OtherKeepsOrder ==
  ASSUME IInv, NEW g \in Graphs,
         OtherRemoves(g) \/ \E rows \in SUBSET Rows : OtherCreates(g, rows)
  PROVE  IInv'
<1>1. DiskOK(disk) /\ disk[g] \in File
  BY DEF IInv, InOrder, DiskOK
<1>2. UNCHANGED <<cache, next_seq, hook, req>>
  BY DEF OtherRemoves, OtherCreates
<1>3. CASE OtherRemoves(g)
  <2>1. Keeps(disk, disk')
    BY <1>1, <1>3, RemovalKeeps DEF OtherRemoves
  <2> QED BY <1>2, <2>1, DiskChangeKeepsOrder DEF IInv
<1>4. ASSUME NEW rows \in SUBSET Rows, OtherCreates(g, rows) PROVE IInv'
  <2> DEFINE f == [exists |-> TRUE, inc |-> disk[g].inc + 1, rows |-> rows, log |-> NoLog]
  <2>1. disk' = [disk EXCEPT ![g] = f]
    BY <1>4 DEF OtherCreates
  <2>2. f \in File /\ f.inc = disk[g].inc + 1 /\ f.log.inc <= disk[g].inc
    BY <1>1 DEF File, NoLog
  <2> HIDE DEF f
  <2>3. Keeps(disk, disk')
    BY <1>1, <2>1, <2>2, CreationKeeps
  <2> QED BY <1>2, <2>3, DiskChangeKeepsOrder DEF IInv
<1> QED BY <1>3, <1>4

\* The invariant is inductive.
LEMMA StepsStayInOrder == IInv /\ [Next]_vars => IInv'
<1> SUFFICES ASSUME IInv, [Next]_vars PROVE IInv'
  OBVIOUS
<1>1. ASSUME NEW p \in Paths, CachedHit(p) PROVE IInv'
  BY <1>1, HitKeepsOrder
<1>2. ASSUME NEW p \in Paths, CachedMiss(p) PROVE IInv'
  BY <1>2, MissKeepsOrder
<1>3. ASSUME NEW p \in Paths, CachedOpenFails(p) PROVE IInv'
  BY <1>3 DEF CachedOpenFails, IInv, InOrder
<1>4. ASSUME NEW p \in Paths, FreshRead(p) PROVE IInv'
  BY <1>4, FreshReadKeepsOrder
<1>5. ASSUME NEW p \in Paths, OpenToWrite(p) PROVE IInv'
  BY <1>5, OpenToWriteKeepsOrder
<1>6. ASSUME NEW p \in Paths, OpenFails(p) PROVE IInv'
  BY <1>6, OpenFailsKeepsOrder
<1>7. ASSUME NEW p \in Paths, RemoveStale(p) PROVE IInv'
  BY <1>7, RemoveStaleKeepsOrder
<1>8. ASSUME NEW p \in Paths, OpenToIndex(p) PROVE IInv'
  BY <1>8, OpenToIndexKeepsOrder
<1>9. ASSUME NEW p \in Paths, NEW rows \in SUBSET Rows, ImportArtifact(p, rows) PROVE IInv'
  BY <1>9, ImportKeepsOrder
<1>10. ASSUME NEW row \in Rows, CommitRow(row) PROVE IInv'
  BY <1>10, CommitKeepsOrder
<1>11. CASE EndRead
  BY <1>11, EndReadKeepsOrder
<1>12. CASE CloseWriter
  BY <1>12, CloseWriterKeepsOrder
<1>13. CASE Exit
  BY <1>13, ExitKeepsOrder
<1>14. CASE Crash
  BY <1>14, CrashKeepsOrder
<1>15. ASSUME NEW g \in Graphs,
              OtherRemoves(g) \/ \E rows \in SUBSET Rows : OtherCreates(g, rows)
       PROVE  IInv'
  BY <1>15, OtherKeepsOrder
<1>16. CASE UNCHANGED vars
  BY <1>16 DEF vars, IInv, InOrder
<1> QED
  BY <1>1, <1>2, <1>3, <1>4, <1>5, <1>6, <1>7, <1>8, <1>9, <1>10, <1>11, <1>12, <1>13,
     <1>14, <1>15, <1>16 DEF Next

LEMMA AlwaysInOrder == Spec => []IInv
BY InitInOrder, StepsStayInOrder, PTL DEF Spec

\* Every variable keeps its type, under whatever requests, crashes and rebuilds.
THEOREM HandlesTypeCorrect == Spec => []TypeOK
<1>1. IInv => TypeOK
  <2> SUFFICES ASSUME IInv PROVE TypeOK
    OBVIOUS
  <2>1. disk \in [Graphs -> File] /\ cache \in [Paths -> {NoEntry} \cup Entry]
        /\ next_seq \in Nat /\ hook \in BOOLEAN
    BY DEF IInv, InOrder, DiskOK
  <2>2. req \in Request
    BY DEF IInv, InOrder, ReqOK, Request
  <2> QED BY <2>1, <2>2 DEF TypeOK
<1> QED BY <1>1, AlwaysInOrder, PTL

\* graph_store/handles.rs keeps one live handle per graph: two entries are never
\* on the same present file, and none is while a tool writes through its own.
THEOREM OneLiveHandle == Spec => []OneHandlePerGraph
<1>1. IInv => OneHandlePerGraph
  <2> SUFFICES ASSUME IInv, NEW g \in Graphs
               PROVE  /\ \A j, k \in LiveKeys(g) : j = k
                      /\ req.pc = "write" /\ req.handle.graph = g /\ Current(disk, req.handle)
                           => LiveKeys(g) = {}
    BY DEF OneHandlePerGraph
  <2>1. ASSUME NEW k \in LiveKeys(g)
        PROVE  /\ k \in CachedKeys(cache) /\ Current(disk, cache[k].handle)
               /\ k = <<g, "canonical">> /\ cache[k].handle.graph = g
    <3>1. k \in Paths /\ cache[k].cached /\ Current(disk, cache[k].handle) /\ k[1] = g
      BY DEF LiveKeys, CachedKeys, GraphOf
    <3>2. k = <<cache[k].handle.graph, "canonical">>
      BY <3>1, CachedEntry DEF EntryOK
    <3> QED BY <3>1, <3>2 DEF CachedKeys
  <2>2. ASSUME req.pc = "write", req.handle.graph = g, Current(disk, req.handle)
        PROVE  LiveKeys(g) = {}
    <3>1. \A k \in CachedKeys(cache) : Current(disk, cache[k].handle) => cache[k].handle.graph # g
      BY <2>2 DEF IInv, InOrder, ReqOK, Idle
    <3> QED BY <2>1, <3>1
  <2> QED BY <2>1, <2>2
<1> QED BY <1>1, AlwaysInOrder, PTL

\* What a running request holds stays where release finds it: the capacity of
\* the cache and a sibling's open never take it out.
THEOREM HeldStaysCached == Spec => []HeldIsCached
<1>1. IInv => HeldIsCached
  BY DEF IInv, InOrder, ReqOK, Idle, HeldIsCached
<1> QED BY <1>1, AlwaysInOrder, PTL

\* Of any numbers one is the least.
LEMMA LeastNatural ==
  ASSUME NEW T, T \subseteq Nat, T # {}
  PROVE  \E x \in T : \A y \in T : x <= y
<1> DEFINE R == OpToRel(<, Nat)
<1>1. IsWellFoundedOn(R, Nat)
  BY NatLessThanWellFounded
<1>2. \A x, y \in Nat : y < x => <<y, x>> \in R
  BY DEF OpToRel
<1> HIDE DEF R
<1>3. PICK x \in T : \A y \in T : ~ (<<y, x>> \in R)
  BY <1>1, WFMin, Zenon
<1>4. ASSUME NEW y \in T PROVE x <= y
  <2>1. x \in Nat /\ y \in Nat
    OBVIOUS
  <2>2. ~ (y < x)
    BY <1>2, <1>3, <2>1, Zenon
  <2> QED BY <2>1, <2>2
<1> QED BY <1>4

\* An eviction from a full cache takes an entry: of those with a number, the one
\* opened first.
LEMMA SomethingIsEvicted ==
  ASSUME NEW c, \A k \in CachedKeys(c) : c[k].opened_seq \in Nat,
         CachedKeys(c) # {}, Cardinality(CachedKeys(c)) > MaxCachedGraphs
  PROVE  \E k \in CachedKeys(c) : k \in Evicted(c)
<1> DEFINE T == {c[k].opened_seq : k \in CachedKeys(c)}
<1>1. PICK x \in T : \A y \in T : x <= y
  <2>1. T \subseteq Nat /\ T # {}
    OBVIOUS
  <2> HIDE DEF T
  <2> QED BY <2>1, LeastNatural
<1>2. PICK k \in CachedKeys(c) : x = c[k].opened_seq
  BY <1>1
<1>3. \A j \in CachedKeys(c) : c[k].opened_seq <= c[j].opened_seq
  BY <1>1, <1>2
<1> QED BY <1>2, <1>3 DEF Evicted

Bounded(c) == IsFiniteSet(CachedKeys(c)) /\ Cardinality(CachedKeys(c)) <= MaxCachedGraphs

\* Dropping entries keeps the bound.
LEMMA FewerIsBounded ==
  ASSUME NEW c, NEW e, Bounded(c), CachedKeys(e) \subseteq CachedKeys(c)
  PROVE  Bounded(e)
<1>1. CachedKeys(e) \in SUBSET CachedKeys(c) /\ IsFiniteSet(CachedKeys(c))
  BY DEF Bounded
<1>2. IsFiniteSet(CachedKeys(e)) /\ Cardinality(CachedKeys(e)) <= Cardinality(CachedKeys(c))
  BY <1>1, FS_Subset
<1>3. Cardinality(CachedKeys(e)) \in Nat /\ Cardinality(CachedKeys(c)) \in Nat
  BY <1>1, <1>2, FS_CardinalityType
<1> QED BY <1>2, <1>3, CapacityAssumption DEF Bounded

\* An insertion followed by its eviction keeps the bound.
LEMMA InsertionIsBounded ==
  ASSUME NEW c, NEW e, NEW k \in Paths, Bounded(c),
         CachedKeys(e) \subseteq CachedKeys(c) \cup {k},
         \A j \in CachedKeys(e) : e[j].opened_seq \in Nat
  PROVE  Bounded(Without(e, Evicted(e)))
<1> DEFINE S == CachedKeys(e)
<1>1. IsFiniteSet(CachedKeys(c) \cup {k}) /\ S \in SUBSET (CachedKeys(c) \cup {k})
  BY FS_AddElement DEF Bounded
<1>2. IsFiniteSet(S) /\ Cardinality(S) <= Cardinality(CachedKeys(c) \cup {k})
  BY <1>1, FS_Subset
<1>3. Cardinality(S) \in Nat /\ Cardinality(CachedKeys(c)) \in Nat
  BY <1>2, FS_CardinalityType DEF Bounded
<1>4. Cardinality(CachedKeys(c) \cup {k}) \in {Cardinality(CachedKeys(c)), Cardinality(CachedKeys(c)) + 1}
  BY FS_AddElement DEF Bounded
<1>5. Cardinality(S) <= MaxCachedGraphs + 1
  BY <1>2, <1>3, <1>4, CapacityAssumption DEF Bounded
<1>6. CachedKeys(Without(e, Evicted(e))) = S \ Evicted(e)
  BY WithoutFacts
<1>7. CASE Cardinality(S) <= MaxCachedGraphs
  <2>1. Bounded(e)
    BY <1>2, <1>7 DEF Bounded
  <2> HIDE DEF S
  <2> QED BY <1>6, <2>1, FewerIsBounded DEF S
<1>8. CASE Cardinality(S) > MaxCachedGraphs
  <2>1. S # {}
    BY <1>8, FS_EmptySet, CapacityAssumption
  <2>2. PICK j \in S : j \in Evicted(e)
    BY <1>8, <2>1, SomethingIsEvicted
  <2>3. IsFiniteSet(S \ {j}) /\ Cardinality(S \ {j}) = Cardinality(S) - 1
    BY <1>2, FS_RemoveElement
  <2>4. S \ Evicted(e) \in SUBSET (S \ {j})
    BY <2>2
  <2>5. IsFiniteSet(S \ Evicted(e)) /\ Cardinality(S \ Evicted(e)) <= Cardinality(S \ {j})
    BY <2>3, <2>4, FS_Subset
  <2>6. Cardinality(S \ Evicted(e)) \in Nat
    BY <2>5, FS_CardinalityType
  <2>7. Cardinality(S \ Evicted(e)) <= MaxCachedGraphs
    BY <1>3, <1>5, <2>3, <2>5, <2>6, CapacityAssumption
  <2> HIDE DEF S
  <2> QED BY <1>6, <2>5, <2>7 DEF Bounded
<1> QED BY <1>3, <1>7, <1>8, CapacityAssumption

LEMMA StepsStayBounded ==
  ASSUME IInv, IInv', Bounded(cache), [Next]_vars
  PROVE  Bounded(cache')
<1>1. ASSUME NEW keys, cache' = Without(cache, keys) PROVE Bounded(cache')
  <2>1. CachedKeys(cache') \subseteq CachedKeys(cache)
    BY <1>1, WithoutFacts
  <2> QED BY <2>1, FewerIsBounded
<1>2. ASSUME NEW p \in Paths, CachedMiss(p) PROVE Bounded(cache')
  <2> DEFINE k == Key(disk, p)
             d == Opened(disk, GraphOf(p))
             entry == [cached |-> TRUE, handle |-> HandleOn(d, GraphOf(p)),
                       fingerprint |-> Fingerprint(d[GraphOf(p)]), opened_seq |-> next_seq]
             c == [cache EXCEPT ![k] = entry]
  <2>1. cache' = Without(c, Evicted(c))
    BY <1>2 DEF CachedMiss
  <2>2. entry.opened_seq = next_seq /\ next_seq \in Nat
    BY DEF IInv, InOrder
  <2>3. k \in Paths
    BY PathFacts DEF Key
  <2> HIDE DEF entry, k
  <2>4. c[k] = entry /\ \A j \in Paths \ {k} : c[j] = cache[j]
    BY <2>3 DEF IInv, InOrder
  <2>5. CachedKeys(c) \subseteq CachedKeys(cache) \cup {k}
    BY <2>4 DEF CachedKeys
  <2>6. ASSUME NEW j \in CachedKeys(c) PROVE c[j].opened_seq \in Nat
    <3>1. CASE j = k
      BY <2>2, <2>4, <3>1
    <3>2. CASE j # k
      <4>1. j \in Paths /\ c[j] = cache[j] /\ cache[j].cached
        BY <2>4, <3>2 DEF CachedKeys
      <4>2. cache[j] \in Entry
        BY <4>1, CachedEntry
      <4> QED BY <4>1, <4>2 DEF Entry
    <3> QED BY <3>1, <3>2
  <2> HIDE DEF c
  <2> QED BY <2>1, <2>3, <2>5, <2>6, InsertionIsBounded
<1>3. CASE cache' = [j \in Paths |-> NoEntry]
  <2>1. CachedKeys(cache') = {}
    BY <1>3, EntryFacts DEF CachedKeys
  <2> QED BY <2>1, FewerIsBounded
<1>4. CASE cache' = cache
  BY <1>4
<1> QED
  BY <1>1, <1>2, <1>3, <1>4 DEF Next, vars, CachedHit, CachedOpenFails, FreshRead, OpenToWrite,
     OpenFails, RemoveStale, OpenToIndex, ImportArtifact, CommitRow, EndRead, CloseWriter, Exit, Crash,
     OtherRemoves, OtherCreates

\* The cache never holds more than MAX_CACHED_GRAPHS handles, for any capacity:
\* after every insertion evict_if_over_capacity finds an entry to drop.
THEOREM CacheStaysBounded == Spec => []CacheIsBounded
<1>1. Init => Bounded(cache)
  <2>1. Init => CachedKeys(cache) = {}
    BY EntryFacts DEF Init, CachedKeys
  <2> QED BY <2>1, FS_EmptySet, CapacityAssumption DEF Bounded
<1>2. IInv /\ IInv' /\ Bounded(cache) /\ [Next]_vars => Bounded(cache)'
  BY StepsStayBounded
<1>3. Bounded(cache) => CacheIsBounded
  BY DEF Bounded, CacheIsBounded
<1> QED BY <1>1, <1>2, <1>3, AlwaysInOrder, PTL DEF Spec

\* A handle open_cached gives out, reused or new, sees the durable rows of the
\* graph: the postcondition in graph_cache.rs, with another process rebuilding.
THEOREM CachedReadsStayCurrent == Spec => CachedReadsAreCurrent
<1> DEFINE A == req.pc = "idle" /\ req'.pc = "read" =>
                  /\ Current(disk', req'.handle)
                  /\ req'.handle.rows = DurableRows(disk'[req'.handle.graph])
<1>1. ASSUME IInv, Next, req.pc = "idle", req'.pc = "read"
      PROVE  Current(disk', req'.handle)
  <2>1. PICK p \in Paths : CachedHit(p) \/ CachedMiss(p)
    <3>1. \A p \in Paths : CachedOpenFails(p) \/ FreshRead(p) \/ OpenFails(p) => req' = req
      BY DEF CachedOpenFails, FreshRead, OpenFails
    <3>2. \A p \in Paths : OpenToWrite(p) \/ OpenToIndex(p) => req'.pc = "write"
      BY DEF OpenToWrite, OpenToIndex, Writing
    <3>3. \A p \in Paths : RemoveStale(p) => req'.pc = "rebuild"
      BY DEF RemoveStale, Rebuilding
    <3>4. \A p \in Paths, rows \in SUBSET Rows : ImportArtifact(p, rows) => req' = req
      BY DEF ImportArtifact
    <3>5. \A row \in Rows : ~ CommitRow(row)
      BY <1>1 DEF CommitRow
    <3>6. ~ EndRead /\ ~ CloseWriter
      BY <1>1 DEF EndRead, CloseWriter
    <3>7. ~ Exit /\ ~ Crash
      BY <1>1 DEF Exit, Crash, Idle
    <3>8. \A g \in Graphs : OtherRemoves(g) \/ (\E rows \in SUBSET Rows : OtherCreates(g, rows))
                             => req' = req
      BY DEF OtherRemoves, OtherCreates
    <3> QED BY <1>1, <3>1, <3>2, <3>3, <3>4, <3>5, <3>6, <3>7, <3>8 DEF Next
  <2> QED BY <1>1, <2>1, HitKeepsOrder, MissKeepsOrder
<1>2. ASSUME IInv, IInv', Next, req.pc = "idle", req'.pc = "read"
      PROVE  req'.handle.rows = DurableRows(disk'[req'.handle.graph])
  <2>1. req'.key \in Paths /\ cache'[req'.key].cached /\ cache'[req'.key].handle = req'.handle
    BY <1>2 DEF IInv, InOrder, ReqOK, Idle
  <2>2. EntryOK(disk', req'.key, cache'[req'.key])
    BY <1>2, <2>1, EntryFacts DEF IInv, InOrder, CacheOK
  <2> QED BY <1>1, <1>2, <2>1, <2>2 DEF EntryOK, ViewOK
<1>3. IInv /\ IInv' /\ [Next]_vars => [A]_vars
  BY <1>1, <1>2
<1> QED BY <1>3, AlwaysInOrder, PTL DEF Spec, CachedReadsAreCurrent

-----------------------------------------------------------------------------
(* The refinement.                                                         *)

SeenGraphs(d) == [g \in Graphs |-> Seen(d[g])]

LEMMA SeenFields ==
  ASSUME NEW f
  PROVE  Seen(f).exists = f.exists /\ (f.exists => Seen(f).rows = DurableRows(f))
<1>1. Seen(f).exists = f.exists
  BY Zenon DEF Seen
<1>2. ASSUME f.exists PROVE Seen(f).rows = DurableRows(f)
  BY <1>2, Zenon DEF Seen
<1> QED BY <1>1, <1>2, Zenon

LEMMA AgreeLooksTheSame ==
  ASSUME NEW d, NEW e, Agree(d, e) PROVE SeenGraphs(e) = SeenGraphs(d)
BY DEF Agree, SeenGraphs, Seen

LEMMA CreationIsCreate ==
  ASSUME NEW d, NEW g \in Graphs, NEW f, d \in [Graphs -> File], f.exists = TRUE
  PROVE  SeenGraphs([d EXCEPT ![g] = f])
           = [SeenGraphs(d) EXCEPT ![g] = [exists |-> TRUE, rows |-> DurableRows(f)]]
BY DEF SeenGraphs, Seen

LEMMA RemovalIsRemove ==
  ASSUME NEW d, NEW g \in Graphs, d \in [Graphs -> File]
  PROVE  SeenGraphs([d EXCEPT ![g].exists = FALSE])
           = [SeenGraphs(d) EXCEPT ![g] = [exists |-> FALSE, rows |-> {}]]
<1> DEFINE e == [d EXCEPT ![g].exists = FALSE]
<1>1. e[g].exists = FALSE /\ \A x \in Graphs \ {g} : e[x] = d[x]
  BY DEF File
<1> HIDE DEF e
<1>2. Seen(e[g]) = [exists |-> FALSE, rows |-> {}]
  BY <1>1 DEF Seen
<1>3. SeenGraphs(e) = [SeenGraphs(d) EXCEPT ![g] = [exists |-> FALSE, rows |-> {}]]
  BY <1>1, <1>2 DEF SeenGraphs
<1> QED BY <1>3 DEF e

LEMMA StepIsVisible ==
  ASSUME IInv, [Next]_vars
  PROVE  Contents!Next \/ SeenGraphs(disk') = SeenGraphs(disk)
<1> DEFINE same == SeenGraphs(disk') = SeenGraphs(disk)
<1>0. DiskOK(disk) /\ disk \in [Graphs -> File]
  BY DEF IInv, InOrder, DiskOK
<1>a. Contents!Next <=> \E g \in Graphs :
        \/ \E rows \in SUBSET Rows :
             /\ ~ SeenGraphs(disk)[g].exists
             /\ SeenGraphs(disk') = [SeenGraphs(disk) EXCEPT ![g] = [exists |-> TRUE, rows |-> rows]]
        \/ \E row \in Rows :
             /\ SeenGraphs(disk)[g].exists
             /\ SeenGraphs(disk') = [SeenGraphs(disk) EXCEPT ![g] =
                  [exists |-> TRUE, rows |-> SeenGraphs(disk)[g].rows \cup {row}]]
        \/ /\ SeenGraphs(disk)[g].exists
           /\ SeenGraphs(disk') = [SeenGraphs(disk) EXCEPT ![g] = [exists |-> FALSE, rows |-> {}]]
  BY DEF Contents!Next, Contents!Create, Contents!Commit, Contents!Remove, Contents!NoGraph, SeenGraphs
<1>b. \A g \in Graphs : SeenGraphs(disk)[g] = Seen(disk[g])
  BY DEF SeenGraphs
<1>c. \A g \in Graphs : SeenGraphs(disk)[g].exists = disk[g].exists
  BY <1>b, SeenFields, Zenon
<1>1. ASSUME Agree(disk, disk') \/ disk' = disk PROVE same
  BY <1>1, AgreeLooksTheSame
<1>2. ASSUME NEW p \in Paths,
             CachedHit(p) \/ CachedMiss(p) \/ CachedOpenFails(p) \/ FreshRead(p)
             \/ OpenToWrite(p) \/ OpenFails(p)
      PROVE  same
  <2>1. CachedOpenFails(p) => disk' = disk
    BY DEF CachedOpenFails
  <2> QED BY <1>1, <1>2, <2>1, HitKeepsOrder, MissKeepsOrder, FreshReadKeepsOrder,
             OpenToWriteKeepsOrder, OpenFailsKeepsOrder
<1>3. CASE EndRead \/ CloseWriter \/ Exit \/ Crash \/ UNCHANGED vars
  <2>1. Crash \/ UNCHANGED vars => disk' = disk
    BY DEF Crash, vars
  <2> QED BY <1>1, <1>3, <2>1, EndReadKeepsOrder, CloseWriterKeepsOrder, ExitKeepsOrder
<1>4. ASSUME NEW g \in Graphs, NEW d, Agree(disk, d), NEW f, NEW rows \in SUBSET Rows,
             ~ disk[g].exists, f.exists = TRUE, DurableRows(f) = rows,
             disk' = [d EXCEPT ![g] = f]
      PROVE  Contents!Next
  <2>1. SeenGraphs(d) = SeenGraphs(disk) /\ ~ d[g].exists /\ d \in [Graphs -> File]
    BY <1>4, AgreeLooksTheSame DEF Agree, DiskOK
  <2>2. SeenGraphs(disk') = [SeenGraphs(disk) EXCEPT ![g] = [exists |-> TRUE, rows |-> rows]]
    <3>1. SeenGraphs([d EXCEPT ![g] = f])
            = [SeenGraphs(d) EXCEPT ![g] = [exists |-> TRUE, rows |-> DurableRows(f)]]
      BY <1>4, <2>1, CreationIsCreate
    <3> QED BY <1>4, <2>1, <3>1
  <2>3. ~ SeenGraphs(disk)[g].exists
    BY <1>4, <1>c
  <2> QED BY <1>a, <2>2, <2>3
<1>5. ASSUME NEW g \in Graphs, NEW d, Agree(disk, d), disk[g].exists,
             disk' = [d EXCEPT ![g].exists = FALSE]
      PROVE  Contents!Next
  <2>1. SeenGraphs(d) = SeenGraphs(disk) /\ d \in [Graphs -> File]
    BY <1>5, AgreeLooksTheSame DEF Agree, DiskOK
  <2>2. SeenGraphs(disk') = [SeenGraphs(disk) EXCEPT ![g] = [exists |-> FALSE, rows |-> {}]]
    BY <1>5, <2>1, RemovalIsRemove
  <2>3. SeenGraphs(disk)[g].exists
    BY <1>5, <1>c
  <2> QED BY <1>a, <2>2, <2>3
<1>6. ASSUME NEW p \in Paths, RemoveStale(p) PROVE Contents!Next
  <2>1. disk[GraphOf(p)].exists
    BY <1>6 DEF RemoveStale
  <2>2. PICK d : Agree(disk, d) /\ disk' = [d EXCEPT ![GraphOf(p)].exists = FALSE]
    BY <1>6, RemoveStaleKeepsOrder
  <2> QED BY <1>5, <2>1, <2>2, PathFacts
<1>7. ASSUME NEW p \in Paths, OpenToIndex(p) PROVE Contents!Next \/ same
  <2>1. PICK d : Agree(disk, d) /\ disk' = Opened(d, GraphOf(p))
    BY <1>7, OpenToIndexKeepsOrder
  <2>2. GraphOf(p) \in Graphs /\ DiskOK(d) /\ d[GraphOf(p)].exists = disk[GraphOf(p)].exists
    BY <2>1, PathFacts DEF Agree
  <2>3. CASE disk[GraphOf(p)].exists
    <3>1. Agree(d, disk')
      BY <2>1, <2>2, <2>3, OpenIsInvisible
    <3> QED BY <1>1, <2>1, <3>1, AgreeIsTransitive
  <2>4. CASE ~ disk[GraphOf(p)].exists
    <3> DEFINE f == [exists |-> TRUE, inc |-> d[GraphOf(p)].inc + 1, rows |-> {}, log |-> NoLog]
    <3>1. disk' = [d EXCEPT ![GraphOf(p)] = f]
      BY <2>1, <2>2, <2>4, OpenCreates
    <3>2. DurableRows(f) = {}
      BY DEF DurableRows, NoLog
    <3>3. f.exists = TRUE
      BY Zenon
    <3> HIDE DEF f
    <3> QED BY <1>4, <2>1, <2>2, <2>4, <3>1, <3>2, <3>3
  <2> QED BY <2>3, <2>4
<1>8. ASSUME NEW p \in Paths, NEW rows \in SUBSET Rows, ImportArtifact(p, rows)
      PROVE  Contents!Next
  <2>1. ~ disk[GraphOf(p)].exists
    BY <1>8 DEF ImportArtifact
  <2>2. PICK d, f : /\ Agree(disk, d) /\ disk' = [d EXCEPT ![GraphOf(p)] = f]
                    /\ f.exists = TRUE /\ DurableRows(f) = rows
    BY <1>8, ImportKeepsOrder
  <2> QED BY <1>4, <2>1, <2>2, PathFacts
<1>9. ASSUME NEW g \in Graphs, OtherRemoves(g) PROVE Contents!Next
  BY <1>0, <1>5, <1>9, AgreeReflexive DEF OtherRemoves
<1>10. ASSUME NEW g \in Graphs, NEW rows \in SUBSET Rows, OtherCreates(g, rows)
       PROVE  Contents!Next
  <2> DEFINE f == [exists |-> TRUE, inc |-> disk[g].inc + 1, rows |-> rows, log |-> NoLog]
  <2>1. disk' = [disk EXCEPT ![g] = f] /\ ~ disk[g].exists
    BY <1>10 DEF OtherCreates
  <2>2. DurableRows(f) = rows
    <3>1. disk[g].inc \in Nat
      BY <1>0 DEF File
    <3>2. f.log.inc = 0 /\ f.inc = disk[g].inc + 1 /\ f.rows = rows
      BY DEF NoLog
    <3> HIDE DEF f
    <3> QED BY <3>1, <3>2 DEF DurableRows
  <2>3. f.exists = TRUE
    BY Zenon
  <2> HIDE DEF f
  <2> QED BY <1>0, <1>4, <2>1, <2>2, <2>3, AgreeReflexive
<1>11. ASSUME NEW row \in Rows, CommitRow(row) PROVE Contents!Next \/ same
  <2> DEFINE h == req.handle
  <2>1. ViewOK(disk, h) /\ h \in Handle /\ h.graph \in Graphs
    BY <1>11 DEF CommitRow, IInv, InOrder, ReqOK, Idle, Handle
  <2>2. disk' = Committed(disk, h, row)
    BY <1>11 DEF CommitRow
  <2>3. CASE ~ Current(disk, h)
    BY <1>1, <2>2, <2>3 DEF Committed
  <2>4. CASE Current(disk, h)
    <3>1. /\ disk'[h.graph].exists = disk[h.graph].exists
          /\ DurableRows(disk'[h.graph]) = h.rows \cup {row}
          /\ \A g \in Graphs \ {h.graph} : disk'[g] = disk[g]
      BY <1>0, <2>1, <2>2, <2>4, CommitIsSeen
    <3>2. disk[h.graph].exists /\ h.rows = DurableRows(disk[h.graph])
      BY <2>1, <2>4 DEF Current, ViewOK
    <3>3. SeenGraphs(disk)[h.graph].rows = h.rows
      BY <1>b, <2>1, <3>2, SeenFields, Zenon
    <3>4. disk[h.graph].exists = TRUE
      BY <1>0, <2>1, <3>2 DEF File
    <3>5. Seen(disk'[h.graph]) = [exists |-> TRUE, rows |-> h.rows \cup {row}]
      BY <3>1, <3>4 DEF Seen
    <3>6. SeenGraphs(disk') = [SeenGraphs(disk) EXCEPT ![h.graph] =
                                 [exists |-> TRUE, rows |-> SeenGraphs(disk)[h.graph].rows \cup {row}]]
      BY <2>1, <3>1, <3>3, <3>5 DEF SeenGraphs
    <3>7. SeenGraphs(disk)[h.graph].exists
      BY <1>c, <2>1, <3>2
    <3> QED BY <1>a, <2>1, <3>6, <3>7
  <2> QED BY <2>3, <2>4
<1> QED BY <1>2, <1>3, <1>6, <1>7, <1>8, <1>9, <1>10, <1>11 DEF Next

\* The graph store implements GraphContents: no open, release, eviction, close
\* or crash of graph_cache.rs and graph_store/ undoes a committed row.
THEOREM HandlesImplementContents == Spec => ImplementsContents
<1>1. Init => Contents!Init
  <2> SUFFICES ASSUME Init PROVE Contents!Init
    OBVIOUS
  <2>1. \A g \in Graphs : disk[g].exists = FALSE
    BY DEF Init
  <2>2. \A g \in Graphs : Seen(disk[g]) = [exists |-> FALSE, rows |-> {}]
    BY <2>1 DEF Seen
  <2> QED BY <2>2 DEF Contents!Init, Contents!NoGraph
<1>2. IInv /\ [Next]_vars => [Contents!Next]_([g \in Graphs |-> Seen(disk[g])])
  BY StepIsVisible DEF SeenGraphs
<1> QED BY <1>1, <1>2, AlwaysInOrder, PTL DEF Spec, ImplementsContents, Contents!Spec
=============================================================================
