\* Two graphs, each under two spellings, competing for one cache slot.
CONSTANTS
  Graphs = {g1, g2}
  Rows = {r1, r2}
  MaxCachedGraphs = 1
  MaxIncarnations = 2
  MaxOpens = 3
SPECIFICATION Spec
SYMMETRY Symmetry
INVARIANTS TypeOK OneHandlePerGraph HeldIsCached CacheIsBounded
PROPERTIES CachedReadsAreCurrent ImplementsContents
