\* The tree changes between calls; a call may fail, or stop while a build is unmarked.
SPECIFICATION RefreshSpec
CONSTANTS
  a = a
  b = b
  d = d
  Files = {a, b}
  Dirs = {d}
  Above <- AboveDef
  Cites <- CitesDef
  MaxEdits = 3
  MaxFaults = 1
  EditWhen = "idle"
  CrashWhen = "building"
  Revert = TRUE
  Lookalikes = TRUE
INVARIANTS
  GraphIsTree
  LinksAreSound
PROPERTIES
  RefreshConverges
