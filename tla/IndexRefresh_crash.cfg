\* The process may end anywhere; the host asks for refreshes.
SPECIFICATION Spec
CONSTANTS
  a = a
  b = b
  d = d
  Files = {a, b}
  Dirs = {d}
  Above <- AboveDef
  Cites <- CitesDef
  MaxEdits = 3
  MaxFaults = 1
  EditWhen = "idle"
  CrashWhen = "always"
  Revert = FALSE
  Lookalikes = TRUE
INVARIANTS
  GraphIsTree
