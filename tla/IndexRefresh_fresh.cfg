\* A rebuild of an unchanged tree fails.
SPECIFICATION Spec
CONSTANTS
  a = a
  b = b
  d = d
  Files = {a, b}
  Dirs = {d}
  Above <- AboveDef
  Cites <- CitesDef
  MaxEdits = 0
  MaxFaults = 1
  EditWhen = "idle"
  CrashWhen = "building"
  Revert = FALSE
  Lookalikes = TRUE
INVARIANTS
  FreshIsHonest
