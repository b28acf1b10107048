\* The tree changes while a refresh reads it; no version comes back.
SPECIFICATION Spec
CONSTANTS
  a = a
  b = b
  d = d
  Files = {a, b}
  Dirs = {d}
  Above <- AboveDef
  Cites <- CitesDef
  MaxEdits = 4
  MaxFaults = 0
  EditWhen = "refresh"
  CrashWhen = "never"
  Revert = FALSE
  Lookalikes = FALSE
INVARIANTS
  UnchangedIsIndexed
