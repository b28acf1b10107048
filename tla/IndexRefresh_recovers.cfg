\* The process may end anywhere; the host keeps asking for full rebuilds.
SPECIFICATION RebuildSpec
CONSTANTS
  a = a
  b = b
  d = d
  Files = {a, b}
  Dirs = {d}
  Above <- AboveDef
  Cites <- CitesDef
  MaxEdits = 3
  MaxFaults = 1
  EditWhen = "idle"
  CrashWhen = "always"
  Revert = TRUE
  Lookalikes = TRUE
PROPERTIES
  RebuildRecovers
