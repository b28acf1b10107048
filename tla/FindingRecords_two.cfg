\* Two servers in one run directory: what survives lost updates.
CONSTANTS
  Servers = {s1, s2}
  Findings = {f1}
  Payloads = {x1}
  Contents = {c1}
  MaxTurns = 3
  MayStop = TRUE
  NoFile = NoFile
SPECIFICATION Spec
SYMMETRY Symmetry
INVARIANTS SessionWellFormed ReceiptIsComplete
