\* One server that may stop inside a call, two findings that share index.json:
\* the clarification sessions, their receipts and the index.
CONSTANTS
  Servers = {s1}
  Findings = {f1, f2}
  Payloads = {x1}
  Contents = {c1}
  MaxTurns = 3
  MayStop = TRUE
  NoFile = NoFile
SPECIFICATION Spec
INVARIANTS TypeOK FinalizedIsReceipted AckedIsIndexed IndexIsBacked
PROPERTIES TranscriptGrows ImplementsClarification
