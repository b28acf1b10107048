\* One server that never stops: a finalized finding reaches the index.
CONSTANTS
  Servers = {s1}
  Findings = {f1}
  Payloads = {x1}
  Contents = {c1}
  MaxTurns = 4
  MayStop = FALSE
  NoFile = NoFile
SPECIFICATION FairSpec
PROPERTIES FinalizedIsDiscoverable
