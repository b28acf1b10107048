\* One server that may stop, a client that retries: the index can miss a
\* finalized finding for ever.
CONSTANTS
  Servers = {s1}
  Findings = {f1}
  Payloads = {x1}
  Contents = {c1}
  MaxTurns = 4
  MayStop = TRUE
  NoFile = NoFile
SPECIFICATION FairSpec
PROPERTIES FinalizedIsDiscoverable
