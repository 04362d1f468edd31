SPECIFICATION LiveSpec
CONSTANTS
  threadrelay = threadrelay
  codexhub = codexhub
  mochiport = mochiport
  m1 = m1
  c1 = c1
  None = None
  Homes = {threadrelay, codexhub}
  Standard = {threadrelay, codexhub}
  Installed = {threadrelay}
  Dest = mochiport
  Copies = {1, 2}
  Migrators = {m1}
  Commands = {c1}
  MaxKills = 1
  MaxOutages = 1
INVARIANTS StorageInv ReportStands
PROPERTIES MovesAsAWhole InterruptedCompletes
