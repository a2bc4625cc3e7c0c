CONSTANTS
  t1 = t1  t2 = t2  k1 = k1  None = None
  Items = {t1, t2}
  Kids = {k1}
  ParentOf <- OfFirst
  MaxVer = 2
  MaxActs = 1
  MaxFaults = 1
  StageBatch = 1
  ArchiveBatch = 1
  MinDocs = 1
  Returns = FALSE
SPECIFICATION Spec
INVARIANT TypeOK
INVARIANT CorpusFaithful
PROPERTY CleanedUp
