SPECIFICATION FairSpec
CONSTANTS
  t1 = t1
  r1 = r1
  Tasks = {t1, t2}
  s1 = s1
  Scopes = {s1}
  t2 = t2
  r2 = r2
  Readers = {r1}
  MaxEvents = 3
  MaxRestarts = 1
  MaxBreaks = 1
INVARIANTS TypeOK ReceivedConsecutive ChainDetectsLoss PublishedIsDurable LedgerMatchesAudit
PROPERTIES ReaderCatchesUp
