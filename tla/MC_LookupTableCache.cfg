CONSTANTS
  T1 = T1
  T2 = T2
  ka = ka
  kb = kb
  Tables <- MCTables
  Keys <- MCKeys
  Ofac <- MCOfac
  Txs <- MCTxs
  MaxLen = 2
  MaxChanges = 4
  MaxDecodeErrors = 1

SPECIFICATION FairSpec
INVARIANT TypeOK
INVARIANT FilterMatchesSpec
PROPERTY EventuallyCurrent
