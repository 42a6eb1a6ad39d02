SPECIFICATION FairSpec
CONSTANTS
  t1 = t1
  t2 = t2
  e1 = e1
  e2 = e2
  NoTx = NoTx
  Txs = {t1, t2}
  Entities = {e1, e2}
  Pool = 2
  MaxRequests = 3
  MaxFailures = 1
INVARIANTS TxInv
PROPERTIES Atomic VisibleInOrder Ends
CHECK_DEADLOCK FALSE
