CONSTANTS
  g = g  a1 = a1  a2 = a2  a3 = a3  b1 = b1  b2 = b2  b3 = b3  d2 = d2  t = t  u = u
  None = None
  Genesis = g
  Blocks <- MCBlocks
  Parent <- MCParent
  Number <- MCNumber
  Difficulty <- MCTurnDifficulty
  Transactions = {t, u}
  Txs <- MCTxs
  Archive = FALSE
  TriesInMemory = 1
  Scenarios <- MCOutgrown
SPECIFICATION Spec
INVARIANTS HeadHasState
CHECK_DEADLOCK FALSE
