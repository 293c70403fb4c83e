SPECIFICATION Spec
CONSTANTS
  i1 = i1
  i2 = i2
  c1 = c1
  c2 = c2
  gold = gold
  euro = euro
  acct1 = acct1
  acct2 = acct2
  Inst = {i1, i2}
  Symbol = {gold, euro}
  Account = {acct1}
  Cid = {c1, c2}
  SymOf <- TwoSymbolsSym
  AccOf <- RelaunchAcc
  CidSym <- TwoSymbolsCid
  TTL = 1
  MaxOpen = 1
  MaxFaults = 0
  BrokerQueryFails = TRUE
  ReplyLost = TRUE
  NoInst = NoInst
  NoCid = NoCid
  NoTicket = NoTicket
INVARIANT PortfolioCap
