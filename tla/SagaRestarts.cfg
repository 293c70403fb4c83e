SPECIFICATION FairSpec
CONSTANTS
  i1 = i1
  i2 = i2
  c1 = c1
  c2 = c2
  gold = gold
  euro = euro
  acct1 = acct1
  acct2 = acct2
  Inst = {i1}
  Symbol = {gold}
  Account = {acct1}
  Cid = {c1, c2}
  SymOf <- OneInstanceSym
  AccOf <- OneInstanceAcc
  CidSym <- SameSymbolCids
  TTL = 0
  MaxOpen = 1
  MaxFaults = 1
  BrokerQueryFails = FALSE
  ReplyLost = FALSE
  NoInst = NoInst
  NoCid = NoCid
  NoTicket = NoTicket
INVARIANTS NoFillForgotten
PROPERTIES StartAccounts SagaEnds LockNeverStuck OrphanHalts
