SPECIFICATION Spec
CONSTANTS
  i1 = i1
  i2 = i2
  c1 = c1
  c2 = c2
  gold = gold
  euro = euro
  acct1 = acct1
  acct2 = acct2
  Inst = {i1, i2}
  Symbol = {gold}
  Account = {acct1, acct2}
  Cid = {c1}
  SymOf <- TwoAccountsSym
  AccOf <- TwoAccountsAcc
  CidSym <- SameSymbolCids
  TTL = 1
  MaxOpen = 1
  MaxFaults = 2
  BrokerQueryFails = TRUE
  ReplyLost = TRUE
  NoInst = NoInst
  NoCid = NoCid
  NoTicket = NoTicket
INVARIANTS TypeOK JournaledBeforeBroker AtMostOneSubmission ConfirmedIsReal LockWithinTTL
PROPERTY JournalSpec
SYMMETRY TwoAccountsSymmetry
