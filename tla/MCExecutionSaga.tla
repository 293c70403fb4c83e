-------------------------- MODULE MCExecutionSaga --------------------------
(***************************************************************************)
(* Instances of ExecutionSaga for TLC.                                     *)
(***************************************************************************)
EXTENDS ExecutionSaga, TLC

CONSTANTS i1, i2, c1, c2, gold, euro, acct1, acct2

\* Two accounts that trade one symbol: one execution lock, two leases, and
\* client order ids that both of them may derive from the same signal.
TwoAccountsAcc == i1 :> acct1 @@ i2 :> acct2
TwoAccountsSym == i1 :> gold @@ i2 :> gold
SameSymbolCids == [c \in Cid |-> gold]

\* Neither instance with its account is distinguished from the other.
TwoAccountsSymmetry ==
  {p \in Permutations({i1, i2, acct1, acct2}) :
     \A i \in Inst : p[i] \in Inst /\ p[AccOf[i]] = AccOf[p[i]]}

\* One instance that is restarted under its own id.
OneInstanceAcc == i1 :> acct1
OneInstanceSym == i1 :> gold

\* One account and symbol, launched again under a fresh instance id.
RelaunchAcc == i1 :> acct1 @@ i2 :> acct1

\* Two symbols of one account: two execution locks, one portfolio.
TwoSymbolsSym == i1 :> gold @@ i2 :> euro
TwoSymbolsCid == c1 :> gold @@ c2 :> euro
=============================================================================
