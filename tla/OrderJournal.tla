---------------------------- MODULE OrderJournal ----------------------------
(***************************************************************************)
(* What the execution path promises for a client order id, whoever drives  *)
(* it and whatever fails: an intent row first, a journal row second, then  *)
(* at most one request to the broker, and a trade that is promoted to OPEN *)
(* only for a request the broker has filled.  Nothing is ever forgotten.   *)
(***************************************************************************)
EXTENDS Naturals

CONSTANT Cid

VARIABLES
  intents,      \* ids with an order_records row
  journalled,   \* ids with a trade_logs row
  submissions,  \* requests made to the broker, per id
  filled,       \* ids the broker has filled
  promoted      \* ids whose trade row has been promoted

vars == <<intents, journalled, submissions, filled, promoted>>

Init ==
  /\ intents = {}
  /\ journalled = {}
  /\ submissions = [c \in Cid |-> 0]
  /\ filled = {}
  /\ promoted = {}

Intend(c) ==
  /\ c \notin intents
  /\ intents' = intents \cup {c}
  /\ UNCHANGED <<journalled, submissions, filled, promoted>>

Journal(c) ==
  /\ c \in intents \ journalled
  /\ journalled' = journalled \cup {c}
  /\ UNCHANGED <<intents, submissions, filled, promoted>>

Submit(c) ==
  /\ c \in journalled
  /\ submissions[c] = 0
  /\ submissions' = [submissions EXCEPT ![c] = 1]
  /\ UNCHANGED <<intents, journalled, filled, promoted>>

Fill(c) ==
  /\ submissions[c] = 1
  /\ filled' = filled \cup {c}
  /\ UNCHANGED <<intents, journalled, submissions, promoted>>

Promote(c) ==
  /\ c \in filled
  /\ promoted' = promoted \cup {c}
  /\ UNCHANGED <<intents, journalled, submissions, filled>>

Next ==
  \E c \in Cid : Intend(c) \/ Journal(c) \/ Submit(c) \/ Fill(c) \/ Promote(c)

Spec == Init /\ [][Next]_vars
=============================================================================
