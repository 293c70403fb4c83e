----------------------------- MODULE WriterLease -----------------------------
(***************************************************************************)
(* What the single-writer row of an account and symbol promises to those   *)
(* that trade there: who writes has taken the lease when nobody held it,   *)
(* and only a writer gives it back, its own.  A writer that dies keeps it: *)
(* a lease has no end of its own.                                          *)
(***************************************************************************)
CONSTANTS Owner, NoOwner

VARIABLES
  holder,   \* who the lease names
  writers   \* those that write

vars == <<holder, writers>>

Init == holder = NoOwner /\ writers = {}

Take(o) ==
  /\ holder = NoOwner /\ holder' = o
  /\ writers' = writers \cup {o}

Give(o) ==
  /\ o \in writers /\ holder = o /\ holder' = NoOwner
  /\ writers' = writers \ {o}

Die(o) ==
  /\ o \in writers
  /\ writers' = writers \ {o}
  /\ UNCHANGED holder

Next == \E o \in Owner : Take(o) \/ Give(o) \/ Die(o)

Spec == Init /\ [][Next]_vars
=============================================================================
