------------------------------- MODULE Ledger -------------------------------
(***************************************************************************)
(* What a node promises about traffic: a unit is billed once, except when  *)
(* the panel's answer to its report was lost, and it is forgotten only     *)
(* where a kernel instance ended or the node itself did.                   *)
(***************************************************************************)
EXTENDS Naturals

CONSTANT Counters  \* one direction of one user

VARIABLES
  owed,     \* traffic the node has still to report
  billed,   \* traffic the panel has booked
  unsure,   \* booked, and the node does not know it yet
  dated,    \* counters compared with a value of an earlier kernel instance
  epoch,    \* how often a kernel started or stopped
  closed    \* the node has ended

ledgerVars == <<owed, billed, unsure, dated, epoch, closed>>

Less(f, g) == \A c \in Counters : f[c] <= g[c]
None == [c \in Counters |-> 0]

LedgerInit ==
  /\ owed = None /\ billed = None /\ unsure = None
  /\ dated = {} /\ epoch = 0 /\ closed = FALSE

\* A connection moves one unit.
Incur ==
  /\ \E c \in Counters : owed' = [owed EXCEPT ![c] = @ + 1]
  /\ UNCHANGED <<billed, unsure, dated, epoch, closed>>

\* The panel books a report: what it books is no longer owed.
Book ==
  /\ Less(owed', owed)
  /\ billed' = [c \in Counters |-> billed[c] + (owed[c] - owed'[c])]
  /\ unsure' = [c \in Counters |-> unsure[c] + (owed[c] - owed'[c])]
  /\ UNCHANGED <<dated, epoch, closed>>

\* The node learns that a report was booked.
Confirm ==
  /\ Less(unsure', unsure)
  /\ UNCHANGED <<owed, billed, dated, epoch, closed>>

\* The node takes a booked report for lost and owes its traffic again.
Dispute ==
  /\ Less(unsure', unsure)
  /\ owed' = [c \in Counters |-> owed[c] + (unsure[c] - unsure'[c])]
  /\ UNCHANGED <<billed, dated, epoch, closed>>

\* A kernel instance begins or ends, with what it had not told.
Renew ==
  /\ Less(owed', owed)
  /\ epoch' = epoch + 1
  /\ dated' \in SUBSET Counters
  /\ UNCHANGED <<billed, unsure, closed>>

\* A counter is read again: traffic may be missed if it is compared with another instance's value.
Read ==
  /\ Less(owed', owed)
  /\ \A c \in Counters : owed'[c] < owed[c] => c \in dated /\ c \notin dated'
  /\ dated' \subseteq dated
  /\ UNCHANGED <<billed, unsure, epoch, closed>>

\* The node ends; from then on what it still owes may be forgotten.
Close ==
  /\ closed'
  /\ Less(owed', owed) /\ Less(unsure', unsure)
  /\ UNCHANGED <<billed, dated, epoch>>

LedgerNext == \/ Incur \/ Book \/ Confirm \/ Dispute
              \/ ~closed /\ (Renew \/ Read \/ Close)

LedgerSpec == LedgerInit /\ [][LedgerNext]_ledgerVars
=============================================================================
