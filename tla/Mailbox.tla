------------------------------ MODULE Mailbox ------------------------------
(***************************************************************************)
(* NodeMailbox (internal/controlplane/mailbox.go): the events of a machine *)
(* node are folded into one state, which the node's service takes as a     *)
(* whole.  Every operation runs under the mailbox's mutex, so it is a      *)
(* function of the mailbox; the wake-up channel is not under the mutex and *)
(* belongs to the module that composes the mailbox with its users.         *)
(***************************************************************************)
EXTENDS Kernels

(***************************************************************************)
(* A nil and an empty list of users are the same table here: the code      *)
(* makes the list nil whenever the last user goes, and a list that is not  *)
(* nil is never empty.  Only that device states are waiting is kept.       *)
(***************************************************************************)
NodeMailbox ==
  [ready          : BOOLEAN,
   config         : Configs \cup {NoConfig},
   users          : Table,
   dirtyConfig    : BOOLEAN,
   dirtyUsers     : BOOLEAN,
   dirtyDevices   : BOOLEAN,
   needsReconcile : BOOLEAN,
   hasFullUserState : BOOLEAN]

NewNodeMailbox ==
  [ready |-> FALSE, config |-> NoConfig, users |-> EmptyTable,
   dirtyConfig |-> FALSE, dirtyUsers |-> FALSE, dirtyDevices |-> FALSE,
   needsReconcile |-> FALSE, hasFullUserState |-> FALSE]

MarkReady(m) == [m EXCEPT !.ready = TRUE]

\* SeedBaseline: only what no event has brought yet; no users are a nil list, and seed
\* nothing.
SeedBaseline(m, t, c) ==
  LET seeds == DOMAIN t # {} /\ ~m.hasFullUserState
  IN [m EXCEPT !.users            = IF seeds THEN t ELSE @,
               !.hasFullUserState = @ \/ seeds,
               !.config           = IF @ = NoConfig THEN c ELSE @]

\* A delta is folded into a list known to be complete; any other, and an action that is
\* neither add nor remove, can only ask for a reconciliation.
ApplyDelta(m, e) ==
  IF m.hasFullUserState /\ e.type \in {"add", "remove"}
    THEN [m EXCEPT !.dirtyUsers = TRUE,
                   !.users = IF e.type = "add" THEN MergeUsers(@, e.users)
                             ELSE SubtractUsers(@, DOMAIN e.users)]
    ELSE [m EXCEPT !.needsReconcile = TRUE]

\* NodeMailbox.Apply; the payload of every event that gets here is there, so each one
\* changes the mailbox and is followed by a notify.
Apply(m, e) ==
  CASE e.type = "config"  -> [m EXCEPT !.config = e.cfg, !.dirtyConfig = TRUE]
    [] e.type = "users"   -> [m EXCEPT !.users = e.users, !.dirtyUsers = TRUE,
                                       !.hasFullUserState = TRUE]
    [] e.type = "devices" -> [m EXCEPT !.dirtyDevices = TRUE]
    [] OTHER              -> ApplyDelta(m, e)

\* Something waits in the mailbox.
Dirty(m) == m.dirtyConfig \/ m.dirtyUsers \/ m.dirtyDevices \/ m.needsReconcile

\* DrainIfReady leaves a ready mailbox clean; what it returns is read off the old one.
Drained(m) ==
  IF m.ready
    THEN [m EXCEPT !.dirtyConfig = FALSE, !.dirtyUsers = FALSE, !.dirtyDevices = FALSE,
                   !.needsReconcile = FALSE]
    ELSE m
=============================================================================
