----------------------------- MODULE UserTable -----------------------------
(***************************************************************************)
(* The user tables every component of a node handles: []model.UserSpec     *)
(* keyed by user id, and the pure functions service.go and kernel.go apply *)
(* to them.  The code keeps slices; every function below goes through a    *)
(* map keyed by ID or compares sorted copies, so a table is a partial      *)
(* function from ids to the rest of the record.                            *)
(***************************************************************************)
EXTENDS Integers, FiniteSets, Functions

CONSTANTS
  Ids,       \* user ids (UserSpec.ID)
  Uuids,     \* credentials (UserSpec.UUID)
  Limits,    \* UserSpec.SpeedLimit and DeviceLimit, taken together
  DropMin,   \* abnormalUserDropMinPrevious (10 in the code)
  Malformed  \* a fetched list with a bad id, an empty uuid or a duplicate

ASSUME DropMinAssumption == DropMin \in Nat

User  == [uuid : Uuids, limit : Limits]
Table == UNION {[S -> User] : S \in SUBSET Ids}

ASSUME IdsAreFinite == IsFiniteSet(Ids)
ASSUME MalformedIsNoTable == Malformed \notin Table

EmptyTable == [i \in {} |-> i]

\* The credentials of a table: what an inbound authenticates against.
Creds(t) == [i \in DOMAIN t |-> t[i].uuid]

\* mergeUsers: delta overlays base, by id.
MergeUsers(base, delta) ==
  [i \in DOMAIN base \cup DOMAIN delta |->
     IF i \in DOMAIN delta THEN delta[i] ELSE base[i]]

\* subtractUsers (and RemoveUsers' kept list): base without the ids of S.
SubtractUsers(base, S) == Restrict(base, DOMAIN base \ S)

\* The ids a delta re-credentials: same id, other uuid.
Recredentialed(base, delta) ==
  {i \in DOMAIN base \cap DOMAIN delta : base[i].uuid # delta[i].uuid}

\* UserDiff is empty in both directions exactly when the credentials agree.
NoUserDiff(old, new) == Creds(old) = Creds(new)

\* The guard of rejectFetchedUsers: fewer than half of a large enough table.
AbnormalDrop(previous, fetched) ==
  /\ Cardinality(DOMAIN previous) >= DropMin
  /\ 2 * Cardinality(DOMAIN fetched) < Cardinality(DOMAIN previous)

EmptyReplacesUsers(previous, fetched) ==
  DOMAIN previous # {} /\ DOMAIN fetched = {}

\* A bug: the drop ratio is forgotten.
RejectOnlyEmpty(previous, fetched) ==
  fetched = Malformed \/ EmptyReplacesUsers(previous, fetched)

RejectFetchedUsers(previous, fetched) ==
  \/ fetched = Malformed
  \/ EmptyReplacesUsers(previous, fetched)
  \/ AbnormalDrop(previous, fetched)
=============================================================================
