----------------------------- MODULE NodeState -----------------------------
(***************************************************************************)
(* The handlers of the service main loop (internal/service/service.go) as  *)
(* functions of the state the loop goroutine owns.  A handler calls the    *)
(* kernel several times and each call may fail on its own, so a handler    *)
(* takes a fault record f that says how each of its calls ends:            *)
(*   f.start     a Start that brings a stopped kernel up, or reconciles    *)
(*   f.apply     the user or reload operation itself                       *)
(*   f.fallback  the call made when f.apply failed                         *)
(*   f.kept      ids whose eviction fails in a re-credentialing delta      *)
(*   f.torn      such a failed eviction took sing-box's inbound down       *)
(***************************************************************************)
EXTENDS Kernels

CONSTANTS
  KernelOf,   \* ResolveEffectiveKernelType: the kernel each config runs on
  BadRuntime  \* configs validateNodeRuntime refuses

ASSUME KernelOfAssumption   == KernelOf \in [Configs -> KernelTypes]
ASSUME BadRuntimeAssumption == BadRuntime \subseteq Configs

(***************************************************************************)
(* cfg stands for lastConfig and lastConfigHash, users for lastUsers,      *)
(* lastUserHash and the limiter's table: the code writes each group        *)
(* together.  A nil and an empty lastUsers are told apart by no branch.    *)
(***************************************************************************)
Node ==
  [cfg      : Configs \cup {NoConfig},
   users    : Table,
   k        : Kernel,
   deferred : BOOLEAN,  \* the kernel object is the one Run deferred the Stop of
   due      : BOOLEAN]  \* xrayUserReconcileInterval has passed since lastReconcile

\* A fallback is tried, and can fail, only after f.apply failed.
Faults ==
  {f \in [start : {"ok", "refused"}, apply : Outcomes, fallback : Outcomes,
          kept : SUBSET Ids, torn : BOOLEAN] :
     (f.fallback # "ok" => f.apply # "ok") /\ (f.torn => f.kept # {})}

NoFaults == [start |-> "ok", apply |-> "ok", fallback |-> "ok", kept |-> {}, torn |-> FALSE]

Step(n, ok) == [n |-> n, ok |-> ok]

\* newService: in auto mode the first kernel object is sing-box.
NewNode ==
  [cfg |-> NoConfig, users |-> EmptyTable, k |-> NewKernel("singbox"), deferred |-> TRUE,
   due |-> TRUE]

\* ensureKernelType: another kernel type replaces the kernel object, stopping the old one.
EnsureKernelType(n, c) ==
  IF n.k.type = KernelOf[c] THEN n
  ELSE [n EXCEPT !.k = NewKernel(KernelOf[c]), !.deferred = FALSE]

\* prepareUserState, updateUserState and restoreUserState all install a table.
SetUsers(n, t) == [n EXCEPT !.users = t]

StartKernel(n, c, t, cert, out) ==
  LET m == EnsureKernelType(n, c)
      s == Start(m.k, c, t, cert, out)
  IN Step([m EXCEPT !.k = s.k, !.due = IF s.ok THEN FALSE ELSE @], s.ok)

EnsureRunning(n, cert, out) ==
  CASE n.k.running -> Step(n, TRUE)
    [] ~n.k.running /\ DOMAIN n.users # {} /\ n.cfg # NoConfig ->
         StartKernel(n, n.cfg, n.users, cert, out)
    [] OTHER -> Step(n, FALSE)

\* A bug: a failed update and restart keeps the new table in memory.
InstallWithoutRollback(n, t, cert, f) ==
  LET up     == EnsureRunning(n, cert, f.start)
      update == UpdateUsers(up.n.k, t, f.apply)
      after  == [up.n EXCEPT !.k = update.k]
  IN CASE ~up.ok -> up.n
       [] up.ok /\ update.ok -> SetUsers(after, t)
       [] OTHER -> SetUsers(StartKernel(after, after.cfg, t, cert, f.fallback).n, t)

\* applyUserUpdateWithDiagnostics, after beginUserSync let the table through.
InstallSnapshot(n, t, cert, f) ==
  LET up     == EnsureRunning(n, cert, f.start)
      update == UpdateUsers(up.n.k, t, f.apply)
      after  == [up.n EXCEPT !.k = update.k]
      again  == StartKernel(after, after.cfg, t, cert, f.fallback)
  IN CASE ~up.ok -> up.n
       [] up.ok /\ update.ok -> SetUsers(after, t)
       [] up.ok /\ ~update.ok /\ again.ok -> SetUsers(again.n, t)
       [] OTHER -> SetUsers(again.n, up.n.users)

\* applyUserUpdate: the entry point of a pushed sync.users.
ApplyUserUpdate(n, t, cert, f) ==
  IF RejectFetchedUsers(n.users, t) THEN n ELSE InstallSnapshot(n, t, cert, f)

\* A bug: re-credentialed users are not removed first.
EvictNobody(k, changed, f) == k

\* The loop of applyUserDelta that removes re-credentialed users before they are added
\* again, one RemoveUsers call per user, errors ignored.
EvictRecredentialed(k, changed, f) ==
  LET gone    == (changed \ f.kept) \cap DOMAIN k.users
      evicted == RemoveUsers(k, gone, "ok").k
  IN IF f.torn /\ k.type = "singbox" /\ ~Frozen(k) /\ changed \cap f.kept \cap DOMAIN k.users # {}
       THEN [evicted EXCEPT !.inbounds[ProtocolOf[k.spec]] = Nobody] ELSE evicted

\* The common end of both delta branches: the table is installed, the incremental call
\* made, and on failure UpdateUsers; when that fails too the old table comes back.
FinishDelta(n, k, t, r, f) ==
  LET full == UpdateUsers(r.k, t, f.fallback)
  IN CASE r.ok -> [n EXCEPT !.users = t, !.k = r.k]
       [] ~r.ok /\ full.ok -> [n EXCEPT !.users = t, !.k = full.k]
       [] OTHER -> [n EXCEPT !.k = full.k]

ApplyDeltaAdd(n, d, cert, f) ==
  LET up == EnsureRunning(n, cert, f.start)
      k  == EvictRecredentialed(up.n.k, Recredentialed(up.n.users, d), f)
  IN IF up.ok
       THEN FinishDelta(up.n, k, MergeUsers(up.n.users, d), AddUsers(k, d, f.apply), f)
       ELSE up.n

\* A remove is dropped while the kernel is down.
ApplyDeltaRemove(n, d, f) ==
  IF n.k.running
    THEN FinishDelta(n, n.k, SubtractUsers(n.users, DOMAIN d),
                     RemoveUsers(n.k, DOMAIN d, f.apply), f)
    ELSE n

\* applyChanges(configChanged = true).
ApplyChanges(n, cert, f) ==
  LET m      == EnsureKernelType(n, n.cfg)
      reload == Reload(m.k, m.cfg, m.users, cert, f.apply)
  IN CASE DOMAIN n.users = {} -> [n EXCEPT !.k = Stop(n.k)]
       [] DOMAIN n.users # {} /\ n.cfg = NoConfig -> n
       [] DOMAIN n.users # {} /\ n.cfg # NoConfig /\ ~m.k.running ->
            StartKernel(m, m.cfg, m.users, cert, f.start).n
       [] OTHER ->
            LET after == [m EXCEPT !.k = reload.k]
            IN IF reload.ok THEN after
               ELSE StartKernel(after, after.cfg, after.users, cert, f.fallback).n

\* A bug: the kernel of the old type is kept until the next start.
AdoptConfigOnly(n, c) == [n EXCEPT !.cfg = c]

\* A new, runnable config becomes lastConfig; a kernel of another type goes now.
AdoptConfig(n, c) == [EnsureKernelType(n, c) EXCEPT !.cfg = c]

\* reconcileUnchangedUsers: xray is rebuilt from the unchanged table every interval.
Reconcile(n, cert, f) ==
  IF n.k.type = "xray" /\ n.cfg # NoConfig /\ DOMAIN n.users # {} /\ n.due
    THEN StartKernel(n, n.cfg, n.users, cert, f.start).n
    ELSE n

\* handleWSEvent, one case per event type.
HandleWSEvent(n, e, cert, f) ==
  CASE e.type = "config" ->
         IF e.cfg = n.cfg \/ e.cfg \in BadRuntime THEN n
         ELSE ApplyChanges(AdoptConfig(n, e.cfg), cert, f)
    [] e.type = "users"   -> IF e.users = n.users THEN n
                             ELSE ApplyUserUpdate(n, e.users, cert, f)
    [] e.type = "add"     -> ApplyDeltaAdd(n, e.users, cert, f)
    [] e.type = "remove"  -> ApplyDeltaRemove(n, e.users, f)
    [] e.type = "devices" -> [n EXCEPT !.k = UpdateGlobalDevices(n.k)]

\* A result of the pull goroutine: cfg is NoConfig when there is none to apply.
AcceptedConfig(r) == r.cfg # NoConfig /\ r.cfg \notin BadRuntime
AcceptedUsers(n, r) == ~RejectFetchedUsers(n.users, r.users)

\* applyPullResult.  When the config or the certificate changed, the new table is
\* installed without a kernel call: the reload that follows carries it, and nothing
\* takes it back when the reload fails.
ApplyPullResult(n, r, cert, f) ==
  LET m     == IF AcceptedConfig(r) THEN AdoptConfig(n, r.cfg) ELSE n
      users == IF AcceptedUsers(n, r) THEN r.users ELSE n.users
  IN CASE AcceptedConfig(r) \/ r.cert -> ApplyChanges(SetUsers(m, users), cert, f)
       [] ~(AcceptedConfig(r) \/ r.cert) /\ users # n.users ->
            InstallSnapshot(m, users, cert, f)
       [] ~(AcceptedConfig(r) \/ r.cert) /\ users = n.users /\ AcceptedUsers(n, r) ->
            Reconcile(m, cert, f)
       [] OTHER -> m
=============================================================================
