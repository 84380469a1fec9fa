----------------------------- MODULE NodeProofs -----------------------------
(***************************************************************************)
(* Theorems about the node service: type correctness, and the soundness of *)
(* the node whatever kernel calls and polls fail.                          *)
(***************************************************************************)
EXTENDS NodeService, SequenceTheorems, TLAPS

----------------------------------------------------------------------------
(* The operators the node is built from: what each returns (type lemmas),  *)
(* and what it preserves.                                                  *)

\* A table is a function from some ids to users.
LEMMA TableIsFunction ==
  ASSUME NEW t
  PROVE  t \in Table <=> DOMAIN t \subseteq Ids /\ t \in [DOMAIN t -> User]
BY DEF Table

LEMMA EmptyTableType == EmptyTable \in Table
BY TableIsFunction DEF EmptyTable

\* Creds yields what an inbound can hold.
LEMMA CredsType ==
  ASSUME NEW t \in Table
  PROVE  Creds(t) \in Inbound
<1>1. DOMAIN t \subseteq Ids /\ t \in [DOMAIN t -> User]
  BY TableIsFunction
<1>2. Creds(t) \in [DOMAIN t -> Uuids]
  BY <1>1 DEF Creds, User
<1> QED BY <1>1, <1>2 DEF Inbound

LEMMA NobodyType == Nobody \in Inbound
BY DEF Nobody, Inbound

\* mergeUsers and subtractUsers keep tables tables.
LEMMA MergeType ==
  ASSUME NEW base \in Table, NEW delta \in Table
  PROVE  MergeUsers(base, delta) \in Table
<1> DEFINE m == MergeUsers(base, delta)
<1>1. /\ DOMAIN base \subseteq Ids /\ base \in [DOMAIN base -> User]
      /\ DOMAIN delta \subseteq Ids /\ delta \in [DOMAIN delta -> User]
  BY TableIsFunction
<1>2. m \in [DOMAIN base \cup DOMAIN delta -> User]
  BY <1>1 DEF MergeUsers
<1> QED BY <1>1, <1>2 DEF Table

LEMMA SubtractType ==
  ASSUME NEW base \in Table, NEW S
  PROVE  SubtractUsers(base, S) \in Table
<1>1. DOMAIN base \subseteq Ids /\ base \in [DOMAIN base -> User]
  BY TableIsFunction
<1>2. SubtractUsers(base, S) \in [DOMAIN base \ S -> User]
  BY <1>1 DEF SubtractUsers, Restrict
<1> QED BY <1>1, <1>2 DEF Table

----------------------------------------------------------------------------
(* The kernel operations return a sound kernel of the same type and        *)
(* whether they succeeded.                                                 *)

KernelOK(k) ==
  k \in Kernel /\ (k.running => k.spec \in Configs /\ k.type = KernelOf[k.spec])

Returns(r, type) == KernelOK(r.k) /\ r.ok \in BOOLEAN /\ r.k.type = type

LEMMA NewKernelType ==
  ASSUME NEW type \in KernelTypes
  PROVE  KernelOK(NewKernel(type)) /\ NewKernel(type).type = type
BY EmptyTableType, NobodyType DEF KernelOK, NewKernel, Kernel, NoInbounds

LEMMA StartType ==
  ASSUME NEW k, KernelOK(k), NEW c \in Configs, k.type = KernelOf[c],
         NEW t \in Table, NEW cert \in Nat, NEW out
  PROVE  Returns(Start(k, c, t, cert, out), k.type)
<1>1. ProtocolOf[c] \in Protocols
  BY ProtocolOfAssumption
<1>2. OnlyInbound(ProtocolOf[c], t) \in [Protocols -> Inbound]
  BY <1>1, CredsType, NobodyType DEF OnlyInbound, NoInbounds
<1> QED BY <1>2 DEF Start, Result, Returns, Kernel, KernelOK

LEMMA StopType ==
  ASSUME NEW k, KernelOK(k)
  PROVE  KernelOK(Stop(k)) /\ Stop(k).type = k.type /\ ~Stop(k).running
BY NobodyType DEF Stop, Kernel, KernelOK, NoInbounds

LEMMA SwapInboundType ==
  ASSUME NEW k, KernelOK(k), NEW c \in Configs, k.type = KernelOf[c],
         NEW t \in Table, NEW out
  PROVE  Returns(SwapInbound(k, c, t, out), k.type)
<1>1. ProtocolOf[c] \in Protocols /\ Creds(t) \in Inbound /\ Nobody \in Inbound
  BY ProtocolOfAssumption, CredsType, NobodyType
<1>2. /\ [k.inbounds EXCEPT ![ProtocolOf[c]] = Creds(t)] \in [Protocols -> Inbound]
      /\ [k.inbounds EXCEPT ![ProtocolOf[c]] = Nobody] \in [Protocols -> Inbound]
  BY <1>1 DEF Kernel, KernelOK
<1>3. CASE out = "ok"
  BY <1>2, <1>3 DEF SwapInbound, Result, Returns, Kernel, KernelOK
<1>4. CASE out = "refused"
  BY <1>4 DEF SwapInbound, Result, Returns, KernelOK
<1>5. CASE out \notin {"ok", "refused"}
  BY <1>2, <1>5 DEF SwapInbound, Result, Returns, Kernel, KernelOK
<1> QED BY <1>3, <1>4, <1>5

LEMMA HotSwapType ==
  ASSUME NEW k, KernelOK(k), k.running, NEW t \in Table, NEW out
  PROVE  Returns(HotSwap(k, t, out), k.type)
<1>1. Returns(SwapInbound(k, k.spec, t, out), k.type)
  BY SwapInboundType DEF KernelOK
<1>2. CASE Frozen(k) /\ Serves(k) # Nobody
  BY <1>2 DEF HotSwap, Result, Returns, Kernel, KernelOK
<1>3. CASE ~(Frozen(k) /\ Serves(k) # Nobody)
  BY <1>1, <1>3 DEF HotSwap
<1> QED BY <1>2, <1>3

LEMMA ReplaceUsersType ==
  ASSUME NEW k, KernelOK(k), k.running, NEW t \in Table, NEW out
  PROVE  Returns(ReplaceUsers(k, t, out), k.type)
<1>1. k.spec \in Configs /\ k.type = KernelOf[k.spec] /\ k.tls \in Nat
  BY DEF KernelOK, Kernel
<1> QED BY <1>1, StartType, HotSwapType DEF ReplaceUsers

LEMMA AddUsersType ==
  ASSUME NEW k, KernelOK(k), NEW d \in Table, NEW out
  PROVE  Returns(AddUsers(k, d, out), k.type)
<1>1. k.users \in Table
  BY DEF KernelOK, Kernel
<1>2. MergeUsers(k.users, d) \in Table /\ MergeUsers(d, k.users) \in Table
  BY <1>1, MergeType
<1>3. CASE ~k.running
  BY <1>3 DEF AddUsers, Result, Returns
<1>4. CASE k.running /\ DOMAIN d \subseteq DOMAIN k.users
  BY <1>2, <1>4 DEF AddUsers, Result, Returns, KernelOK, Kernel
<1>5. CASE k.running /\ ~(DOMAIN d \subseteq DOMAIN k.users)
  <2>1. AddUsers(k, d, out) =
          ReplaceUsers(k, IF k.type = "xray" THEN MergeUsers(k.users, d)
                                             ELSE MergeUsers(d, k.users), out)
    BY <1>5 DEF AddUsers
  <2> QED BY <1>2, <1>5, <2>1, ReplaceUsersType
<1> QED BY <1>3, <1>4, <1>5

LEMMA RemoveUsersType ==
  ASSUME NEW k, KernelOK(k), NEW S, NEW out
  PROVE  Returns(RemoveUsers(k, S, out), k.type)
<1> DEFINE kept == SubtractUsers(k.users, S)
<1>1. kept \in Table
  BY SubtractType DEF KernelOK, Kernel
<1>2. CASE ~k.running
  BY <1>2 DEF RemoveUsers, Result, Returns
<1>3. CASE k.running /\ S \cap DOMAIN k.users = {}
  BY <1>3 DEF RemoveUsers, Result, Returns
<1>4. CASE k.running /\ S \cap DOMAIN k.users # {} /\ k.type = "xray" /\ DOMAIN kept = {}
  BY <1>4, StopType DEF RemoveUsers, Result, Returns
<1>5. CASE k.running /\ S \cap DOMAIN k.users # {} /\ ~(k.type = "xray" /\ DOMAIN kept = {})
  <2>1. RemoveUsers(k, S, out) = ReplaceUsers(k, kept, out)
    BY <1>5 DEF RemoveUsers
  <2> QED BY <1>1, <1>5, <2>1, ReplaceUsersType
<1> QED BY <1>2, <1>3, <1>4, <1>5

LEMMA UpdateUsersType ==
  ASSUME NEW k, KernelOK(k), NEW t \in Table, NEW out
  PROVE  Returns(UpdateUsers(k, t, out), k.type)
<1>1. CASE ~k.running
  BY <1>1 DEF UpdateUsers, Result, Returns
<1>2. CASE k.running /\ NoUserDiff(k.users, t)
  BY <1>2 DEF UpdateUsers, Result, Returns, KernelOK, Kernel
<1>3. CASE k.running /\ ~NoUserDiff(k.users, t)
  BY <1>3, ReplaceUsersType DEF UpdateUsers
<1> QED BY <1>1, <1>2, <1>3

LEMMA ReloadType ==
  ASSUME NEW k, KernelOK(k), NEW c \in Configs, k.type = KernelOf[c],
         NEW t \in Table, NEW cert \in Nat, NEW out
  PROVE  Returns(Reload(k, c, t, cert, out), k.type)
<1>1. k.type \in KernelTypes
  BY DEF KernelOK, Kernel
<1>2. CASE k.type = "xray" /\ XrayUnchanged(k, c, t, cert)
  BY <1>2 DEF Reload, Result, Returns, KernelOK, Kernel
<1>3. CASE k.type = "xray" /\ ~XrayUnchanged(k, c, t, cert)
  BY <1>3, StartType DEF Reload
<1>4. CASE k.type = "singbox" /\ ~k.running
  BY <1>4 DEF Reload, Result, Returns
<1>5. CASE k.type = "singbox" /\ k.running
  <2> DEFINE swap == IF BoxUnchanged(k, c, t, cert) THEN HotSwap(k, t, out)
                                                    ELSE SwapInbound(k, c, t, out)
  <2>1. Returns(swap, k.type)
    BY <1>5, HotSwapType, SwapInboundType
  <2>2. Reload(k, c, t, cert, out) =
          Result(IF swap.ok THEN [swap.k EXCEPT !.tls = cert] ELSE swap.k, swap.ok)
    BY <1>5 DEF Reload
  <2> HIDE DEF swap
  <2> QED BY <2>1, <2>2 DEF Result, Returns, KernelOK, Kernel
<1> QED BY <1>1, <1>2, <1>3, <1>4, <1>5 DEF KernelTypes

LEMMA DevicesType ==
  ASSUME NEW k, KernelOK(k)
  PROVE  /\ KernelOK(UpdateGlobalDevices(k)) /\ UpdateGlobalDevices(k).type = k.type
         /\ KernelOK(ClearGlobalDevices(k)) /\ ClearGlobalDevices(k).type = k.type
BY DEF UpdateGlobalDevices, ClearGlobalDevices, KernelOK, Kernel
----------------------------------------------------------------------------
(* The handlers keep the node sound: a kernel of the type its config needs, *)
(* and none running without a config.                                      *)

NodeOK(n) ==
  /\ n \in Node /\ KernelOK(n.k)
  /\ n.cfg # NoConfig => n.k.type = KernelOf[n.cfg]
  /\ n.k.running => n.cfg \in Configs

LEMMA NewNodeOK == NodeOK(NewNode)
<1>1. "singbox" \in KernelTypes
  BY DEF KernelTypes
<1>2. KernelOK(NewKernel("singbox")) /\ ~NewKernel("singbox").running
  BY <1>1, NewKernelType DEF NewKernel
<1> QED BY <1>2, EmptyTableType DEF NewNode, NodeOK, Node, KernelOK

LEMMA SetUsersOK ==
  ASSUME NEW n, NodeOK(n), NEW t \in Table
  PROVE  NodeOK(SetUsers(n, t)) /\ SetUsers(n, t) = [n EXCEPT !.users = t]
BY DEF SetUsers, NodeOK, Node

LEMMA StartKernelOK ==
  ASSUME NEW n, NodeOK(n), n.cfg \in Configs, NEW t \in Table, NEW cert \in Nat, NEW out
  PROVE  LET s == StartKernel(n, n.cfg, t, cert, out)
         IN /\ NodeOK(s.n) /\ s.ok \in BOOLEAN
            /\ s.n.cfg = n.cfg /\ s.n.users = n.users
            /\ s.n.k = Start(n.k, n.cfg, t, cert, out).k
            /\ s.ok = Start(n.k, n.cfg, t, cert, out).ok
<1> DEFINE s == Start(n.k, n.cfg, t, cert, out)
<1>1. n.cfg # NoConfig /\ n.k.type = KernelOf[n.cfg]
  BY NoConfigAssumption DEF NodeOK
<1>2. EnsureKernelType(n, n.cfg) = n
  BY <1>1 DEF EnsureKernelType
<1>3. Returns(s, n.k.type)
  BY <1>1, StartType DEF NodeOK
<1>4. StartKernel(n, n.cfg, t, cert, out) =
        Step([n EXCEPT !.k = s.k, !.due = IF s.ok THEN FALSE ELSE @], s.ok)
  BY <1>2 DEF StartKernel
<1>5. s = Start(n.k, n.cfg, t, cert, out)
  OBVIOUS
<1> HIDE DEF s
<1> DEFINE m == [n EXCEPT !.k = s.k, !.due = IF s.ok THEN FALSE ELSE @]
<1>6. NodeOK(m)
  BY <1>1, <1>3 DEF Returns, NodeOK, Node, KernelOK
<1>7. m.cfg = n.cfg /\ m.users = n.users /\ m.k = s.k
  BY DEF NodeOK, Node
<1>8. StartKernel(n, n.cfg, t, cert, out).n = m /\ StartKernel(n, n.cfg, t, cert, out).ok = s.ok
  BY <1>4 DEF Step
<1> HIDE DEF m
<1> QED BY <1>3, <1>5, <1>6, <1>7, <1>8 DEF Returns

LEMMA EnsureRunningOK ==
  ASSUME NEW n, NodeOK(n), NEW cert \in Nat, NEW out
  PROVE  LET s == EnsureRunning(n, cert, out)
         IN /\ NodeOK(s.n) /\ s.ok \in BOOLEAN
            /\ s.n.cfg = n.cfg /\ s.n.users = n.users
            /\ s.ok => s.n.k.running
<1> DEFINE s == EnsureRunning(n, cert, out)
<1>1. CASE n.k.running
  BY <1>1 DEF EnsureRunning, Step
<1>2. CASE ~n.k.running /\ DOMAIN n.users # {} /\ n.cfg # NoConfig
  <2>1. n.cfg \in Configs /\ n.users \in Table
    BY <1>2 DEF NodeOK, Node
  <2>2. s = StartKernel(n, n.cfg, n.users, cert, out)
    BY <1>2 DEF EnsureRunning
  <2>3. Start(n.k, n.cfg, n.users, cert, out).ok
          => Start(n.k, n.cfg, n.users, cert, out).k.running
    BY DEF Start, Result, NodeOK, KernelOK, Kernel
  <2> QED BY <2>1, <2>2, <2>3, StartKernelOK
<1>3. CASE ~n.k.running /\ ~(DOMAIN n.users # {} /\ n.cfg # NoConfig)
  BY <1>3 DEF EnsureRunning, Step
<1> QED BY <1>1, <1>2, <1>3

\* Putting another sound kernel of the same type in place keeps the node sound.
LEMMA KernelSwapOK ==
  ASSUME NEW n, NodeOK(n), NEW k, KernelOK(k), k.type = n.k.type,
         k.running => n.cfg \in Configs
  PROVE  NodeOK([n EXCEPT !.k = k])
BY DEF NodeOK, Node, KernelOK

LEMMA InstallSnapshotOK ==
  ASSUME NEW n, NodeOK(n), NEW t \in Table, NEW cert \in Nat, NEW f
  PROVE  NodeOK(InstallSnapshot(n, t, cert, f))
<1> DEFINE up     == EnsureRunning(n, cert, f.start)
           update == UpdateUsers(up.n.k, t, f.apply)
           after  == [up.n EXCEPT !.k = update.k]
           again  == StartKernel(after, after.cfg, t, cert, f.fallback)
<1>1. /\ NodeOK(up.n) /\ up.ok \in BOOLEAN
      /\ up.n.cfg = n.cfg /\ up.n.users = n.users /\ (up.ok => up.n.k.running)
  BY EnsureRunningOK
<1>2. CASE ~up.ok
  BY <1>1, <1>2 DEF InstallSnapshot
<1>3. CASE up.ok
  <2>1. up.n.cfg \in Configs /\ up.n.users \in Table /\ KernelOK(up.n.k)
    BY <1>1, <1>3 DEF NodeOK, Node
  <2>2. Returns(update, up.n.k.type)
    BY <2>1, UpdateUsersType
  <2>3. NodeOK(after) /\ after.cfg = up.n.cfg
    <3>1. NodeOK(after)
      BY <1>1, <2>1, <2>2, KernelSwapOK DEF Returns
    <3> QED BY <1>1, <3>1 DEF NodeOK, Node
  <2>4. NodeOK(again.n)
    BY <2>1, <2>3, StartKernelOK
  <2>5. InstallSnapshot(n, t, cert, f) \in
          {SetUsers(after, t), SetUsers(again.n, t), SetUsers(again.n, up.n.users)}
    BY <1>3 DEF InstallSnapshot
  <2> QED BY <2>1, <2>3, <2>4, <2>5, SetUsersOK
<1> QED BY <1>1, <1>2, <1>3

LEMMA EvictOK ==
  ASSUME NEW k, KernelOK(k), k.running => k.spec \in Configs, NEW changed, NEW f
  PROVE  LET e == EvictRecredentialed(k, changed, f)
         IN KernelOK(e) /\ e.type = k.type
<1> DEFINE gone    == (changed \ f.kept) \cap DOMAIN k.users
           evicted == RemoveUsers(k, gone, "ok").k
<1>1. KernelOK(evicted) /\ evicted.type = k.type
  BY RemoveUsersType DEF Returns
<1>2. KernelOK([evicted EXCEPT !.inbounds[ProtocolOf[k.spec]] = Nobody])
  BY <1>1, NobodyType DEF KernelOK, Kernel
<1>3. [evicted EXCEPT !.inbounds[ProtocolOf[k.spec]] = Nobody].type = k.type
  BY <1>1 DEF KernelOK, Kernel
<1> QED BY <1>1, <1>2, <1>3 DEF EvictRecredentialed

LEMMA FinishDeltaOK ==
  ASSUME NEW n, NodeOK(n), n.cfg \in Configs, NEW t \in Table,
         NEW r, Returns(r, n.k.type), NEW k, NEW f
  PROVE  NodeOK(FinishDelta(n, k, t, r, f))
<1> DEFINE full == UpdateUsers(r.k, t, f.fallback)
<1>1. Returns(full, n.k.type)
  BY UpdateUsersType DEF Returns
<1>2. FinishDelta(n, k, t, r, f) \in
        {[n EXCEPT !.users = t, !.k = r.k], [n EXCEPT !.users = t, !.k = full.k],
         [n EXCEPT !.k = full.k]}
  BY DEF FinishDelta
<1> HIDE DEF full
<1> QED BY <1>1, <1>2 DEF Returns, NodeOK, Node, KernelOK

LEMMA ApplyDeltaAddOK ==
  ASSUME NEW n, NodeOK(n), NEW d \in Table, NEW cert \in Nat, NEW f
  PROVE  NodeOK(ApplyDeltaAdd(n, d, cert, f))
<1> DEFINE up == EnsureRunning(n, cert, f.start)
           k  == EvictRecredentialed(up.n.k, Recredentialed(up.n.users, d), f)
<1>1. /\ NodeOK(up.n) /\ up.ok \in BOOLEAN
      /\ up.n.cfg = n.cfg /\ up.n.users = n.users /\ (up.ok => up.n.k.running)
  BY EnsureRunningOK
<1>2. CASE ~up.ok
  BY <1>1, <1>2 DEF ApplyDeltaAdd
<1>3. CASE up.ok
  <2>1. up.n.cfg \in Configs /\ up.n.users \in Table /\ KernelOK(up.n.k)
    BY <1>1, <1>3 DEF NodeOK, Node
  <2>2. KernelOK(k) /\ k.type = up.n.k.type
    BY <2>1, EvictOK DEF KernelOK
  <2>3. Returns(AddUsers(k, d, f.apply), up.n.k.type)
    BY <2>2, AddUsersType
  <2>4. MergeUsers(up.n.users, d) \in Table
    BY <2>1, MergeType
  <2>5. ApplyDeltaAdd(n, d, cert, f) =
          FinishDelta(up.n, k, MergeUsers(up.n.users, d), AddUsers(k, d, f.apply), f)
    BY <1>3 DEF ApplyDeltaAdd
  <2> QED BY <1>1, <2>1, <2>3, <2>4, <2>5, FinishDeltaOK
<1> QED BY <1>1, <1>2, <1>3

LEMMA ApplyDeltaRemoveOK ==
  ASSUME NEW n, NodeOK(n), NEW d \in Table, NEW f
  PROVE  NodeOK(ApplyDeltaRemove(n, d, f))
<1>1. CASE ~n.k.running
  BY <1>1 DEF ApplyDeltaRemove
<1>2. CASE n.k.running
  <2>1. n.cfg \in Configs /\ SubtractUsers(n.users, DOMAIN d) \in Table
    BY <1>2, SubtractType DEF NodeOK, Node
  <2>2. Returns(RemoveUsers(n.k, DOMAIN d, f.apply), n.k.type)
    BY RemoveUsersType DEF NodeOK
  <2> QED BY <1>2, <2>1, <2>2, FinishDeltaOK DEF ApplyDeltaRemove
<1> QED BY <1>1, <1>2
LEMMA AdoptConfigOK ==
  ASSUME NEW n, NodeOK(n), NEW c \in Configs
  PROVE  NodeOK(AdoptConfig(n, c)) /\ AdoptConfig(n, c).cfg = c
<1>1. KernelOf[c] \in KernelTypes
  BY KernelOfAssumption
<1>2. KernelOK(NewKernel(KernelOf[c])) /\ NewKernel(KernelOf[c]).type = KernelOf[c]
  BY <1>1, NewKernelType
<1>3. CASE n.k.type = KernelOf[c]
  BY <1>3 DEF AdoptConfig, EnsureKernelType, NodeOK, Node
<1>4. CASE n.k.type # KernelOf[c]
  <2>1. AdoptConfig(n, c) =
          [n EXCEPT !.k = NewKernel(KernelOf[c]), !.deferred = FALSE, !.cfg = c]
    BY <1>4 DEF AdoptConfig, EnsureKernelType
  <2>2. ~NewKernel(KernelOf[c]).running
    BY DEF NewKernel
  <2> QED BY <1>2, <2>1, <2>2 DEF NodeOK, Node, KernelOK
<1> QED BY <1>3, <1>4

LEMMA ApplyChangesOK ==
  ASSUME NEW n, NodeOK(n), NEW cert \in Nat, NEW f
  PROVE  NodeOK(ApplyChanges(n, cert, f))
<1>1. CASE DOMAIN n.users = {}
  <2>1. KernelOK(Stop(n.k)) /\ Stop(n.k).type = n.k.type /\ ~Stop(n.k).running
    BY StopType DEF NodeOK
  <2> QED BY <1>1, <2>1, KernelSwapOK DEF ApplyChanges
<1>2. CASE DOMAIN n.users # {} /\ n.cfg = NoConfig
  BY <1>2 DEF ApplyChanges
<1>3. CASE DOMAIN n.users # {} /\ n.cfg # NoConfig
  <2>1. n.cfg \in Configs /\ n.users \in Table /\ n.k.type = KernelOf[n.cfg]
    BY <1>3 DEF NodeOK, Node
  <2>2. EnsureKernelType(n, n.cfg) = n
    BY <2>1 DEF EnsureKernelType
  <2>3. CASE ~n.k.running
    <3>1. ApplyChanges(n, cert, f) = StartKernel(n, n.cfg, n.users, cert, f.start).n
      BY <1>3, <2>2, <2>3 DEF ApplyChanges
    <3> QED BY <2>1, <3>1, StartKernelOK
  <2>4. CASE n.k.running
    <3> DEFINE reload == Reload(n.k, n.cfg, n.users, cert, f.apply)
               after  == [n EXCEPT !.k = reload.k]
    <3>1. Returns(reload, n.k.type)
      BY <2>1, ReloadType DEF NodeOK
    <3>2. NodeOK(after) /\ after.cfg = n.cfg /\ after.users = n.users
      <4>1. NodeOK(after)
        BY <2>1, <3>1, KernelSwapOK DEF Returns
      <4> QED BY <4>1 DEF NodeOK, Node
    <3>3. ApplyChanges(n, cert, f) \in
            {after, StartKernel(after, after.cfg, after.users, cert, f.fallback).n}
      BY <1>3, <2>2, <2>4 DEF ApplyChanges
    <3> HIDE DEF after
    <3>4. NodeOK(StartKernel(after, after.cfg, after.users, cert, f.fallback).n)
      BY <2>1, <3>2, StartKernelOK
    <3> QED BY <3>2, <3>3, <3>4
  <2> QED BY <2>3, <2>4
<1> QED BY <1>1, <1>2, <1>3

LEMMA ReconcileOK ==
  ASSUME NEW n, NodeOK(n), NEW cert \in Nat, NEW f
  PROVE  NodeOK(Reconcile(n, cert, f))
<1>1. CASE n.cfg # NoConfig
  <2>1. n.cfg \in Configs /\ n.users \in Table
    BY <1>1 DEF NodeOK, Node
  <2> QED BY <2>1, StartKernelOK DEF Reconcile
<1>2. CASE n.cfg = NoConfig
  BY <1>2 DEF Reconcile
<1> QED BY <1>1, <1>2

\* What the WebSocket and the pull goroutine hand to the loop.
IsEvent(e) ==
  \/ e \in [type : {"config"}, cfg : Configs]
  \/ e \in [type : {"users", "add", "remove"}, users : Table]
  \/ e \in [type : {"devices"}]

IsPullResult(r) ==
  r \in [cfg : Configs \cup {NoConfig}, users : Table \cup {Malformed}, cert : BOOLEAN]

LEMMA HandleWSEventOK ==
  ASSUME NEW n, NodeOK(n), NEW e, IsEvent(e), NEW cert \in Nat, NEW f
  PROVE  NodeOK(HandleWSEvent(n, e, cert, f))
<1>1. CASE e.type = "config"
  <2>1. e.cfg \in Configs
    BY <1>1 DEF IsEvent
  <2> QED BY <1>1, <2>1, AdoptConfigOK, ApplyChangesOK DEF HandleWSEvent
<1>2. CASE e.type = "users"
  <2>1. e.users \in Table
    BY <1>2 DEF IsEvent
  <2> QED BY <1>2, <2>1, InstallSnapshotOK DEF HandleWSEvent, ApplyUserUpdate
<1>3. CASE e.type = "add"
  <2>1. e.users \in Table
    BY <1>3 DEF IsEvent
  <2> QED BY <1>3, <2>1, ApplyDeltaAddOK DEF HandleWSEvent
<1>4. CASE e.type = "remove"
  <2>1. e.users \in Table
    BY <1>4 DEF IsEvent
  <2> QED BY <1>4, <2>1, ApplyDeltaRemoveOK DEF HandleWSEvent
<1>5. CASE e.type = "devices"
  <2>1. KernelOK(n.k)
    BY DEF NodeOK
  <2>2. KernelOK(UpdateGlobalDevices(n.k)) /\ UpdateGlobalDevices(n.k).type = n.k.type
    BY <2>1, DevicesType
  <2>3. UpdateGlobalDevices(n.k).running = n.k.running
    BY <2>1 DEF UpdateGlobalDevices, KernelOK, Kernel
  <2>4. NodeOK([n EXCEPT !.k = UpdateGlobalDevices(n.k)])
    BY <2>2, <2>3, KernelSwapOK DEF NodeOK
  <2> QED BY <1>5, <2>4 DEF HandleWSEvent
<1> QED BY <1>1, <1>2, <1>3, <1>4, <1>5 DEF IsEvent

LEMMA ApplyPullResultOK ==
  ASSUME NEW n, NodeOK(n), NEW r, IsPullResult(r), NEW cert \in Nat, NEW f
  PROVE  NodeOK(ApplyPullResult(n, r, cert, f))
<1> DEFINE m     == IF AcceptedConfig(r) THEN AdoptConfig(n, r.cfg) ELSE n
           users == IF AcceptedUsers(n, r) THEN r.users ELSE n.users
<1>1. NodeOK(m)
  BY AdoptConfigOK DEF AcceptedConfig, IsPullResult
<1>2. users \in Table
  BY DEF AcceptedUsers, RejectFetchedUsers, IsPullResult, NodeOK, Node
<1>3. ApplyPullResult(n, r, cert, f) \in
        {ApplyChanges(SetUsers(m, users), cert, f), InstallSnapshot(m, users, cert, f),
         Reconcile(m, cert, f), m}
  BY DEF ApplyPullResult
<1> HIDE DEF m, users
<1> QED BY <1>1, <1>2, <1>3, SetUsersOK, ApplyChangesOK, InstallSnapshotOK, ReconcileOK

----------------------------------------------------------------------------
(* The node service.                                                       *)

\* The inductive invariant behind TypeOK and KernelSuitsConfig.
IInv ==
  /\ TypeOK
  /\ NodeOK(node)

----------------------------------------------------------------------------
(* What the helpers preserve.                                              *)

LEMMA SpendOK ==
  ASSUME budget \in [BudgetKinds -> Nat], NEW kind \in BudgetKinds, Spend(kind, 1)
  PROVE  budget' \in [BudgetKinds -> Nat]
BY DEF Spend, BudgetKinds

LEMMA OfferStatusOK ==
  ASSUME NEW q \in Seq(Status), Len(q) <= StatusCap, NEW s \in Status
  PROVE  OfferStatus(q, s) \in Seq(Status) /\ Len(OfferStatus(q, s)) <= StatusCap
<1>1. Len(q) \in Nat /\ StatusCap \in Nat
  BY CapsAssumption, LenProperties
<1>2. CASE Len(q) < StatusCap
  <2>1. Append(q, s) \in Seq(Status) /\ Len(Append(q, s)) = Len(q) + 1
    BY AppendProperties
  <2> QED BY <1>1, <1>2, <2>1 DEF OfferStatus
<1>3. CASE ~(Len(q) < StatusCap)
  BY <1>3 DEF OfferStatus
<1> QED BY <1>2, <1>3

EventsOK == wsEvents \in Seq(Event) /\ Len(wsEvents) <= EventCap
StatusOK == wsStatusCh \in Seq(Status) /\ Len(wsStatusCh) <= StatusCap

LEMMA DeliverOK ==
  ASSUME EventsOK, StatusOK, NEW e \in Event, Deliver(e)
  PROVE  EventsOK' /\ StatusOK'
<1>1. Len(wsEvents) \in Nat /\ EventCap \in Nat
  BY CapsAssumption, LenProperties DEF EventsOK
<1>2. [connected |-> TRUE, resync |-> TRUE] \in Status
  BY DEF Status
<1>3. CASE Len(wsEvents) < EventCap
  <2>1. Append(wsEvents, e) \in Seq(Event) /\ Len(Append(wsEvents, e)) = Len(wsEvents) + 1
    BY AppendProperties DEF EventsOK
  <2> QED BY <1>1, <1>3, <2>1 DEF Deliver, EventsOK, StatusOK
<1>4. CASE ~(Len(wsEvents) < EventCap)
  <2>1. wsStatusCh' = OfferStatus(wsStatusCh, [connected |-> TRUE, resync |-> TRUE])
        /\ wsEvents' = wsEvents
    BY <1>4 DEF Deliver
  <2>2. StatusOK'
    BY <1>2, <2>1, OfferStatusOK DEF StatusOK
  <2> QED BY <2>1, <2>2 DEF EventsOK
<1> QED BY <1>3, <1>4

LEMMA PushOK ==
  ASSUME EventsOK, StatusOK, NEW e \in Event, Push(e)
  PROVE  EventsOK' /\ StatusOK'
<1>1. CASE Deliver(e)
  BY <1>1, DeliverOK
<1>2. CASE UNCHANGED <<wsEvents, wsStatusCh>>
  BY <1>2 DEF EventsOK, StatusOK
<1> QED BY <1>1, <1>2 DEF Push

LEMMA PushesForOK ==
  ASSUME NEW old \in Table, NEW new \in Table
  PROVE  PushesFor(old, new) \subseteq Event
<1> DEFINE changed == {i \in DOMAIN new : i \notin DOMAIN old \/ old[i] # new[i]}
           gone    == DOMAIN old \ DOMAIN new
<1>1. Restrict(new, changed) \in Table
  <2>1. DOMAIN new \subseteq Ids /\ new \in [DOMAIN new -> User]
    BY TableIsFunction
  <2>2. Restrict(new, changed) \in [changed -> User] /\ changed \subseteq Ids
    BY <2>1 DEF Restrict
  <2> QED BY <2>2 DEF Table
<1>2. Restrict(old, gone) \in Table
  <2>1. DOMAIN old \subseteq Ids /\ old \in [DOMAIN old -> User]
    BY TableIsFunction
  <2>2. Restrict(old, gone) \in [gone -> User] /\ gone \subseteq Ids
    BY <2>1 DEF Restrict
  <2> QED BY <2>2 DEF Table
<1> HIDE DEF changed, gone
<1>3. /\ [type |-> "users", users |-> new] \in Event
      /\ [type |-> "add", users |-> Restrict(new, changed)] \in Event
      /\ [type |-> "remove", users |-> Restrict(old, gone)] \in Event
  BY <1>1, <1>2 DEF Event
<1> USE DEF changed, gone
<1> QED BY <1>3 DEF PushesFor

LEMMA OnFailureType ==
  ASSUME NEW skip \in Nat
  PROVE  OnFailure(skip) \in Nat
<1>1. CASE skip = 0
  BY <1>1 DEF OnFailure
<1>2. CASE skip \in 1 .. 7
  BY <1>2 DEF OnFailure
<1>3. CASE skip # 0 /\ skip \notin 1 .. 7
  BY <1>3 DEF OnFailure
<1> QED BY <1>1, <1>2, <1>3

LEMMA IdlePullType ==
  ASSUME NEW skip \in Nat
  PROVE  IdlePull(skip) \in Pull
BY EmptyTableType, CapsAssumption DEF IdlePull, Pull

LEMMA PullViaAPIType ==
  ASSUME NEW p \in Pull, node.cfg \in Configs \cup {NoConfig}, certs.renewed \in BOOLEAN
  PROVE  PullViaAPI(p) \in Pull
<1>1. CASE p.pc # "idle"
  BY <1>1 DEF PullViaAPI
<1>2. CASE p.pc = "idle" /\ p.skip > 0
  BY <1>2 DEF PullViaAPI, Pull
<1>3. CASE p.pc = "idle" /\ ~(p.skip > 0)
  BY <1>3 DEF PullViaAPI, Pull
<1> QED BY <1>1, <1>2, <1>3

LEMMA StartPullType ==
  ASSUME certs \in [version : Nat, renewed : BOOLEAN], NEW p \in Pull, StartPull(p)
  PROVE  pull' \in Pull /\ certs' \in [version : Nat, renewed : BOOLEAN]
BY DEF StartPull

\* A drained channel keeps its type and its bound.
LEMMA TailOK ==
  ASSUME NEW S, NEW q \in Seq(S), q # <<>>, NEW cap \in Nat, Len(q) <= cap
  PROVE  Head(q) \in S /\ Tail(q) \in Seq(S) /\ Len(Tail(q)) <= cap
<1>1. Head(q) \in S /\ Tail(q) \in Seq(S) /\ Len(Tail(q)) = Len(q) - 1
  BY HeadTailProperties
<1>2. Len(q) \in Nat
  BY LenProperties
<1> QED BY <1>1, <1>2
----------------------------------------------------------------------------
(* Every action keeps IInv.                                                *)

LEMMA InitOK == Init => IInv
<1> SUFFICES ASSUME Init PROVE IInv
  OBVIOUS
<1>1. NodeOK(node) /\ node \in Node
  BY NewNodeOK DEF Init, NodeOK
<1>2. pull \in Pull
  BY IdlePullType DEF Init
<1>3. panel \in Panel /\ budget \in [BudgetKinds -> Nat]
  BY CapsAssumption DEF Init
<1>5. /\ pullResults \in Seq(PullResult) /\ Len(pullResults) <= 1
      /\ wsEvents \in Seq(Event) /\ Len(wsEvents) <= EventCap
      /\ wsStatusCh \in Seq(Status) /\ Len(wsStatusCh) <= StatusCap
  BY CapsAssumption DEF Init
<1> QED BY <1>1, <1>2, <1>3, <1>5 DEF Init, IInv, TypeOK, NoWs

LEMMA BootedNodeOK ==
  ASSUME NodeOK(node), NEW c \in Configs, NEW t \in Table
  PROVE  /\ NodeOK(BootedNode(c, t))
         /\ BootedNode(c, t).cfg = c /\ BootedNode(c, t).users = t
         /\ BootedNode(c, t).k = AdoptConfig(node, c).k
<1> DEFINE m == AdoptConfig(node, c)
<1>1. NodeOK(m) /\ m.cfg = c
  BY AdoptConfigOK
<1>2. BootedNode(c, t) = [m EXCEPT !.users = t, !.deferred = TRUE]
  BY <1>1 DEF BootedNode, SetUsers, NodeOK, Node
<1>3. m = AdoptConfig(node, c)
  OBVIOUS
<1> HIDE DEF m
<1> QED BY <1>1, <1>2, <1>3 DEF NodeOK, Node

LEMMA BootNodeOK ==
  ASSUME IInv
  PROVE  /\ NodeOK(BootNode) /\ BootNode.cfg = panel.cfg /\ BootNode.users = panel.users
         /\ BootNode.cfg \in Configs /\ BootNode.users \in Table
         /\ BootNode.k = AdoptConfig(node, panel.cfg).k
<1>1. NodeOK(node) /\ panel.cfg \in Configs /\ panel.users \in Table
  BY DEF IInv, TypeOK, Panel
<1> QED BY <1>1, BootedNodeOK DEF BootNode

LEMMA BootRestOK ==
  ASSUME IInv, NEW f, BootRest(f)
  PROVE  NodeOK(node') /\ phase' \in {"loop", "failed"} /\ etag' \in Configs
<1> DEFINE s == StartKernel(BootNode, BootNode.cfg, BootNode.users, certs.version, f.start)
<1>1. certs.version \in Nat /\ panel.cfg \in Configs
  BY DEF IInv, TypeOK, Panel
<1>2. NodeOK(s.n)
  BY <1>1, BootNodeOK, StartKernelOK
<1>3. node' \in {node, BootNode, s.n} /\ phase' \in {"loop", "failed"} /\ etag' = panel.cfg
  BY DEF BootRest
<1> QED BY <1>1, <1>2, <1>3, BootNodeOK DEF IInv

LEMMA ReceivePullResultOK ==
  ASSUME IInv, NEW f, ReceivePullResult(f)
  PROVE  NodeOK(node') /\ pullResults' \in Seq(PullResult) /\ Len(pullResults') <= 1
<1>1. /\ pullResults \in Seq(PullResult) /\ Len(pullResults) <= 1 /\ pullResults # <<>>
      /\ certs.version \in Nat
  BY DEF IInv, TypeOK, ReceivePullResult
<1>2. /\ Head(pullResults) \in PullResult
      /\ Tail(pullResults) \in Seq(PullResult) /\ Len(Tail(pullResults)) <= 1
  BY <1>1, TailOK
<1>3. IsPullResult(Head(pullResults))
  BY <1>2 DEF IsPullResult, PullResult
<1> QED BY <1>1, <1>2, <1>3, ApplyPullResultOK DEF ReceivePullResult, IInv

LEMMA ReceiveWSEventOK ==
  ASSUME IInv, NEW f, ReceiveWSEvent(f)
  PROVE  NodeOK(node') /\ wsEvents' \in Seq(Event) /\ Len(wsEvents') <= EventCap
<1>1. /\ wsEvents \in Seq(Event) /\ Len(wsEvents) <= EventCap /\ wsEvents # <<>>
      /\ certs.version \in Nat /\ EventCap \in Nat
  BY CapsAssumption DEF IInv, TypeOK, ReceiveWSEvent
<1>2. /\ Head(wsEvents) \in Event
      /\ Tail(wsEvents) \in Seq(Event) /\ Len(Tail(wsEvents)) <= EventCap
  BY <1>1, TailOK
<1>3. IsEvent(Head(wsEvents))
  BY <1>2 DEF IsEvent, Event
<1> QED BY <1>1, <1>2, <1>3, HandleWSEventOK DEF ReceiveWSEvent, IInv

LEMMA KernelStepOK ==
  ASSUME IInv, KernelStep
  PROVE  IInv'
<1>1. PICK f \in (IF budget["kernel"] = 0 THEN {NoFaults} ELSE Faults) :
        /\ budget' = IF f = NoFaults THEN budget
                     ELSE [budget EXCEPT !["kernel"] = @ - 1, !["failed"] = @ + 1]
        /\ BootRest(f) \/ ReceivePullResult(f) \/ ReceiveWSEvent(f)
  BY DEF KernelStep
<1>2. budget \in [BudgetKinds -> Nat] /\ (f = NoFaults \/ budget["kernel"] > 0)
  BY <1>1 DEF IInv, TypeOK, BudgetKinds
<1>3. budget' \in [BudgetKinds -> Nat]
  BY <1>1, <1>2 DEF BudgetKinds
<1>5. CASE BootRest(f)
  <2>1. NodeOK(node') /\ phase' \in {"loop", "failed"} /\ etag' \in Configs
    BY <1>5, BootRestOK
  <2> QED BY <1>3, <1>5, <2>1 DEF BootRest, IInv, TypeOK, NodeOK
<1>6. CASE ReceivePullResult(f)
  <2>1. NodeOK(node') /\ pullResults' \in Seq(PullResult) /\ Len(pullResults') <= 1
    BY <1>6, ReceivePullResultOK
  <2> QED BY <1>3, <1>6, <2>1 DEF ReceivePullResult, IInv, TypeOK, NodeOK
<1>7. CASE ReceiveWSEvent(f)
  <2>1. NodeOK(node') /\ wsEvents' \in Seq(Event) /\ Len(wsEvents') <= EventCap
    BY <1>7, ReceiveWSEventOK
  <2> QED BY <1>3, <1>7, <2>1 DEF ReceiveWSEvent, IInv, TypeOK, NodeOK
<1> QED BY <1>1, <1>5, <1>6, <1>7

LEMMA BootAndShutdownOK ==
  ASSUME IInv, BootFails \/ BootWs \/ Shutdown
  PROVE  IInv'
<1>1. CASE BootFails
  <2>1. budget' \in [BudgetKinds -> Nat]
    BY <1>1, SpendOK DEF BootFails, IInv, TypeOK, BudgetKinds
  <2> QED BY <1>1, <2>1 DEF BootFails, IInv, TypeOK
<1>2. CASE BootWs
  BY <1>2 DEF BootWs, IInv, TypeOK
<1>3. CASE Shutdown
  <2>1. KernelOK(Stop(node.k)) /\ Stop(node.k).type = node.k.type /\ ~Stop(node.k).running
    BY StopType DEF IInv, NodeOK
  <2>2. NodeOK(node')
    BY <1>3, <2>1, KernelSwapOK DEF Shutdown, IInv
  <2>3. pull' \in Pull
    BY <1>3, IdlePullType DEF Shutdown
  <2>4. /\ pullResults' \in Seq(PullResult) /\ Len(pullResults') <= 1
        /\ wsEvents' \in Seq(Event) /\ Len(wsEvents') <= EventCap
        /\ wsStatusCh' \in Seq(Status) /\ Len(wsStatusCh') <= StatusCap
    BY <1>3, CapsAssumption DEF Shutdown
  <2> QED BY <1>3, <2>2, <2>3, <2>4 DEF Shutdown, IInv, TypeOK, NodeOK, NoWs
<1> QED BY <1>1, <1>2, <1>3

\* What a trigger of pullViaAPIAsync leaves behind.
LEMMA PullTriggerOK ==
  ASSUME IInv, NEW p \in {pull, RequestWSResync(pull)}, StartPull(PullViaAPI(p))
  PROVE  pull' \in Pull /\ certs' \in [version : Nat, renewed : BOOLEAN]
<1>1. /\ pull \in Pull /\ node.cfg \in Configs \cup {NoConfig}
      /\ certs \in [version : Nat, renewed : BOOLEAN]
  BY DEF IInv, TypeOK, Node
<1>2. p \in Pull
  BY <1>1, PullViaAPIType DEF RequestWSResync
<1>3. PullViaAPI(p) \in Pull
  BY <1>1, <1>2, PullViaAPIType
<1> QED BY <1>1, <1>3, StartPullType

LEMMA StatusLoopOK ==
  ASSUME IInv, ReceiveWSStatus \/ PullTick \/ WSDiscovery
  PROVE  IInv'
<1>1. CASE ReceiveWSStatus
  <2> DEFINE s == Head(wsStatusCh)
  <2>1. /\ wsStatusCh \in Seq(Status) /\ Len(wsStatusCh) <= StatusCap /\ wsStatusCh # <<>>
        /\ StatusCap \in Nat
    BY <1>1, CapsAssumption DEF IInv, TypeOK, ReceiveWSStatus
  <2>2. s \in Status /\ wsStatusCh' \in Seq(Status) /\ Len(wsStatusCh') <= StatusCap
    BY <1>1, <2>1, TailOK DEF ReceiveWSStatus
  <2>3. pull' \in Pull /\ certs' \in [version : Nat, renewed : BOOLEAN]
    BY <1>1, PullTriggerOK DEF ReceiveWSStatus
  <2>4. NodeOK(node')
    <3>1. /\ KernelOK(ClearGlobalDevices(node.k))
          /\ ClearGlobalDevices(node.k).type = node.k.type
      BY DevicesType DEF IInv, NodeOK
    <3>2. ClearGlobalDevices(node.k).running = node.k.running
      BY DEF ClearGlobalDevices, IInv, NodeOK, KernelOK, Kernel
    <3>3. NodeOK([node EXCEPT !.k = ClearGlobalDevices(node.k)])
      BY <3>1, <3>2, KernelSwapOK DEF IInv, NodeOK
    <3>4. node' \in {node, [node EXCEPT !.k = ClearGlobalDevices(node.k)]}
      BY <1>1 DEF ReceiveWSStatus
    <3> QED BY <3>3, <3>4 DEF IInv
  <2>5. wsResyncPending' \in BOOLEAN /\ ws' \in [client : BOOLEAN, conn : BOOLEAN, down : BOOLEAN]
    BY <1>1, <2>2 DEF ReceiveWSStatus, IInv, TypeOK, Status
  <2> QED BY <1>1, <2>2, <2>3, <2>4, <2>5 DEF ReceiveWSStatus, IInv, TypeOK, NodeOK
<1>2. CASE PullTick
  <2>1. pull' \in Pull /\ certs' \in [version : Nat, renewed : BOOLEAN]
    BY <1>2, PullTriggerOK DEF PullTick
  <2> QED BY <1>2, <2>1 DEF PullTick, IInv, TypeOK
<1>3. CASE WSDiscovery
  <2>1. pull' \in Pull /\ certs' \in [version : Nat, renewed : BOOLEAN]
    BY <1>3, PullTriggerOK DEF WSDiscovery
  <2>2. ws' \in {ws, NoWs, [NoWs EXCEPT !.client = TRUE]}
    BY <1>3 DEF WSDiscovery
  <2>3. wsStatusCh' \in
          {wsStatusCh, OfferStatus(wsStatusCh, [connected |-> FALSE, resync |-> FALSE])}
    BY <1>3 DEF WSDiscovery
  <2>4. [connected |-> FALSE, resync |-> FALSE] \in Status
    BY DEF Status
  <2>5. wsStatusCh' \in Seq(Status) /\ Len(wsStatusCh') <= StatusCap
    BY <2>3, <2>4, OfferStatusOK DEF IInv, TypeOK
  <2>6. ws' \in [client : BOOLEAN, conn : BOOLEAN, down : BOOLEAN]
    <3>1. NoWs \in [client : BOOLEAN, conn : BOOLEAN, down : BOOLEAN]
      BY DEF NoWs
    <3>2. [NoWs EXCEPT !.client = TRUE] \in [client : BOOLEAN, conn : BOOLEAN, down : BOOLEAN]
      BY DEF NoWs
    <3> QED BY <2>2, <3>1, <3>2 DEF IInv, TypeOK
  <2> QED BY <1>3, <2>1, <2>5, <2>6 DEF WSDiscovery, IInv, TypeOK
<1> QED BY <1>1, <1>2, <1>3

LEMMA PollFailsOK ==
  ASSUME IInv, PollFails
  PROVE  pull' \in Pull /\ etag' = etag
<1>1. pull \in Pull /\ pull.skip \in Nat /\ pull.attempt \in 1 .. PollAttempts
  BY DEF IInv, TypeOK, Pull
<1>2. IdlePull(OnFailure(pull.skip)) \in Pull
  BY <1>1, OnFailureType, IdlePullType
<1>3. ASSUME pull.attempt < PollAttempts
      PROVE  [pull EXCEPT !.pc = "config", !.attempt = @ + 1] \in Pull
  <2>1. pull.attempt + 1 \in 1 .. PollAttempts
    BY <1>1, <1>3, CapsAssumption
  <2> QED BY <1>1, <2>1 DEF Pull
<1> QED BY <1>1, <1>2, <1>3 DEF PollFails

\* What is unchanged or spent keeps the budget in order.
LEMMA BudgetOK ==
  ASSUME IInv, UNCHANGED budget \/ \E kind \in {"edits", "trouble"} : Spend(kind, 1)
  PROVE  budget' \in [BudgetKinds -> Nat] /\ budget'["failed"] = budget["failed"]
<1>1. CASE UNCHANGED budget
  BY <1>1 DEF IInv, TypeOK
<1>2. CASE \E kind \in {"edits", "trouble"} : Spend(kind, 1)
  <2>1. PICK kind \in {"edits", "trouble"} : Spend(kind, 1)
    BY <1>2
  <2> QED BY <2>1 DEF Spend, BudgetKinds, IInv, TypeOK
<1> QED BY <1>1, <1>2

LEMMA PullGoroutineOK ==
  ASSUME IInv, PullGoroutine
  PROVE  IInv'
<1>1. pull \in Pull /\ etag \in Configs \cup {NoConfig} /\ panel.cfg \in Configs
      /\ panel.users \in Table
  BY DEF IInv, TypeOK, Panel
<1>2. CASE PollConfig
  <2>1. budget' \in [BudgetKinds -> Nat]
    BY <1>2, BudgetOK DEF PollConfig
  <2>2. pull' \in Pull /\ etag' \in Configs \cup {NoConfig}
    <3>1. CASE PollFails
      BY <1>1, <3>1, PollFailsOK
    <3>2. CASE /\ pull' = [pull EXCEPT !.pc = "users",
                               !.cfg = IF etag = panel.cfg THEN NoConfig ELSE panel.cfg]
               /\ etag' = panel.cfg
      BY <1>1, <3>2 DEF Pull
    <3> QED BY <1>2, <3>1, <3>2 DEF PollConfig
  <2> QED BY <1>2, <2>1, <2>2 DEF PollConfig, PollFrame, IInv, TypeOK
<1>3. CASE PollUsers
  <2>1. budget' \in [BudgetKinds -> Nat]
    BY <1>3, BudgetOK DEF PollUsers
  <2>2. pull' \in Pull /\ etag' = etag
    <3>1. CASE PollFails
      BY <3>1, PollFailsOK
    <3>2. CASE ~PollFails
      <4>1. PICK t \in {panel.users, EmptyTable, Malformed} :
              pull' = [pull EXCEPT !.pc = "send", !.users = t, !.skip = 0]
        BY <1>3, <3>2 DEF PollUsers
      <4>2. t \in Table \cup {Malformed}
        BY <1>1, EmptyTableType
      <4> QED BY <1>1, <1>3, <3>2, <4>1, <4>2 DEF PollUsers, Pull
    <3> QED BY <3>1, <3>2
  <2> QED BY <1>3, <2>1, <2>2 DEF PollUsers, PollFrame, IInv, TypeOK
<1>4. CASE PollSend
  <2> DEFINE r == [cfg   |-> IF pull.cfg = pull.base /\ ~pull.cert THEN NoConfig
                             ELSE pull.cfg,
                   users |-> pull.users, cert |-> pull.cert]
  <2>1. r \in PullResult
    BY <1>1 DEF PullResult, Pull
  <2>2. <<r>> \in Seq(PullResult) /\ Len(<<r>>) = 1
    BY <2>1
  <2>3. pullResults' = <<r>>
    BY <1>4 DEF PollSend
  <2>4. pull' \in Pull
    BY <1>1, <1>4 DEF PollSend, Pull
  <2> HIDE DEF r
  <2> QED BY <1>4, <2>2, <2>3, <2>4 DEF PollSend, PollFrame, IInv, TypeOK
<1>5. CASE PollDone
  <2>1. pull' \in Pull
    BY <1>1, <1>5, IdlePullType DEF PollDone, Pull
  <2> QED BY <1>5, <2>1 DEF PollDone, PollFrame, IInv, TypeOK
<1> QED BY <1>2, <1>3, <1>4, <1>5 DEF PullGoroutine

LEMMA WorldOK ==
  ASSUME IInv, World
  PROVE  IInv'
<1>1. /\ EventsOK /\ StatusOK /\ panel \in Panel
      /\ ws \in [client : BOOLEAN, conn : BOOLEAN, down : BOOLEAN]
      /\ certs \in [version : Nat, renewed : BOOLEAN]
  BY DEF IInv, TypeOK, EventsOK, StatusOK
<1>2. \A s \in BOOLEAN : [connected |-> s, resync |-> FALSE] \in Status
  BY DEF Status
<1>3. CASE WSConnect
  <2>1. StatusOK'
    BY <1>1, <1>2, <1>3, OfferStatusOK DEF WSConnect, StatusOK
  <2>2. ws' \in [client : BOOLEAN, conn : BOOLEAN, down : BOOLEAN]
    BY <1>1, <1>3 DEF WSConnect
  <2> QED BY <1>3, <2>1, <2>2 DEF WSConnect, WorldFrame, IInv, TypeOK, StatusOK
<1>4. CASE WSDisconnect
  <2>1. StatusOK'
    BY <1>1, <1>2, <1>4, OfferStatusOK DEF WSDisconnect, StatusOK
  <2>2. ws' \in [client : BOOLEAN, conn : BOOLEAN, down : BOOLEAN]
    BY <1>1, <1>4 DEF WSDisconnect
  <2>3. budget' \in [BudgetKinds -> Nat]
    BY <1>4, BudgetOK DEF WSDisconnect
  <2> QED BY <1>4, <2>1, <2>2, <2>3 DEF WSDisconnect, WorldFrame, IInv, TypeOK, StatusOK
<1>5. ASSUME NEW c \in Configs, PanelSetsConfig(c)
      PROVE  IInv'
  <2>1. [type |-> "config", cfg |-> c] \in Event
    BY <1>5 DEF Event
  <2>2. EventsOK' /\ StatusOK'
    BY <1>1, <1>5, <2>1, PushOK DEF PanelSetsConfig
  <2>3. budget' \in [BudgetKinds -> Nat]
    BY <1>5, BudgetOK DEF PanelSetsConfig
  <2>4. panel' \in Panel
    BY <1>1, <1>5 DEF PanelSetsConfig, Panel
  <2> QED BY <1>5, <2>2, <2>3, <2>4
      DEF PanelSetsConfig, WorldFrame, IInv, TypeOK, StatusOK, EventsOK
<1>6. ASSUME NEW t \in PanelTables, PanelSetsUsers(t)
      PROVE  IInv'
  <2>1. t \in Table /\ panel.users \in Table
    BY <1>1, <1>6, CapsAssumption DEF Panel
  <2>2. PushesFor(panel.users, t) \subseteq Event
    BY <2>1, PushesForOK
  <2>3. EventsOK' /\ StatusOK'
    <3>1. CASE \E e \in PushesFor(panel.users, t) : Push(e)
      BY <1>1, <2>2, <3>1, PushOK
    <3>2. CASE UNCHANGED <<wsEvents, wsStatusCh>>
      BY <1>1, <3>2 DEF EventsOK, StatusOK
    <3> QED BY <1>6, <3>1, <3>2 DEF PanelSetsUsers
  <2>4. budget' \in [BudgetKinds -> Nat]
    BY <1>6, BudgetOK DEF PanelSetsUsers
  <2>5. panel' \in Panel
    BY <1>1, <1>6, <2>1 DEF PanelSetsUsers, Panel
  <2> QED BY <1>6, <2>3, <2>4, <2>5
      DEF PanelSetsUsers, WorldFrame, IInv, TypeOK, StatusOK, EventsOK
<1>7. CASE PanelPushesDevices
  <2>1. [type |-> "devices"] \in Event
    BY DEF Event
  <2>2. EventsOK' /\ StatusOK'
    BY <1>1, <1>7, <2>1, PushOK DEF PanelPushesDevices
  <2>3. budget' \in [BudgetKinds -> Nat]
    BY <1>7, BudgetOK DEF PanelPushesDevices
  <2> QED BY <1>7, <2>2, <2>3
      DEF PanelPushesDevices, WorldFrame, IInv, TypeOK, StatusOK, EventsOK
<1>8. CASE PanelTogglesWs
  <2>1. budget' \in [BudgetKinds -> Nat]
    BY <1>8, BudgetOK DEF PanelTogglesWs
  <2>2. panel' \in Panel
    BY <1>1, <1>8 DEF PanelTogglesWs, Panel
  <2> QED BY <1>8, <2>1, <2>2 DEF PanelTogglesWs, WorldFrame, IInv, TypeOK
<1>9. CASE CertRenews
  <2>1. budget' \in [BudgetKinds -> Nat]
    BY <1>9, BudgetOK DEF CertRenews
  <2>2. certs' \in [version : Nat, renewed : BOOLEAN]
    BY <1>1, <1>9 DEF CertRenews
  <2> QED BY <1>9, <2>1, <2>2 DEF CertRenews, WorldFrame, IInv, TypeOK
<1>10. CASE ReconcileFallsDue
  <2>1. NodeOK(node')
    BY <1>10 DEF ReconcileFallsDue, IInv, NodeOK, Node
  <2> QED BY <1>10, <2>1 DEF ReconcileFallsDue, IInv, TypeOK, NodeOK
<1> QED BY <1>3, <1>4, <1>5, <1>6, <1>7, <1>8, <1>9, <1>10 DEF World

LEMMA StepOK ==
  ASSUME IInv, [Next]_vars
  PROVE  IInv'
<1>1. CASE KernelStep
  BY <1>1, KernelStepOK
<1>2. CASE BootFails \/ BootWs \/ Shutdown
  BY <1>2, BootAndShutdownOK
<1>3. CASE ReceiveWSStatus \/ PullTick \/ WSDiscovery
  BY <1>3, StatusLoopOK
<1>4. CASE PullGoroutine
  BY <1>4, PullGoroutineOK
<1>5. CASE World
  BY <1>5, WorldOK
<1>6. CASE UNCHANGED vars
  BY <1>6 DEF vars, IInv, TypeOK
<1> QED BY <1>1, <1>2, <1>3, <1>4, <1>5, <1>6 DEF Next

----------------------------------------------------------------------------
\* In every reachable state of the node service each variable has its type and the
\* channels of service.go stay within their capacities.
THEOREM TypeCorrect == Spec => []TypeOK
<1>1. IInv => TypeOK
  BY DEF IInv
<1> QED BY InitOK, StepOK, <1>1, PTL DEF Spec

\* Whatever kernel calls, polls and connections fail, the kernel object is of the type
\* the adopted config needs, and a running one runs a config of its type
\* (ensureKernelType, startKernel).
THEOREM KernelSuits == Spec => []KernelSuitsConfig
<1>1. IInv => KernelSuitsConfig
  BY NoConfigAssumption DEF IInv, KernelSuitsConfig, NodeOK, KernelOK
<1> QED BY InitOK, StepOK, <1>1, PTL DEF Spec

----------------------------------------------------------------------------
(* The backoff.                                                            *)

\* A pull runs only when the backoff has been counted down.
BackoffInv ==
  /\ pull.skip \in {0, 1}
  /\ pull.pc \in {"config", "users"} => pull.skip = 0

LEMMA PullViaAPIBackoff ==
  ASSUME NEW p \in Pull, p.skip \in {0, 1},
         p.pc \in {"config", "users"} => p.skip = 0
  PROVE  LET q == PullViaAPI(p)
         IN q.skip \in {0, 1} /\ (q.pc \in {"config", "users"} => q.skip = 0)
<1>1. CASE p.pc # "idle"
  BY <1>1 DEF PullViaAPI
<1>2. CASE p.pc = "idle" /\ p.skip > 0
  BY <1>2 DEF PullViaAPI, Pull
<1>3. CASE p.pc = "idle" /\ ~(p.skip > 0)
  BY <1>3 DEF PullViaAPI, Pull
<1> QED BY <1>1, <1>2, <1>3

LEMMA BackoffStep ==
  ASSUME IInv, BackoffInv, [Next]_vars
  PROVE  BackoffInv'
<1>1. /\ pull \in Pull /\ node.cfg \in Configs \cup {NoConfig}
      /\ certs \in [version : Nat, renewed : BOOLEAN]
  BY DEF IInv, TypeOK, Node
<1>2. CASE UNCHANGED pull
  BY <1>2 DEF BackoffInv
<1>3. ASSUME NEW p \in {pull, RequestWSResync(pull)}, StartPull(PullViaAPI(p))
      PROVE  BackoffInv'
  <2>1. /\ p \in Pull /\ p.skip \in {0, 1}
        /\ p.pc \in {"config", "users"} => p.skip = 0
    BY <1>1, PullViaAPIType, PullViaAPIBackoff DEF RequestWSResync, BackoffInv
  <2> QED BY <1>3, <2>1, PullViaAPIBackoff DEF StartPull, BackoffInv
<1>4. CASE PullTick \/ ReceiveWSStatus \/ WSDiscovery
  BY <1>3, <1>4 DEF PullTick, ReceiveWSStatus, WSDiscovery
<1>5. CASE Shutdown
  BY <1>5 DEF Shutdown, IdlePull, BackoffInv
<1>6. ASSUME PollFails, pull.pc \in {"config", "users"}
      PROVE  BackoffInv'
  BY <1>1, <1>6 DEF PollFails, IdlePull, OnFailure, BackoffInv, Pull
<1>7. CASE PollConfig
  <2>1. CASE PollFails
    BY <1>6, <1>7, <2>1 DEF PollConfig
  <2>2. CASE ~PollFails
    BY <1>1, <1>7, <2>2 DEF PollConfig, BackoffInv, Pull
  <2> QED BY <2>1, <2>2
<1>8. CASE PollUsers
  <2>1. CASE PollFails
    BY <1>6, <1>8, <2>1 DEF PollUsers
  <2>2. CASE ~PollFails
    BY <1>1, <1>8, <2>2, ZenonT(30) DEF PollUsers, BackoffInv, Pull
  <2> QED BY <2>1, <2>2
<1>9. CASE PollSend
  BY <1>1, <1>9 DEF PollSend, BackoffInv, Pull
<1>10. CASE PollDone
  BY <1>10 DEF PollDone, IdlePull, BackoffInv
<1>11. CASE BootFails \/ BootWs
  BY <1>2, <1>11 DEF BootFails, BootWs
<1>12. CASE KernelStep
  BY <1>2, <1>12 DEF KernelStep, BootRest, ReceivePullResult, ReceiveWSEvent
<1>13. CASE World
  BY <1>2, <1>13
     DEF World, WSConnect, WSDisconnect, PanelSetsConfig, PanelSetsUsers,
         PanelPushesDevices, PanelTogglesWs, CertRenews, ReconcileFallsDue, WorldFrame
<1> QED BY <1>2, <1>4, <1>5, <1>7, <1>8, <1>9, <1>10, <1>11, <1>12, <1>13
        DEF Next, PullGoroutine, vars

\* Whatever fails and however often, the backoff is never more than one trigger: shouldSkip
\* counts it down to zero before a pull can fail again, so the doubling of onFailure,
\* "simple exponential backoff for API failures" (service.go:111), is never taken.  The
\* run backoff shows one such pair of failures; here it is every pair.
THEOREM BackoffIsFlat == Spec => [](pull.skip \in {0, 1})
<1>1. Init => BackoffInv
  BY DEF Init, IdlePull, BackoffInv
<1>2. BackoffInv => pull.skip \in {0, 1}
  BY DEF BackoffInv
<1> QED BY InitOK, StepOK, <1>1, BackoffStep, <1>2, PTL DEF Spec
=============================================================================
