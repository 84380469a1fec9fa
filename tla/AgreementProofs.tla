--------------------------- MODULE AgreementProofs ---------------------------
(***************************************************************************)
(* Theorems about what the node serves: the user table never collapses     *)
(* except by a remove, and memory and inbound agree while no kernel call   *)
(* fails.                                                                  *)
(***************************************************************************)
EXTENDS NodeProofs, FiniteSetTheorems

(* Credentials of tables.                                                  *)

LEMMA CredsDomain ==
  ASSUME NEW s, NEW t, Creds(s) = Creds(t)
  PROVE  DOMAIN s = DOMAIN t /\ \A i \in DOMAIN t : s[i].uuid = t[i].uuid
BY DEF Creds

LEMMA CredsEqual ==
  ASSUME NEW s, NEW t, DOMAIN s = DOMAIN t, \A i \in DOMAIN t : s[i].uuid = t[i].uuid
  PROVE  Creds(s) = Creds(t)
BY DEF Creds

\* Taking the same ids out of two tables with the same credentials.
LEMMA SubtractCreds ==
  ASSUME NEW s, NEW t, Creds(s) = Creds(t), NEW S
  PROVE  Creds(SubtractUsers(s, S)) = Creds(SubtractUsers(t, S))
<1>1. DOMAIN s = DOMAIN t /\ \A i \in DOMAIN t : s[i].uuid = t[i].uuid
  BY CredsDomain
<1>2. /\ DOMAIN SubtractUsers(s, S) = DOMAIN t \ S
      /\ DOMAIN SubtractUsers(t, S) = DOMAIN t \ S
      /\ \A i \in DOMAIN t \ S : /\ SubtractUsers(s, S)[i] = s[i]
                                 /\ SubtractUsers(t, S)[i] = t[i]
  BY <1>1 DEF SubtractUsers, Restrict
<1> QED BY <1>1, <1>2, CredsEqual

LEMMA SubtractNothing ==
  ASSUME NEW t, NEW S, S \cap DOMAIN t = {}
  PROVE  Creds(SubtractUsers(t, S)) = Creds(t)
<1>1. /\ DOMAIN SubtractUsers(t, S) = DOMAIN t
      /\ \A i \in DOMAIN t : SubtractUsers(t, S)[i] = t[i]
  BY DEF SubtractUsers, Restrict
<1> QED BY <1>1, CredsEqual

\* What mergeUsers returns, id by id.
MergeShape(a, b) ==
  /\ DOMAIN MergeUsers(a, b) = DOMAIN a \cup DOMAIN b
  /\ \A i \in DOMAIN a \cup DOMAIN b :
       MergeUsers(a, b)[i] = IF i \in DOMAIN b THEN b[i] ELSE a[i]

\* When no common id has two credentials, merging in either order, or a table with the
\* same credentials, gives the same credentials.
LEMMA MergeCreds ==
  ASSUME NEW s, NEW t, Creds(s) = Creds(t), NEW d, Recredentialed(t, d) = {}
  PROVE  /\ Creds(MergeUsers(s, d)) = Creds(MergeUsers(t, d))
         /\ Creds(MergeUsers(d, s)) = Creds(MergeUsers(t, d))
         /\ DOMAIN d \subseteq DOMAIN t => Creds(MergeUsers(t, d)) = Creds(t)
<1>1. DOMAIN s = DOMAIN t /\ \A i \in DOMAIN t : s[i].uuid = t[i].uuid
  BY CredsDomain
<1>2. \A i \in DOMAIN t \cap DOMAIN d : t[i].uuid = d[i].uuid
  BY DEF Recredentialed
<1>3. /\ MergeShape(t, d) /\ MergeShape(s, d) /\ MergeShape(d, s)
  BY DEF MergeShape, MergeUsers
<1>4. Creds(MergeUsers(s, d)) = Creds(MergeUsers(t, d))
  <2>1. DOMAIN MergeUsers(s, d) = DOMAIN MergeUsers(t, d)
    BY <1>1, <1>3 DEF MergeShape
  <2>2. ASSUME NEW i \in DOMAIN MergeUsers(t, d)
        PROVE  MergeUsers(s, d)[i].uuid = MergeUsers(t, d)[i].uuid
    BY <1>1, <1>3 DEF MergeShape
  <2> QED BY <2>1, <2>2, CredsEqual
<1>5. Creds(MergeUsers(d, s)) = Creds(MergeUsers(t, d))
  <2>1. DOMAIN MergeUsers(d, s) = DOMAIN MergeUsers(t, d)
    BY <1>1, <1>3 DEF MergeShape
  <2>2. ASSUME NEW i \in DOMAIN MergeUsers(t, d)
        PROVE  MergeUsers(d, s)[i].uuid = MergeUsers(t, d)[i].uuid
    BY <1>1, <1>2, <1>3 DEF MergeShape
  <2> QED BY <2>1, <2>2, CredsEqual
<1>6. ASSUME DOMAIN d \subseteq DOMAIN t
      PROVE  Creds(MergeUsers(t, d)) = Creds(t)
  <2>1. DOMAIN MergeUsers(t, d) = DOMAIN t
    BY <1>3, <1>6 DEF MergeShape
  <2>2. \A i \in DOMAIN t : MergeUsers(t, d)[i].uuid = t[i].uuid
    BY <1>2, <1>3, <1>6 DEF MergeShape
  <2> QED BY <2>1, <2>2, CredsEqual
<1> QED BY <1>4, <1>5, <1>6

\* Evicting the re-credentialed users first changes nothing about the merged table, and
\* leaves no id with two credentials.
LEMMA EvictThenMerge ==
  ASSUME NEW t, NEW d
  PROVE  LET rest == SubtractUsers(t, Recredentialed(t, d))
         IN /\ MergeUsers(rest, d) = MergeUsers(t, d)
            /\ Recredentialed(rest, d) = {}
<1> DEFINE changed == Recredentialed(t, d)
           rest    == SubtractUsers(t, changed)
<1>1. /\ DOMAIN rest = DOMAIN t \ changed
      /\ \A i \in DOMAIN rest : rest[i] = t[i]
  BY DEF SubtractUsers, Restrict
<1>2. changed \subseteq DOMAIN d
  BY DEF Recredentialed
<1>3. DOMAIN rest \cup DOMAIN d = DOMAIN t \cup DOMAIN d
  BY <1>1, <1>2
<1>4. \A i \in DOMAIN t \cup DOMAIN d :
        (IF i \in DOMAIN d THEN d[i] ELSE rest[i]) = (IF i \in DOMAIN d THEN d[i] ELSE t[i])
  BY <1>1, <1>2
<1>5. MergeUsers(rest, d) = MergeUsers(t, d)
  BY <1>3, <1>4 DEF MergeUsers
<1>6. Recredentialed(rest, d) = {}
  BY <1>1 DEF Recredentialed
<1> QED BY <1>5, <1>6

----------------------------------------------------------------------------
(* Kernel calls that succeed.                                              *)

\* Kernel k runs config c and, unless it is frozen, authenticates exactly the users of t.
Serving(k, c, t) ==
  /\ k.running /\ k.spec = c /\ Creds(k.users) = Creds(t)
  /\ ~Frozen(k) => Serves(k) = Creds(t)

LEMMA StartServes ==
  ASSUME NEW k, KernelOK(k), NEW c \in Configs, NEW t, NEW cert
  PROVE  LET s == Start(k, c, t, cert, "ok") IN s.ok /\ Serving(s.k, c, t)
<1>1. ProtocolOf[c] \in Protocols
  BY ProtocolOfAssumption
<1>2. OnlyInbound(ProtocolOf[c], t)[ProtocolOf[c]] = Creds(t)
  BY <1>1 DEF OnlyInbound, NoInbounds
<1> DEFINE j == [k EXCEPT !.running = TRUE, !.spec = c, !.users = t,
                          !.inbounds = OnlyInbound(ProtocolOf[c], t),
                          !.tls = cert, !.devices = FALSE]
<1>3. Start(k, c, t, cert, "ok") = Result(j, TRUE)
  BY DEF Start
<1>4. j.running /\ j.spec = c /\ j.users = t /\ j.inbounds = OnlyInbound(ProtocolOf[c], t)
  BY DEF KernelOK, Kernel
<1> HIDE DEF j
<1> QED BY <1>2, <1>3, <1>4 DEF Result, Serving, Serves

LEMMA SwapInboundServes ==
  ASSUME NEW k, KernelOK(k), k.running, NEW c \in Configs, NEW t
  PROVE  LET s == SwapInbound(k, c, t, "ok") IN s.ok /\ Serving(s.k, c, t)
<1>1. ProtocolOf[c] \in Protocols
  BY ProtocolOfAssumption
<1> DEFINE j == [k EXCEPT !.spec = c, !.users = t, !.inbounds[ProtocolOf[c]] = Creds(t)]
<1>2. SwapInbound(k, c, t, "ok") = Result(j, TRUE)
  BY DEF SwapInbound
<1>3. j.running /\ j.spec = c /\ j.users = t /\ j.inbounds[ProtocolOf[c]] = Creds(t)
  BY <1>1 DEF KernelOK, Kernel
<1> HIDE DEF j
<1> QED BY <1>2, <1>3 DEF Result, Serving, Serves

\* Of a frozen inbound, which keeps its users, Serving claims nothing.
LEMMA HotSwapServes ==
  ASSUME NEW k, KernelOK(k), k.running, NEW t
  PROVE  LET s == HotSwap(k, t, "ok") IN s.ok /\ Serving(s.k, k.spec, t)
<1>1. CASE Frozen(k) /\ Serves(k) # Nobody
  <2> DEFINE j == [k EXCEPT !.users = t]
  <2>1. HotSwap(k, t, "ok") = Result(j, TRUE)
    BY <1>1 DEF HotSwap
  <2>2. j.running /\ j.spec = k.spec /\ j.users = t /\ j.type = k.type
    BY DEF KernelOK, Kernel
  <2> HIDE DEF j
  <2> QED BY <1>1, <2>1, <2>2 DEF Result, Serving, Frozen
<1>2. CASE ~(Frozen(k) /\ Serves(k) # Nobody)
  <2>1. HotSwap(k, t, "ok") = SwapInbound(k, k.spec, t, "ok") /\ k.spec \in Configs
    BY <1>2 DEF HotSwap, KernelOK
  <2> QED BY <2>1, SwapInboundServes
<1> QED BY <1>1, <1>2

LEMMA ReplaceServes ==
  ASSUME NEW k, KernelOK(k), k.running, NEW t
  PROVE  LET s == ReplaceUsers(k, t, "ok") IN s.ok /\ Serving(s.k, k.spec, t)
<1>1. k.spec \in Configs
  BY DEF KernelOK
<1> QED BY <1>1, StartServes, HotSwapServes DEF ReplaceUsers

LEMMA UpdateServes ==
  ASSUME NEW k, KernelOK(k), k.running, ~Frozen(k) => Serves(k) = Creds(k.users), NEW t
  PROVE  LET s == UpdateUsers(k, t, "ok") IN s.ok /\ Serving(s.k, k.spec, t)
<1>1. CASE NoUserDiff(k.users, t)
  <2> DEFINE j == [k EXCEPT !.users = t]
  <2>1. UpdateUsers(k, t, "ok") = Result(j, TRUE)
    BY <1>1 DEF UpdateUsers
  <2>2. /\ j.running /\ j.spec = k.spec /\ j.users = t /\ j.inbounds = k.inbounds
        /\ j.type = k.type /\ Creds(k.users) = Creds(t)
    BY <1>1 DEF KernelOK, Kernel, NoUserDiff
  <2> HIDE DEF j
  <2> QED BY <2>1, <2>2 DEF Result, Serving, Serves, Frozen
<1>2. CASE ~NoUserDiff(k.users, t)
  BY <1>2, ReplaceServes DEF UpdateUsers
<1> QED BY <1>1, <1>2

\* A removal leaves the rest served, or (xray, nobody left) stops the kernel.
LEMMA RemoveServes ==
  ASSUME NEW k, KernelOK(k), NEW t, Serving(k, k.spec, t), NEW S
  PROVE  LET s == RemoveUsers(k, S, "ok")
         IN s.ok /\ (s.k.running => Serving(s.k, k.spec, SubtractUsers(t, S)))
<1> DEFINE kept == SubtractUsers(k.users, S)
<1>1. Creds(kept) = Creds(SubtractUsers(t, S))
  BY SubtractCreds DEF Serving
<1>2. CASE S \cap DOMAIN k.users = {}
  <2>1. DOMAIN k.users = DOMAIN t
    BY CredsDomain DEF Serving
  <2>2. Creds(SubtractUsers(t, S)) = Creds(t)
    BY <1>2, <2>1, SubtractNothing
  <2>3. RemoveUsers(k, S, "ok") = Result(k, TRUE)
    BY <1>2 DEF RemoveUsers, Serving
  <2> QED BY <2>2, <2>3 DEF Result, Serving
<1>3. CASE S \cap DOMAIN k.users # {} /\ k.type = "xray" /\ DOMAIN kept = {}
  <2>1. RemoveUsers(k, S, "ok") = Result(Stop(k), TRUE)
    BY <1>3 DEF RemoveUsers, Serving
  <2> QED BY <2>1, StopType DEF Result
<1>4. CASE S \cap DOMAIN k.users # {} /\ ~(k.type = "xray" /\ DOMAIN kept = {})
  <2>1. RemoveUsers(k, S, "ok") = ReplaceUsers(k, kept, "ok")
    BY <1>4 DEF RemoveUsers, Serving
  <2>2. LET s == ReplaceUsers(k, kept, "ok") IN s.ok /\ Serving(s.k, k.spec, kept)
    BY ReplaceServes DEF Serving
  <2> QED BY <1>1, <2>1, <2>2 DEF Serving
<1> QED BY <1>2, <1>3, <1>4

LEMMA AddServes ==
  ASSUME NEW k, KernelOK(k), NEW t, Serving(k, k.spec, t), NEW d, Recredentialed(t, d) = {}
  PROVE  LET s == AddUsers(k, d, "ok")
         IN s.ok /\ Serving(s.k, k.spec, MergeUsers(t, d))
<1>1. /\ Creds(MergeUsers(k.users, d)) = Creds(MergeUsers(t, d))
      /\ Creds(MergeUsers(d, k.users)) = Creds(MergeUsers(t, d))
      /\ DOMAIN d \subseteq DOMAIN t => Creds(MergeUsers(t, d)) = Creds(t)
      /\ DOMAIN k.users = DOMAIN t
  BY MergeCreds, CredsDomain DEF Serving
<1>2. CASE DOMAIN d \subseteq DOMAIN k.users
  <2> DEFINE j == IF k.type = "xray" THEN [k EXCEPT !.users = MergeUsers(k.users, d)] ELSE k
  <2>1. AddUsers(k, d, "ok") = Result(j, TRUE)
    BY <1>2 DEF AddUsers, Serving
  <2>2. /\ j.running /\ j.spec = k.spec /\ j.inbounds = k.inbounds /\ j.type = k.type
        /\ j.users \in {k.users, MergeUsers(k.users, d)}
    BY DEF KernelOK, Kernel, Serving
  <2> HIDE DEF j
  <2> QED BY <1>1, <1>2, <2>1, <2>2 DEF Result, Serving, Serves, Frozen
<1>3. CASE ~(DOMAIN d \subseteq DOMAIN k.users)
  <2> DEFINE target == IF k.type = "xray" THEN MergeUsers(k.users, d)
                                          ELSE MergeUsers(d, k.users)
  <2>1. AddUsers(k, d, "ok") = ReplaceUsers(k, target, "ok")
    BY <1>3 DEF AddUsers, Serving
  <2>2. LET s == ReplaceUsers(k, target, "ok") IN s.ok /\ Serving(s.k, k.spec, target)
    BY ReplaceServes DEF Serving
  <2>3. Creds(target) = Creds(MergeUsers(t, d))
    BY <1>1
  <2> HIDE DEF target
  <2> QED BY <2>1, <2>2, <2>3 DEF Serving
<1> QED BY <1>2, <1>3

\* A reload needs no earlier agreement.
LEMMA ReloadServes ==
  ASSUME NEW k, KernelOK(k), k.running, NEW c \in Configs, NEW t, NEW cert
  PROVE  LET s == Reload(k, c, t, cert, "ok") IN s.ok /\ Serving(s.k, c, t)
<1>1. k.type \in KernelTypes
  BY DEF KernelOK, Kernel
<1>2. CASE k.type = "xray" /\ XrayUnchanged(k, c, t, cert)
  <2> DEFINE j == [k EXCEPT !.users = t]
  <2>1. Reload(k, c, t, cert, "ok") = Result(j, TRUE)
    BY <1>2 DEF Reload
  <2>2. j.running /\ j.spec = k.spec /\ j.users = t /\ j.inbounds = k.inbounds
    BY DEF KernelOK, Kernel
  <2> HIDE DEF j
  <2> QED BY <1>2, <2>1, <2>2 DEF Result, Serving, Serves, XrayUnchanged
<1>3. CASE k.type = "xray" /\ ~XrayUnchanged(k, c, t, cert)
  BY <1>3, StartServes DEF Reload
<1>4. CASE k.type = "singbox"
  <2> DEFINE swap == IF BoxUnchanged(k, c, t, cert) THEN HotSwap(k, t, "ok")
                                                    ELSE SwapInbound(k, c, t, "ok")
             j    == [swap.k EXCEPT !.tls = cert]
  <2>1. swap.ok /\ Serving(swap.k, c, t)
    BY HotSwapServes, SwapInboundServes DEF BoxUnchanged
  <2>2. Reload(k, c, t, cert, "ok") = Result(j, TRUE)
    BY <1>4, <2>1 DEF Reload
  <2>3. swap.k \in {[k EXCEPT !.users = t],
                    [k EXCEPT !.spec = k.spec, !.users = t,
                              !.inbounds[ProtocolOf[k.spec]] = Creds(t)],
                    [k EXCEPT !.spec = c, !.users = t, !.inbounds[ProtocolOf[c]] = Creds(t)]}
    BY DEF HotSwap, SwapInbound, Result
  <2>4. /\ j.running = swap.k.running /\ j.spec = swap.k.spec /\ j.users = swap.k.users
        /\ j.inbounds = swap.k.inbounds /\ j.type = swap.k.type
    BY <2>3 DEF KernelOK, Kernel
  <2> HIDE DEF swap, j
  <2>5. Serving(j, c, t)
    BY <2>1, <2>4 DEF Serving, Serves, Frozen
  <2> QED BY <2>2, <2>5 DEF Result
<1> QED BY <1>1, <1>2, <1>3, <1>4 DEF KernelTypes

----------------------------------------------------------------------------
(* Handlers in which no kernel call fails.                                 *)

\* A running kernel serves what the service believes it serves.
AgreesWhenRunning(n) == n.k.running => Agreement(n)

LEMMA AgreementIsServing ==
  ASSUME NEW n, n.k.running
  PROVE  Agreement(n) <=> Serving(n.k, n.cfg, n.users)
BY DEF Agreement, Serving

\* Putting a serving kernel and its table in place.
LEMMA ServingInstalled ==
  ASSUME NEW n, NodeOK(n), NEW k, NEW t, k.running => Serving(k, n.cfg, t)
  PROVE  AgreesWhenRunning([n EXCEPT !.users = t, !.k = k])
<1>1. /\ [n EXCEPT !.users = t, !.k = k].k = k
      /\ [n EXCEPT !.users = t, !.k = k].users = t
      /\ [n EXCEPT !.users = t, !.k = k].cfg = n.cfg
  BY DEF NodeOK, Node
<1> QED BY <1>1, AgreementIsServing DEF AgreesWhenRunning

LEMMA StartKernelAgrees ==
  ASSUME NEW n, NodeOK(n), n.cfg \in Configs, NEW t \in Table, NEW cert \in Nat
  PROVE  LET s == StartKernel(n, n.cfg, t, cert, "ok")
         IN s.ok /\ Serving(s.n.k, n.cfg, t) /\ s.n.cfg = n.cfg /\ s.n.users = n.users
BY StartKernelOK, StartServes DEF NodeOK

LEMMA EnsureRunningAgrees ==
  ASSUME NEW n, NodeOK(n), AgreesWhenRunning(n), NEW cert \in Nat
  PROVE  LET s == EnsureRunning(n, cert, "ok")
         IN /\ AgreesWhenRunning(s.n)
            /\ s.ok => Serving(s.n.k, n.cfg, n.users)
<1>1. CASE n.k.running
  BY <1>1, AgreementIsServing DEF EnsureRunning, Step, AgreesWhenRunning
<1>2. CASE ~n.k.running /\ DOMAIN n.users # {} /\ n.cfg # NoConfig
  <2>1. n.cfg \in Configs /\ n.users \in Table
    BY <1>2 DEF NodeOK, Node
  <2>2. EnsureRunning(n, cert, "ok") = StartKernel(n, n.cfg, n.users, cert, "ok")
    BY <1>2 DEF EnsureRunning
  <2> QED BY <2>1, <2>2, StartKernelAgrees, AgreementIsServing DEF AgreesWhenRunning
<1>3. CASE ~n.k.running /\ ~(DOMAIN n.users # {} /\ n.cfg # NoConfig)
  BY <1>3 DEF EnsureRunning, Step, AgreesWhenRunning
<1> QED BY <1>1, <1>2, <1>3

LEMMA InstallSnapshotAgrees ==
  ASSUME NEW n, NodeOK(n), AgreesWhenRunning(n), NEW t \in Table, NEW cert \in Nat
  PROVE  AgreesWhenRunning(InstallSnapshot(n, t, cert, NoFaults))
<1> DEFINE up     == EnsureRunning(n, cert, "ok")
           update == UpdateUsers(up.n.k, t, "ok")
           after  == [up.n EXCEPT !.k = update.k]
<1>1. NoFaults.start = "ok" /\ NoFaults.apply = "ok"
  BY DEF NoFaults
<1>2. /\ NodeOK(up.n) /\ up.ok \in BOOLEAN /\ up.n.cfg = n.cfg /\ AgreesWhenRunning(up.n)
      /\ up.ok => Serving(up.n.k, n.cfg, n.users)
  BY EnsureRunningOK, EnsureRunningAgrees
<1>3. CASE ~up.ok
  BY <1>1, <1>2, <1>3 DEF InstallSnapshot
<1>4. CASE up.ok
  <2>1. update.ok /\ Serving(update.k, n.cfg, t)
    BY <1>2, <1>4, UpdateServes DEF Serving, NodeOK
  <2>2. InstallSnapshot(n, t, cert, NoFaults) = SetUsers(after, t)
    BY <1>1, <1>4, <2>1 DEF InstallSnapshot
  <2>3. SetUsers(after, t) = [up.n EXCEPT !.users = t, !.k = update.k]
    BY <1>2 DEF SetUsers, NodeOK, Node
  <2>4. update.k.running => Serving(update.k, up.n.cfg, t)
    BY <1>2, <2>1
  <2> HIDE DEF up, update, after
  <2>5. AgreesWhenRunning([up.n EXCEPT !.users = t, !.k = update.k])
    BY <1>2, <2>4, ServingInstalled
  <2> QED BY <2>2, <2>3, <2>5
<1> QED BY <1>2, <1>3, <1>4

\* The end of a delta, when the incremental call succeeded or the kernel is down.
LEMMA FinishDeltaAgrees ==
  ASSUME NEW n, NodeOK(n), NEW k, NEW t \in Table, NEW r, NEW f,
         \/ r.ok /\ (r.k.running => Serving(r.k, n.cfg, t))
         \/ ~r.ok /\ ~r.k.running
  PROVE  AgreesWhenRunning(FinishDelta(n, k, t, r, f))
<1>1. CASE r.ok
  BY <1>1, ServingInstalled DEF FinishDelta
<1>2. CASE ~r.ok
  <2>1. UpdateUsers(r.k, t, f.fallback) = Result(r.k, FALSE)
    BY <1>2 DEF UpdateUsers
  <2>2. FinishDelta(n, k, t, r, f) = [n EXCEPT !.k = r.k]
    BY <1>2, <2>1 DEF FinishDelta, Result
  <2>3. [n EXCEPT !.k = r.k].k = r.k
    BY DEF NodeOK, Node
  <2> QED BY <1>2, <2>2, <2>3 DEF AgreesWhenRunning
<1> QED BY <1>1, <1>2

LEMMA ApplyDeltaAddAgrees ==
  ASSUME NEW n, NodeOK(n), AgreesWhenRunning(n), NEW d \in Table, NEW cert \in Nat
  PROVE  AgreesWhenRunning(ApplyDeltaAdd(n, d, cert, NoFaults))
<1> DEFINE up      == EnsureRunning(n, cert, "ok")
           changed == Recredentialed(up.n.users, d)
           gone    == changed \cap DOMAIN up.n.k.users
           k       == EvictRecredentialed(up.n.k, changed, NoFaults)
           rest    == SubtractUsers(up.n.users, changed)
           merged  == MergeUsers(up.n.users, d)
<1>1. NoFaults.start = "ok" /\ NoFaults.apply = "ok" /\ NoFaults.kept = {}
      /\ NoFaults.torn = FALSE
  BY DEF NoFaults
<1>2. /\ NodeOK(up.n) /\ up.ok \in BOOLEAN /\ up.n.cfg = n.cfg /\ up.n.users = n.users
      /\ AgreesWhenRunning(up.n)
      /\ up.ok => Serving(up.n.k, up.n.cfg, up.n.users)
  BY EnsureRunningOK, EnsureRunningAgrees
<1>3. CASE ~up.ok
  BY <1>1, <1>2, <1>3 DEF ApplyDeltaAdd
<1>4. CASE up.ok
  <2>1. /\ KernelOK(up.n.k) /\ up.n.k.spec = up.n.cfg
        /\ Serving(up.n.k, up.n.k.spec, up.n.users)
    BY <1>2, <1>4 DEF Serving, NodeOK
  <2>2. k = RemoveUsers(up.n.k, gone, "ok").k
    BY <1>1 DEF EvictRecredentialed
  <2>3. gone = changed
    <3>1. DOMAIN up.n.k.users = DOMAIN up.n.users
      BY <2>1, CredsDomain DEF Serving
    <3> QED BY <3>1 DEF Recredentialed
  <2>4. KernelOK(k) /\ (k.running => Serving(k, up.n.cfg, rest))
    <3> DEFINE r == RemoveUsers(up.n.k, changed, "ok")
    <3>1. r.k.running => Serving(r.k, up.n.k.spec, rest)
      BY <2>1, RemoveServes
    <3>2. KernelOK(r.k)
      BY <2>1, RemoveUsersType DEF Returns
    <3>3. k = r.k
      BY <2>2, <2>3
    <3> HIDE DEF r, k, rest
    <3> QED BY <2>1, <3>1, <3>2, <3>3
  <2>5. MergeUsers(rest, d) = merged /\ Recredentialed(rest, d) = {}
    BY EvictThenMerge
  <2>6. merged \in Table
    BY <1>2, MergeType DEF NodeOK, Node
  <2>7. ApplyDeltaAdd(n, d, cert, NoFaults) =
          FinishDelta(up.n, k, merged, AddUsers(k, d, "ok"), NoFaults)
    BY <1>1, <1>4 DEF ApplyDeltaAdd
  <2>8. \/ /\ AddUsers(k, d, "ok").ok
           /\ AddUsers(k, d, "ok").k.running
                => Serving(AddUsers(k, d, "ok").k, up.n.cfg, merged)
        \/ ~AddUsers(k, d, "ok").ok /\ ~AddUsers(k, d, "ok").k.running
    <3>1. CASE k.running
      <4>1. k.spec = up.n.cfg /\ Serving(k, k.spec, rest)
        BY <2>4, <3>1 DEF Serving
      <4>2. AddUsers(k, d, "ok").ok /\ Serving(AddUsers(k, d, "ok").k, up.n.cfg, merged)
        BY <2>4, <2>5, <4>1, AddServes
      <4> QED BY <4>2
    <3>2. CASE ~k.running
      BY <3>2 DEF AddUsers, Result
    <3> QED BY <3>1, <3>2
  <2> HIDE DEF up, changed, gone, k, rest, merged
  <2> QED BY <1>2, <2>6, <2>7, <2>8, FinishDeltaAgrees
<1> QED BY <1>2, <1>3, <1>4

LEMMA ApplyDeltaRemoveAgrees ==
  ASSUME NEW n, NodeOK(n), AgreesWhenRunning(n), NEW d \in Table
  PROVE  AgreesWhenRunning(ApplyDeltaRemove(n, d, NoFaults))
<1>1. NoFaults.apply = "ok"
  BY DEF NoFaults
<1>2. CASE ~n.k.running
  BY <1>2 DEF ApplyDeltaRemove
<1>3. CASE n.k.running
  <2> DEFINE t == SubtractUsers(n.users, DOMAIN d)
             r == RemoveUsers(n.k, DOMAIN d, "ok")
  <2>1. KernelOK(n.k) /\ n.k.spec = n.cfg /\ Serving(n.k, n.k.spec, n.users)
    BY <1>3, AgreementIsServing DEF AgreesWhenRunning, NodeOK, Agreement
  <2>2. r.ok /\ (r.k.running => Serving(r.k, n.cfg, t))
    BY <2>1, RemoveServes
  <2>3. t \in Table
    BY SubtractType DEF NodeOK, Node
  <2>4. ApplyDeltaRemove(n, d, NoFaults) = FinishDelta(n, n.k, t, r, NoFaults)
    BY <1>1, <1>3 DEF ApplyDeltaRemove
  <2> HIDE DEF t, r
  <2> QED BY <2>2, <2>3, <2>4, FinishDeltaAgrees
<1> QED BY <1>2, <1>3

\* After a reload nothing of the past matters.
LEMMA ApplyChangesAgrees ==
  ASSUME NEW n, NodeOK(n), NEW cert \in Nat
  PROVE  AgreesWhenRunning(ApplyChanges(n, cert, NoFaults))
<1>1. NoFaults.start = "ok" /\ NoFaults.apply = "ok"
  BY DEF NoFaults
<1>2. CASE DOMAIN n.users = {}
  <2>1. ApplyChanges(n, cert, NoFaults) = [n EXCEPT !.k = Stop(n.k)]
    BY <1>2 DEF ApplyChanges
  <2>2. ~[n EXCEPT !.k = Stop(n.k)].k.running
    BY StopType DEF NodeOK, Node
  <2> QED BY <2>1, <2>2 DEF AgreesWhenRunning
<1>3. CASE DOMAIN n.users # {} /\ n.cfg = NoConfig
  BY <1>3, NoConfigAssumption DEF ApplyChanges, AgreesWhenRunning, NodeOK
<1>4. CASE DOMAIN n.users # {} /\ n.cfg # NoConfig
  <2>1. n.cfg \in Configs /\ n.users \in Table /\ n.k.type = KernelOf[n.cfg]
    BY <1>4 DEF NodeOK, Node
  <2>2. EnsureKernelType(n, n.cfg) = n
    BY <2>1 DEF EnsureKernelType
  <2>3. CASE ~n.k.running
    <3>1. ApplyChanges(n, cert, NoFaults) = StartKernel(n, n.cfg, n.users, cert, "ok").n
      BY <1>1, <1>4, <2>2, <2>3 DEF ApplyChanges
    <3> QED BY <2>1, <3>1, StartKernelAgrees, AgreementIsServing DEF AgreesWhenRunning
  <2>4. CASE n.k.running
    <3> DEFINE reload == Reload(n.k, n.cfg, n.users, cert, "ok")
    <3>1. reload.ok /\ Serving(reload.k, n.cfg, n.users)
      BY <2>1, <2>4, ReloadServes DEF NodeOK
    <3>2. ApplyChanges(n, cert, NoFaults) = [n EXCEPT !.k = reload.k]
      BY <1>1, <1>4, <2>2, <2>4, <3>1 DEF ApplyChanges
    <3>3. [n EXCEPT !.k = reload.k] = [n EXCEPT !.users = n.users, !.k = reload.k]
      BY DEF NodeOK, Node
    <3> HIDE DEF reload
    <3>4. AgreesWhenRunning([n EXCEPT !.users = n.users, !.k = reload.k])
      BY <3>1, ServingInstalled
    <3> QED BY <3>2, <3>3, <3>4
  <2> QED BY <2>3, <2>4
<1> QED BY <1>2, <1>3, <1>4

LEMMA ReconcileAgrees ==
  ASSUME NEW n, NodeOK(n), AgreesWhenRunning(n), NEW cert \in Nat
  PROVE  AgreesWhenRunning(Reconcile(n, cert, NoFaults))
<1>1. NoFaults.start = "ok"
  BY DEF NoFaults
<1>2. CASE n.k.type = "xray" /\ n.cfg # NoConfig /\ DOMAIN n.users # {} /\ n.due
  <2>1. n.cfg \in Configs /\ n.users \in Table
    BY <1>2 DEF NodeOK, Node
  <2>2. Reconcile(n, cert, NoFaults) = StartKernel(n, n.cfg, n.users, cert, "ok").n
    BY <1>1, <1>2 DEF Reconcile
  <2> QED BY <2>1, <2>2, StartKernelAgrees, AgreementIsServing DEF AgreesWhenRunning
<1>3. CASE ~(n.k.type = "xray" /\ n.cfg # NoConfig /\ DOMAIN n.users # {} /\ n.due)
  BY <1>3 DEF Reconcile
<1> QED BY <1>2, <1>3

\* A config adopted while the kernel is down leaves it down.
LEMMA AdoptConfigIdle ==
  ASSUME NEW n, NodeOK(n), ~n.k.running, NEW c \in Configs
  PROVE  ~AdoptConfig(n, c).k.running
<1>1. AdoptConfig(n, c).k = EnsureKernelType(n, c).k
  BY DEF AdoptConfig, EnsureKernelType, NodeOK, Node
<1>2. EnsureKernelType(n, c).k \in {n.k, NewKernel(KernelOf[c])}
  BY DEF EnsureKernelType, NodeOK, Node
<1>3. ~NewKernel(KernelOf[c]).running
  BY DEF NewKernel
<1> QED BY <1>1, <1>2, <1>3

LEMMA HandleWSEventAgrees ==
  ASSUME NEW n, NodeOK(n), AgreesWhenRunning(n), NEW e, IsEvent(e), NEW cert \in Nat
  PROVE  AgreesWhenRunning(HandleWSEvent(n, e, cert, NoFaults))
<1>1. CASE e.type = "config"
  <2>1. e.cfg \in Configs
    BY <1>1 DEF IsEvent
  <2> QED BY <1>1, <2>1, AdoptConfigOK, ApplyChangesAgrees DEF HandleWSEvent
<1>2. CASE e.type = "users"
  <2>1. e.users \in Table
    BY <1>2 DEF IsEvent
  <2> QED BY <1>2, <2>1, InstallSnapshotAgrees DEF HandleWSEvent, ApplyUserUpdate
<1>3. CASE e.type = "add"
  <2>1. e.users \in Table
    BY <1>3 DEF IsEvent
  <2> QED BY <1>3, <2>1, ApplyDeltaAddAgrees DEF HandleWSEvent
<1>4. CASE e.type = "remove"
  <2>1. e.users \in Table
    BY <1>4 DEF IsEvent
  <2> QED BY <1>4, <2>1, ApplyDeltaRemoveAgrees DEF HandleWSEvent
<1>5. CASE e.type = "devices"
  <2> DEFINE j == UpdateGlobalDevices(n.k)
  <2>1. /\ j.running = n.k.running /\ j.spec = n.k.spec /\ j.users = n.k.users
        /\ j.inbounds = n.k.inbounds /\ j.type = n.k.type
    BY DEF UpdateGlobalDevices, NodeOK, KernelOK, Kernel
  <2>2. /\ [n EXCEPT !.k = j].k = j /\ [n EXCEPT !.k = j].cfg = n.cfg
        /\ [n EXCEPT !.k = j].users = n.users
    BY DEF NodeOK, Node
  <2>3. HandleWSEvent(n, e, cert, NoFaults) = [n EXCEPT !.k = j]
    BY <1>5 DEF HandleWSEvent
  <2> HIDE DEF j
  <2> QED BY <2>1, <2>2, <2>3 DEF AgreesWhenRunning, Agreement, Serves, Frozen
<1> QED BY <1>1, <1>2, <1>3, <1>4, <1>5 DEF IsEvent

LEMMA ApplyPullResultAgrees ==
  ASSUME NEW n, NodeOK(n), AgreesWhenRunning(n), NEW r, IsPullResult(r), NEW cert \in Nat
  PROVE  AgreesWhenRunning(ApplyPullResult(n, r, cert, NoFaults))
<1> DEFINE m     == IF AcceptedConfig(r) THEN AdoptConfig(n, r.cfg) ELSE n
           users == IF AcceptedUsers(n, r) THEN r.users ELSE n.users
<1>1. NodeOK(m)
  BY AdoptConfigOK DEF AcceptedConfig, IsPullResult
<1>2. users \in Table
  BY DEF AcceptedUsers, RejectFetchedUsers, IsPullResult, NodeOK, Node
<1>3. CASE AcceptedConfig(r) \/ r.cert
  <2>1. ApplyPullResult(n, r, cert, NoFaults) =
          ApplyChanges(SetUsers(m, users), cert, NoFaults)
    BY <1>3 DEF ApplyPullResult
  <2> HIDE DEF m, users
  <2> QED BY <1>1, <1>2, <2>1, SetUsersOK, ApplyChangesAgrees
<1>4. CASE ~(AcceptedConfig(r) \/ r.cert)
  <2>1. m = n
    BY <1>4
  <2>2. ApplyPullResult(n, r, cert, NoFaults) \in
          {InstallSnapshot(n, users, cert, NoFaults), Reconcile(n, cert, NoFaults), n}
    BY <1>4, <2>1 DEF ApplyPullResult
  <2> HIDE DEF m, users
  <2> QED BY <1>2, <2>2, InstallSnapshotAgrees, ReconcileAgrees
<1> QED BY <1>3, <1>4

----------------------------------------------------------------------------
(* The loop.                                                               *)

\* Before Run has started, there is neither a kernel nor a user.
BootInv == phase = "boot" => node = NewNode

LEMMA BootStep ==
  ASSUME IInv, BootInv, [Next]_vars
  PROVE  BootInv'
<1>1. CASE BootFails \/ BootWs \/ Shutdown
  BY <1>1 DEF BootFails, BootWs, Shutdown, BootInv
<1>2. CASE KernelStep
  <2>1. PICK f : BootRest(f) \/ ReceivePullResult(f) \/ ReceiveWSEvent(f)
    BY <1>2 DEF KernelStep
  <2>2. CASE BootRest(f)
    BY <2>2 DEF BootRest, BootInv
  <2>3. CASE ReceivePullResult(f) \/ ReceiveWSEvent(f)
    BY <2>3 DEF ReceivePullResult, ReceiveWSEvent, BootInv
  <2> QED BY <2>1, <2>2, <2>3
<1>3. CASE ReceiveWSStatus \/ PullTick \/ WSDiscovery
  BY <1>3 DEF ReceiveWSStatus, PullTick, WSDiscovery, BootInv
<1>4. CASE PullGoroutine
  BY <1>4 DEF PullGoroutine, PollConfig, PollUsers, PollSend, PollDone, PollFrame, BootInv
<1>5. CASE World
  BY <1>5
     DEF World, WSConnect, WSDisconnect, PanelSetsConfig, PanelSetsUsers, BootInv,
         PanelPushesDevices, PanelTogglesWs, CertRenews, ReconcileFallsDue, WorldFrame
<1>6. CASE UNCHANGED vars
  BY <1>6 DEF vars, BootInv
<1> QED BY <1>1, <1>2, <1>3, <1>4, <1>5, <1>6 DEF Next

\* The steps that leave what is served and what is remembered alone.
SameService ==
  /\ node'.cfg = node.cfg /\ node'.users = node.users /\ node'.k.running = node.k.running
  /\ node'.k.spec = node.k.spec /\ node'.k.users = node.k.users
  /\ node'.k.inbounds = node.k.inbounds /\ node'.k.type = node.k.type

OtherStep ==
  \/ BootFails \/ BootWs \/ Shutdown \/ ReceiveWSStatus \/ PullTick \/ WSDiscovery
  \/ PullGoroutine \/ World \/ UNCHANGED vars

LEMMA OtherSteps ==
  ASSUME IInv, OtherStep
  PROVE  /\ SameService \/ (~node'.k.running /\ node'.users = node.users)
         /\ budget'["failed"] = budget["failed"]
<1>1. /\ node.k \in Kernel /\ node \in Node /\ budget \in [BudgetKinds -> Nat]
  BY DEF IInv, TypeOK, Node
<1>2. ASSUME NEW kind \in {"edits", "trouble"}, Spend(kind, 1)
      PROVE  budget'["failed"] = budget["failed"]
  BY <1>1, <1>2 DEF Spend, BudgetKinds
<1>3. CASE BootFails \/ BootWs
  BY <1>2, <1>3 DEF BootFails, BootWs, SameService
<1>4. CASE Shutdown
  <2>1. budget' = budget
    BY <1>4 DEF Shutdown
  <2>2. CASE node.deferred
    <3>1. ~Stop(node.k).running
      BY StopType DEF IInv, NodeOK
    <3>2. [node EXCEPT !.k = Stop(node.k)].k = Stop(node.k)
          /\ [node EXCEPT !.k = Stop(node.k)].users = node.users
      BY <1>1 DEF Node
    <3>3. node' = [node EXCEPT !.k = Stop(node.k)]
      BY <1>4, <2>2 DEF Shutdown
    <3> QED BY <2>1, <3>1, <3>2, <3>3
  <2>3. CASE ~node.deferred
    BY <1>4, <2>1, <2>3 DEF Shutdown, SameService
  <2> QED BY <2>2, <2>3
<1>5. CASE ReceiveWSStatus
  <2> DEFINE j == ClearGlobalDevices(node.k)
  <2>1. /\ j.running = node.k.running /\ j.spec = node.k.spec /\ j.users = node.k.users
        /\ j.inbounds = node.k.inbounds /\ j.type = node.k.type
    BY <1>1 DEF ClearGlobalDevices, Kernel
  <2>2. /\ [node EXCEPT !.k = j].k = j /\ [node EXCEPT !.k = j].cfg = node.cfg
        /\ [node EXCEPT !.k = j].users = node.users
    BY <1>1 DEF Node
  <2>3. node' \in {node, [node EXCEPT !.k = j]} /\ budget' = budget
    BY <1>5 DEF ReceiveWSStatus
  <2> HIDE DEF j
  <2> QED BY <2>1, <2>2, <2>3 DEF SameService
<1>6. CASE PullTick \/ WSDiscovery
  BY <1>6 DEF PullTick, WSDiscovery, SameService
<1>7. CASE PullGoroutine
  BY <1>2, <1>7
     DEF PullGoroutine, PollConfig, PollUsers, PollSend, PollDone, PollFrame, SameService
<1>8. CASE ReconcileFallsDue
  BY <1>1, <1>8 DEF ReconcileFallsDue, SameService, Node
<1>9. CASE World /\ ~ReconcileFallsDue
  BY <1>2, <1>9
     DEF World, WSConnect, WSDisconnect, PanelSetsConfig, PanelSetsUsers, SameService,
         PanelPushesDevices, PanelTogglesWs, CertRenews, WorldFrame
<1>10. CASE UNCHANGED vars
  BY <1>10 DEF vars, SameService
<1> QED BY <1>3, <1>4, <1>5, <1>6, <1>7, <1>8, <1>9, <1>10 DEF OtherStep

\* The strengthening of MemoryIsServed.
AInv ==
  /\ BootInv
  /\ budget["failed"] = 0 => AgreesWhenRunning(node)

LEMMA AgreementStep ==
  ASSUME IInv, AInv, [Next]_vars
  PROVE  AInv'
<1>1. BootInv'
  BY BootStep DEF AInv
<1>2. ASSUME budget'["failed"] = 0
      PROVE  AgreesWhenRunning(node)'
  <2>1. budget \in [BudgetKinds -> Nat] /\ budget["failed"] \in Nat
    BY DEF IInv, TypeOK, BudgetKinds
  <2>2. CASE KernelStep
    <3>1. PICK f : /\ budget' = IF f = NoFaults THEN budget
                               ELSE [budget EXCEPT !["kernel"] = @ - 1, !["failed"] = @ + 1]
                   /\ BootRest(f) \/ ReceivePullResult(f) \/ ReceiveWSEvent(f)
      BY <2>2 DEF KernelStep
    <3>2. f = NoFaults /\ budget["failed"] = 0
      BY <1>2, <2>1, <3>1 DEF BudgetKinds
    <3>3. NodeOK(node) /\ AgreesWhenRunning(node)
      BY <3>2 DEF AInv, IInv
    <3>4. CASE BootRest(f)
      <4> DEFINE s == StartKernel(BootNode, BootNode.cfg, BootNode.users, certs.version, "ok")
      <4>1. panel.cfg \in Configs /\ certs.version \in Nat
        BY DEF IInv, TypeOK, Panel
      <4>2. ~node.k.running
        BY <3>4 DEF BootRest, AInv, BootInv, NewNode, NewKernel
      <4>3. ~BootNode.k.running
        BY <3>3, <4>1, <4>2, BootNodeOK, AdoptConfigIdle
      <4>4. AgreesWhenRunning(s.n)
        BY <4>1, BootNodeOK, StartKernelAgrees, AgreementIsServing DEF AgreesWhenRunning
      <4>5. node' \in {node, BootNode, s.n}
        BY <3>2, <3>4 DEF BootRest, NoFaults
      <4> HIDE DEF s
      <4> QED BY <4>2, <4>3, <4>4, <4>5 DEF AgreesWhenRunning
    <3>5. CASE ReceivePullResult(f)
      <4>1. pullResults \in Seq(PullResult) /\ pullResults # <<>> /\ certs.version \in Nat
        BY <3>5 DEF IInv, TypeOK, ReceivePullResult
      <4>2. IsPullResult(Head(pullResults))
        BY <4>1, HeadTailProperties DEF IsPullResult, PullResult
      <4> QED BY <3>2, <3>3, <3>5, <4>1, <4>2, ApplyPullResultAgrees DEF ReceivePullResult
    <3>6. CASE ReceiveWSEvent(f)
      <4>1. wsEvents \in Seq(Event) /\ wsEvents # <<>> /\ certs.version \in Nat
        BY <3>6 DEF IInv, TypeOK, ReceiveWSEvent
      <4>2. IsEvent(Head(wsEvents))
        BY <4>1, HeadTailProperties DEF IsEvent, Event
      <4> QED BY <3>2, <3>3, <3>6, <4>1, <4>2, HandleWSEventAgrees DEF ReceiveWSEvent
    <3> QED BY <3>1, <3>4, <3>5, <3>6
  <2>3. CASE ~KernelStep
    <3>1. /\ SameService \/ (~node'.k.running /\ node'.users = node.users)
          /\ budget'["failed"] = budget["failed"]
      BY <2>3, OtherSteps DEF Next, OtherStep
    <3>2. AgreesWhenRunning(node)
      BY <1>2, <3>1 DEF AInv
    <3> QED BY <3>1, <3>2 DEF SameService, AgreesWhenRunning, Agreement, Serves, Frozen
  <2> QED BY <2>2, <2>3
<1> QED BY <1>1, <1>2 DEF AInv

\* Snapshots, deltas, configs, renewals, disconnects and restarts may come in any order:
\* while no kernel call has failed, a running kernel runs the service's config and its
\* inbound authenticates exactly the users the service remembers (FIXES.md), unless the
\* config is hysteria version 1 on sing-box, whose update leaves the inbound as it is.
THEOREM MemoryServed == Spec => []MemoryIsServed
<1>1. Init => AInv
  BY DEF Init, AInv, BootInv, NewNode, NewKernel, AgreesWhenRunning
<1>2. AInv => MemoryIsServed
  BY DEF AInv, AgreesWhenRunning, MemoryIsServed
<1> QED BY InitOK, StepOK, AgreementStep, <1>1, <1>2, PTL DEF Spec

----------------------------------------------------------------------------
(* The table never collapses but by a remove.                              *)

Collapsed(old, new) == EmptyReplacesUsers(old, new) \/ AbnormalDrop(old, new)

\* A table that keeps every id has not collapsed, nor has one that had none.
LEMMA GrownIsNotCollapsed ==
  ASSUME NEW old \in Table, NEW new \in Table,
         DOMAIN old \subseteq DOMAIN new \/ DOMAIN old = {}
  PROVE  ~Collapsed(old, new)
<1>1. IsFiniteSet(DOMAIN old) /\ IsFiniteSet(DOMAIN new)
  BY IdsAreFinite, TableIsFunction, FS_Subset
<1>2. Cardinality(DOMAIN old) \in Nat /\ Cardinality(DOMAIN new) \in Nat
  BY <1>1, FS_CardinalityType
<1>3. Cardinality(DOMAIN old) <= Cardinality(DOMAIN new)
  <2>1. CASE DOMAIN old \subseteq DOMAIN new
    BY <1>1, <2>1, FS_Subset
  <2>2. CASE DOMAIN old = {}
    BY <1>2, <2>2, FS_EmptySet
  <2> QED BY <2>1, <2>2
<1>4. ~AbnormalDrop(old, new)
  BY <1>2, <1>3 DEF AbnormalDrop
<1>5. ~EmptyReplacesUsers(old, new)
  BY DEF EmptyReplacesUsers
<1> QED BY <1>4, <1>5 DEF Collapsed

LEMMA AcceptedIsNotCollapsed ==
  ASSUME NEW old, NEW new, ~RejectFetchedUsers(old, new)
  PROVE  ~Collapsed(old, new)
BY DEF RejectFetchedUsers, Collapsed

(* What each handler may make of the table.                                *)

LEMMA InstallSnapshotUsers ==
  ASSUME NEW n, NodeOK(n), NEW t \in Table, NEW cert \in Nat, NEW f
  PROVE  InstallSnapshot(n, t, cert, f).users \in {n.users, t}
<1> DEFINE up     == EnsureRunning(n, cert, f.start)
           update == UpdateUsers(up.n.k, t, f.apply)
           after  == [up.n EXCEPT !.k = update.k]
           again  == StartKernel(after, after.cfg, t, cert, f.fallback)
<1>1. NodeOK(up.n) /\ up.n.users = n.users
  BY EnsureRunningOK
<1>2. after.users = n.users /\ DOMAIN after = DOMAIN up.n
  BY <1>1 DEF NodeOK, Node
<1>3. \A m, u : "users" \in DOMAIN m => SetUsers(m, u).users = u
  BY DEF SetUsers
<1>4. "users" \in DOMAIN after
  BY <1>1, <1>2 DEF NodeOK, Node
<1>5. "users" \in DOMAIN again.n
  BY <1>1 DEF StartKernel, Step, EnsureKernelType, NodeOK, Node
<1>6. InstallSnapshot(n, t, cert, f) \in
        {up.n, SetUsers(after, t), SetUsers(again.n, t), SetUsers(again.n, up.n.users)}
  BY DEF InstallSnapshot
<1> HIDE DEF up, update, after, again
<1> QED BY <1>1, <1>3, <1>4, <1>5, <1>6

LEMMA FinishDeltaUsers ==
  ASSUME NEW n, NodeOK(n), NEW k, NEW t, NEW r, NEW f
  PROVE  FinishDelta(n, k, t, r, f).users \in {n.users, t}
BY DEF FinishDelta, NodeOK, Node

LEMMA ApplyDeltaAddUsers ==
  ASSUME NEW n, NodeOK(n), NEW d \in Table, NEW cert \in Nat, NEW f
  PROVE  ApplyDeltaAdd(n, d, cert, f).users \in {n.users, MergeUsers(n.users, d)}
<1> DEFINE up == EnsureRunning(n, cert, f.start)
           k  == EvictRecredentialed(up.n.k, Recredentialed(up.n.users, d), f)
<1>1. NodeOK(up.n) /\ up.n.users = n.users
  BY EnsureRunningOK
<1>2. ApplyDeltaAdd(n, d, cert, f) \in
        {up.n, FinishDelta(up.n, k, MergeUsers(up.n.users, d), AddUsers(k, d, f.apply), f)}
  BY DEF ApplyDeltaAdd
<1> HIDE DEF up, k
<1> QED BY <1>1, <1>2, FinishDeltaUsers

LEMMA ApplyChangesUsers ==
  ASSUME NEW n, NodeOK(n), NEW cert \in Nat, NEW f
  PROVE  ApplyChanges(n, cert, f).users = n.users
BY DEF ApplyChanges, StartKernel, Step, EnsureKernelType, NodeOK, Node

LEMMA ReconcileUsers ==
  ASSUME NEW n, NodeOK(n), NEW cert \in Nat, NEW f
  PROVE  Reconcile(n, cert, f).users = n.users
BY DEF Reconcile, StartKernel, Step, EnsureKernelType, NodeOK, Node

LEMMA AdoptConfigUsers ==
  ASSUME NEW n, NodeOK(n), NEW c
  PROVE  AdoptConfig(n, c).users = n.users
BY DEF AdoptConfig, EnsureKernelType, NodeOK, Node

LEMMA HandleWSEventUsers ==
  ASSUME NEW n, NodeOK(n), NEW e, IsEvent(e), NEW cert \in Nat, NEW f, e.type # "remove"
  PROVE  ~Collapsed(n.users, HandleWSEvent(n, e, cert, f).users)
<1>1. n.users \in Table /\ ~Collapsed(n.users, n.users)
  BY GrownIsNotCollapsed DEF NodeOK, Node
<1>2. CASE e.type = "config"
  <2>1. e.cfg \in Configs
    BY <1>2 DEF IsEvent
  <2>2. HandleWSEvent(n, e, cert, f).users = n.users
    BY <1>2, <2>1, AdoptConfigOK, AdoptConfigUsers, ApplyChangesUsers DEF HandleWSEvent
  <2> QED BY <1>1, <2>2
<1>3. CASE e.type = "users"
  <2>1. e.users \in Table
    BY <1>3 DEF IsEvent
  <2>2. \/ HandleWSEvent(n, e, cert, f) = n
        \/ /\ ~RejectFetchedUsers(n.users, e.users)
           /\ HandleWSEvent(n, e, cert, f) = InstallSnapshot(n, e.users, cert, f)
    BY <1>3 DEF HandleWSEvent, ApplyUserUpdate
  <2> QED BY <1>1, <2>1, <2>2, InstallSnapshotUsers, AcceptedIsNotCollapsed
<1>4. CASE e.type = "add"
  <2>1. e.users \in Table
    BY <1>4 DEF IsEvent
  <2>2. HandleWSEvent(n, e, cert, f).users \in {n.users, MergeUsers(n.users, e.users)}
    BY <1>4, <2>1, ApplyDeltaAddUsers DEF HandleWSEvent
  <2>3. MergeUsers(n.users, e.users) \in Table
        /\ DOMAIN n.users \subseteq DOMAIN MergeUsers(n.users, e.users)
    BY <1>1, <2>1, MergeType DEF MergeUsers
  <2> QED BY <1>1, <2>2, <2>3, GrownIsNotCollapsed
<1>5. CASE e.type = "devices"
  <2>1. HandleWSEvent(n, e, cert, f).users = n.users
    BY <1>5 DEF HandleWSEvent, NodeOK, Node
  <2> QED BY <1>1, <2>1
<1> QED BY <1>2, <1>3, <1>4, <1>5 DEF IsEvent

LEMMA ApplyPullResultUsers ==
  ASSUME NEW n, NodeOK(n), NEW r, IsPullResult(r), NEW cert \in Nat, NEW f
  PROVE  ~Collapsed(n.users, ApplyPullResult(n, r, cert, f).users)
<1> DEFINE m     == IF AcceptedConfig(r) THEN AdoptConfig(n, r.cfg) ELSE n
           users == IF AcceptedUsers(n, r) THEN r.users ELSE n.users
<1>1. NodeOK(m) /\ m.users = n.users
  BY AdoptConfigOK, AdoptConfigUsers DEF AcceptedConfig, IsPullResult
<1>2. users \in Table
  BY DEF AcceptedUsers, RejectFetchedUsers, IsPullResult, NodeOK, Node
<1>3. n.users \in Table /\ ~Collapsed(n.users, n.users) /\ ~Collapsed(n.users, users)
  <2>1. n.users \in Table /\ ~Collapsed(n.users, n.users)
    BY GrownIsNotCollapsed DEF NodeOK, Node
  <2> QED BY <2>1, AcceptedIsNotCollapsed DEF AcceptedUsers
<1>4. ApplyPullResult(n, r, cert, f) \in
        {ApplyChanges(SetUsers(m, users), cert, f), InstallSnapshot(m, users, cert, f),
         Reconcile(m, cert, f), m}
  BY DEF ApplyPullResult
<1> HIDE DEF m, users
<1>5. NodeOK(SetUsers(m, users)) /\ SetUsers(m, users).users = users
  <2>1. NodeOK(SetUsers(m, users)) /\ SetUsers(m, users) = [m EXCEPT !.users = users]
    BY <1>1, <1>2, SetUsersOK
  <2> QED BY <1>1, <2>1 DEF NodeOK, Node
<1>6. ApplyPullResult(n, r, cert, f).users \in {n.users, users}
  BY <1>1, <1>2, <1>4, <1>5, ApplyChangesUsers, InstallSnapshotUsers, ReconcileUsers
<1> QED BY <1>3, <1>6

LEMMA CollapseStep ==
  ASSUME IInv, BootInv, [Next]_vars, Collapsed(node.users, node'.users)
  PROVE  Handles(wsEvents, wsEvents') /\ Head(wsEvents).type = "remove"
<1>1. node.users \in Table /\ ~Collapsed(node.users, node.users)
  BY GrownIsNotCollapsed DEF IInv, NodeOK, Node
<1>2. KernelStep
  BY <1>1, OtherSteps DEF Next, OtherStep, SameService
<1>3. PICK f : BootRest(f) \/ ReceivePullResult(f) \/ ReceiveWSEvent(f)
  BY <1>2 DEF KernelStep
<1>4. CASE BootRest(f)
  <2>1. DOMAIN node.users = {}
    BY <1>4 DEF BootRest, BootInv, NewNode, EmptyTable
  <2>2. node'.users \in Table
    BY <1>4, BootRestOK DEF NodeOK, Node
  <2> QED BY <1>1, <2>1, <2>2, GrownIsNotCollapsed
<1>5. CASE ReceivePullResult(f)
  <2>1. pullResults \in Seq(PullResult) /\ pullResults # <<>> /\ certs.version \in Nat
    BY <1>5 DEF IInv, TypeOK, ReceivePullResult
  <2>2. IsPullResult(Head(pullResults))
    BY <2>1, HeadTailProperties DEF IsPullResult, PullResult
  <2> QED BY <1>5, <2>1, <2>2, ApplyPullResultUsers DEF ReceivePullResult, IInv
<1>6. CASE ReceiveWSEvent(f)
  <2>1. wsEvents \in Seq(Event) /\ wsEvents # <<>> /\ certs.version \in Nat
    BY <1>6 DEF IInv, TypeOK, ReceiveWSEvent
  <2>2. IsEvent(Head(wsEvents))
    BY <2>1, HeadTailProperties DEF IsEvent, Event
  <2>3. Head(wsEvents).type = "remove"
    BY <1>6, <2>1, <2>2, HandleWSEventUsers DEF ReceiveWSEvent, IInv
  <2> QED BY <1>6, <2>1, <2>3 DEF ReceiveWSEvent, Handles
<1> QED BY <1>3, <1>4, <1>5, <1>6

\* Whatever the panel, the network and the kernels do, no REST poll and no pushed
\* snapshot, empty, malformed or truncated, makes the node forget most of its users:
\* only a remove delta can (rejectFetchedUsers, beginUserSync; FIXES.md section 1).
THEOREM Collapse == Spec => CollapseOnlyByRemove
<1>1. Init => BootInv
  BY DEF Init, BootInv
<1>2. IInv /\ BootInv /\ [Next]_vars =>
        [EmptyReplacesUsers(node.users, node'.users) \/ AbnormalDrop(node.users, node'.users)
           => Handles(wsEvents, wsEvents') /\ Head(wsEvents).type = "remove"]_vars
  BY CollapseStep DEF Collapsed
<1> QED BY InitOK, StepOK, BootStep, <1>1, <1>2, PTL DEF Spec, CollapseOnlyByRemove

----------------------------------------------------------------------------
(* xray keeps serving what it served when a call fails.                    *)

\* The call brought kernel k to table t, or failed and left it alone.
Effect(r, k, t) ==
  \/ r.ok /\ (r.k.running => Serving(r.k, k.spec, t))
  \/ ~r.ok /\ r.k = k

LEMMA XrayStartEffect ==
  ASSUME NEW k, KernelOK(k), NEW c \in Configs, NEW t, NEW cert, NEW out
  PROVE  LET s == Start(k, c, t, cert, out)
         IN \/ s.ok /\ Serving(s.k, c, t)
            \/ ~s.ok /\ s.k = k
<1>1. CASE out = "ok"
  BY <1>1, StartServes
<1>2. CASE out # "ok"
  BY <1>2 DEF Start, Result
<1> QED BY <1>1, <1>2

LEMMA XrayReplaceEffect ==
  ASSUME NEW k, KernelOK(k), k.running, k.type = "xray", NEW t, NEW out
  PROVE  Effect(ReplaceUsers(k, t, out), k, t)
<1>1. k.spec \in Configs
  BY DEF KernelOK
<1>2. ReplaceUsers(k, t, out) = Start(k, k.spec, t, k.tls, out)
  BY DEF ReplaceUsers
<1> QED BY <1>1, <1>2, XrayStartEffect DEF Effect

LEMMA XrayUpdateEffect ==
  ASSUME NEW k, KernelOK(k), k.running, k.type = "xray", Serves(k) = Creds(k.users),
         NEW t, NEW out
  PROVE  Effect(UpdateUsers(k, t, out), k, t)
<1>1. CASE NoUserDiff(k.users, t)
  <2>1. UpdateUsers(k, t, out) = UpdateUsers(k, t, "ok")
    BY <1>1 DEF UpdateUsers
  <2> QED BY <2>1, UpdateServes DEF Effect
<1>2. CASE ~NoUserDiff(k.users, t)
  BY <1>2, XrayReplaceEffect DEF UpdateUsers
<1> QED BY <1>1, <1>2

LEMMA XrayRemoveEffect ==
  ASSUME NEW k, KernelOK(k), k.type = "xray", NEW t, Serving(k, k.spec, t), NEW S, NEW out
  PROVE  Effect(RemoveUsers(k, S, out), k, SubtractUsers(t, S))
<1> DEFINE kept == SubtractUsers(k.users, S)
<1>1. CASE S \cap DOMAIN k.users = {} \/ DOMAIN kept = {}
  <2>1. RemoveUsers(k, S, out) = RemoveUsers(k, S, "ok")
    BY <1>1 DEF RemoveUsers, Serving
  <2> QED BY <2>1, RemoveServes DEF Effect
<1>2. CASE S \cap DOMAIN k.users # {} /\ DOMAIN kept # {}
  <2>1. RemoveUsers(k, S, out) = ReplaceUsers(k, kept, out)
    BY <1>2 DEF RemoveUsers, Serving
  <2>2. Effect(ReplaceUsers(k, kept, out), k, kept)
    BY XrayReplaceEffect DEF Serving
  <2>3. Creds(kept) = Creds(SubtractUsers(t, S))
    BY SubtractCreds DEF Serving
  <2> QED BY <2>1, <2>2, <2>3 DEF Effect, Serving
<1> QED BY <1>1, <1>2

LEMMA XrayAddEffect ==
  ASSUME NEW k, KernelOK(k), k.type = "xray", NEW t, Serving(k, k.spec, t), NEW d,
         Recredentialed(t, d) = {}, NEW out
  PROVE  Effect(AddUsers(k, d, out), k, MergeUsers(t, d))
<1>1. CASE DOMAIN d \subseteq DOMAIN k.users
  <2>1. AddUsers(k, d, out) = AddUsers(k, d, "ok")
    BY <1>1 DEF AddUsers
  <2> QED BY <2>1, AddServes DEF Effect
<1>2. CASE ~(DOMAIN d \subseteq DOMAIN k.users)
  <2>1. AddUsers(k, d, out) = ReplaceUsers(k, MergeUsers(k.users, d), out)
    BY <1>2 DEF AddUsers, Serving
  <2>2. Effect(ReplaceUsers(k, MergeUsers(k.users, d), out), k, MergeUsers(k.users, d))
    BY XrayReplaceEffect DEF Serving
  <2>3. Creds(MergeUsers(k.users, d)) = Creds(MergeUsers(t, d))
    BY MergeCreds DEF Serving
  <2> QED BY <2>1, <2>2, <2>3 DEF Effect, Serving
<1> QED BY <1>1, <1>2

\* The service's memory and a running xray agree.
XrayAgrees(n) ==
  NodeOK(n) /\ n.k.type = "xray" /\ n.k.running /\ Serving(n.k, n.cfg, n.users)

LEMMA XrayUnchangedAgrees ==
  ASSUME NEW n, XrayAgrees(n)
  PROVE  AgreesWhenRunning(n)
BY AgreementIsServing DEF XrayAgrees, AgreesWhenRunning

LEMMA XrayFinishDelta ==
  ASSUME NEW n, XrayAgrees(n), NEW t, NEW r, Effect(r, n.k, t), NEW k, NEW f
  PROVE  AgreesWhenRunning(FinishDelta(n, k, t, r, f))
<1>1. /\ NodeOK(n) /\ KernelOK(n.k) /\ n.k.running /\ n.k.spec = n.cfg
      /\ Serves(n.k) = Creds(n.k.users) /\ n.k.type = "xray"
  BY DEF XrayAgrees, Serving, NodeOK, Frozen
<1>2. CASE r.ok
  <2>1. r.k.running => Serving(r.k, n.cfg, t)
    BY <1>1, <1>2 DEF Effect
  <2>2. FinishDelta(n, k, t, r, f) = [n EXCEPT !.users = t, !.k = r.k]
    BY <1>2 DEF FinishDelta
  <2>3. AgreesWhenRunning([n EXCEPT !.users = t, !.k = r.k])
    BY <1>1, <2>1, ServingInstalled
  <2> QED BY <2>2, <2>3
<1>3. CASE ~r.ok
  <2> DEFINE full == UpdateUsers(n.k, t, f.fallback)
  <2>1. r.k = n.k /\ Effect(full, n.k, t)
    BY <1>1, <1>3, XrayUpdateEffect DEF Effect
  <2>2. CASE full.ok
    <3>1. full.k.running => Serving(full.k, n.cfg, t)
      BY <1>1, <2>1, <2>2 DEF Effect
    <3>2. FinishDelta(n, k, t, r, f) = [n EXCEPT !.users = t, !.k = full.k]
      BY <1>3, <2>1, <2>2 DEF FinishDelta
    <3> HIDE DEF full
    <3>3. AgreesWhenRunning([n EXCEPT !.users = t, !.k = full.k])
      BY <1>1, <3>1, ServingInstalled
    <3> QED BY <3>2, <3>3
  <2>3. CASE ~full.ok
    <3>1. FinishDelta(n, k, t, r, f) = [n EXCEPT !.k = n.k]
      BY <1>3, <2>1, <2>3 DEF FinishDelta, Effect
    <3>2. [n EXCEPT !.k = n.k] = n
      BY <1>1 DEF NodeOK, Node
    <3> QED BY <3>1, <3>2, XrayUnchangedAgrees
  <2> QED BY <2>2, <2>3
<1> QED BY <1>2, <1>3

LEMMA XrayInstallSnapshot ==
  ASSUME NEW n, XrayAgrees(n), NEW t \in Table, NEW cert \in Nat, NEW f
  PROVE  AgreesWhenRunning(InstallSnapshot(n, t, cert, f))
<1> DEFINE update == UpdateUsers(n.k, t, f.apply)
           again  == StartKernel(n, n.cfg, t, cert, f.fallback)
<1>1. /\ NodeOK(n) /\ KernelOK(n.k) /\ n.k.running /\ n.k.spec = n.cfg
      /\ Serves(n.k) = Creds(n.k.users) /\ n.k.type = "xray" /\ n.cfg \in Configs
  BY DEF XrayAgrees, Serving, NodeOK, Frozen
<1>2. EnsureRunning(n, cert, f.start) = Step(n, TRUE)
  BY <1>1 DEF EnsureRunning
<1>3. Effect(update, n.k, t)
  BY <1>1, XrayUpdateEffect
<1>4. CASE update.ok
  <2>1. update.k.running => Serving(update.k, n.cfg, t)
    BY <1>1, <1>3, <1>4 DEF Effect
  <2>2. InstallSnapshot(n, t, cert, f) = SetUsers([n EXCEPT !.k = update.k], t)
    BY <1>2, <1>4 DEF InstallSnapshot, Step
  <2>3. SetUsers([n EXCEPT !.k = update.k], t) = [n EXCEPT !.users = t, !.k = update.k]
    BY <1>1 DEF SetUsers, NodeOK, Node
  <2> HIDE DEF update
  <2>4. AgreesWhenRunning([n EXCEPT !.users = t, !.k = update.k])
    BY <1>1, <2>1, ServingInstalled
  <2> QED BY <2>2, <2>3, <2>4
<1>5. CASE ~update.ok
  <2>1. [n EXCEPT !.k = update.k] = n
    BY <1>1, <1>3, <1>5 DEF Effect, NodeOK, Node
  <2>2. /\ NodeOK(again.n) /\ again.n.cfg = n.cfg /\ again.n.users = n.users
        /\ again.n.k = Start(n.k, n.cfg, t, cert, f.fallback).k
        /\ again.ok = Start(n.k, n.cfg, t, cert, f.fallback).ok
    BY <1>1, StartKernelOK
  <2>3. \/ again.ok /\ Serving(again.n.k, n.cfg, t)
        \/ ~again.ok /\ again.n.k = n.k
    BY <1>1, <2>2, XrayStartEffect
  <2>4. InstallSnapshot(n, t, cert, f) =
          SetUsers(again.n, IF again.ok THEN t ELSE n.users)
    BY <1>2, <1>5, <2>1 DEF InstallSnapshot, Step
  <2>5. \A u : SetUsers(again.n, u) = [again.n EXCEPT !.users = u, !.k = again.n.k]
    BY <2>2 DEF SetUsers, NodeOK, Node
  <2> HIDE DEF again
  <2>6. CASE again.ok
    <3>1. AgreesWhenRunning([again.n EXCEPT !.users = t, !.k = again.n.k])
      BY <2>2, <2>3, <2>6, ServingInstalled
    <3> QED BY <2>4, <2>5, <2>6, <3>1
  <2>7. CASE ~again.ok
    <3>1. Serving(again.n.k, again.n.cfg, n.users)
      BY <2>2, <2>3, <2>7 DEF XrayAgrees
    <3>2. AgreesWhenRunning([again.n EXCEPT !.users = n.users, !.k = again.n.k])
      BY <2>2, <3>1, ServingInstalled
    <3> QED BY <2>4, <2>5, <2>7, <3>2
  <2> QED BY <2>6, <2>7
<1> QED BY <1>4, <1>5

LEMMA XrayDeltaAdd ==
  ASSUME NEW n, XrayAgrees(n), NEW d \in Table, Recredentialed(n.users, d) = {},
         NEW cert \in Nat, NEW f
  PROVE  AgreesWhenRunning(ApplyDeltaAdd(n, d, cert, f))
<1>1. /\ NodeOK(n) /\ KernelOK(n.k) /\ n.k.running /\ n.k.spec = n.cfg
      /\ n.k.type = "xray" /\ Serving(n.k, n.k.spec, n.users)
  BY DEF XrayAgrees, Serving, NodeOK
<1>2. EnsureRunning(n, cert, f.start) = Step(n, TRUE)
  BY <1>1 DEF EnsureRunning
<1>3. EvictRecredentialed(n.k, {}, f) = n.k
  <2>1. RemoveUsers(n.k, {}, "ok") = Result(n.k, TRUE)
    BY <1>1 DEF RemoveUsers
  <2>2. ({} \ f.kept) \cap DOMAIN n.k.users = {}
    OBVIOUS
  <2> QED BY <1>1, <2>1, <2>2 DEF EvictRecredentialed, Result
<1>4. ApplyDeltaAdd(n, d, cert, f) =
        FinishDelta(n, n.k, MergeUsers(n.users, d), AddUsers(n.k, d, f.apply), f)
  BY <1>2, <1>3 DEF ApplyDeltaAdd, Step
<1> QED BY <1>1, <1>4, XrayAddEffect, XrayFinishDelta

LEMMA XrayDeltaRemove ==
  ASSUME NEW n, XrayAgrees(n), NEW d \in Table, NEW f
  PROVE  AgreesWhenRunning(ApplyDeltaRemove(n, d, f))
<1>1. /\ NodeOK(n) /\ KernelOK(n.k) /\ n.k.running /\ n.k.type = "xray"
      /\ Serving(n.k, n.k.spec, n.users)
  BY DEF XrayAgrees, Serving, NodeOK
<1>2. ApplyDeltaRemove(n, d, f) =
        FinishDelta(n, n.k, SubtractUsers(n.users, DOMAIN d),
                    RemoveUsers(n.k, DOMAIN d, f.apply), f)
  BY <1>1 DEF ApplyDeltaRemove
<1> QED BY <1>1, <1>2, XrayRemoveEffect, XrayFinishDelta

LEMMA XrayReconcile ==
  ASSUME NEW n, XrayAgrees(n), NEW cert \in Nat, NEW f
  PROVE  AgreesWhenRunning(Reconcile(n, cert, f))
<1> DEFINE s == StartKernel(n, n.cfg, n.users, cert, f.start)
<1>1. NodeOK(n) /\ KernelOK(n.k) /\ n.cfg \in Configs /\ n.users \in Table
  BY DEF XrayAgrees, NodeOK, Node
<1>2. /\ s.n.cfg = n.cfg /\ s.n.users = n.users
      /\ s.n.k = Start(n.k, n.cfg, n.users, cert, f.start).k
      /\ NodeOK(s.n)
  <2>1. \A t \in Table : LET u == StartKernel(n, n.cfg, t, cert, f.start)
                         IN /\ NodeOK(u.n) /\ u.n.cfg = n.cfg /\ u.n.users = n.users
                            /\ u.n.k = Start(n.k, n.cfg, t, cert, f.start).k
    BY <1>1, StartKernelOK
  <2> QED BY <1>1, <2>1
<1>3. Serving(s.n.k, s.n.cfg, s.n.users)
  BY <1>1, <1>2, XrayStartEffect DEF XrayAgrees
<1>4. Reconcile(n, cert, f) \in {s.n, n}
  BY DEF Reconcile
<1> HIDE DEF s
<1> QED BY <1>3, <1>4, XrayUnchangedAgrees, AgreementIsServing DEF AgreesWhenRunning

LEMMA RollbackStep ==
  ASSUME IInv, BootInv, [Next]_vars,
         UserSync, node.k.type = "xray", node.k.running, Agreement(node)
  PROVE  Agreement(node') \/ ~node'.k.running
<1>1. XrayAgrees(node) /\ AgreesWhenRunning(node) /\ certs.version \in Nat
  BY AgreementIsServing DEF XrayAgrees, AgreesWhenRunning, IInv, TypeOK
<1>2. /\ pullResults \in Seq(PullResult) /\ wsEvents \in Seq(Event)
  BY DEF IInv, TypeOK
<1>3. CASE ~KernelStep
  <2>1. SameService \/ ~node'.k.running
    BY <1>3, OtherSteps DEF Next, OtherStep
  <2> QED BY <2>1 DEF SameService, Agreement, Serves, Frozen
<1>4. CASE KernelStep
  <2>1. PICK f : BootRest(f) \/ ReceivePullResult(f) \/ ReceiveWSEvent(f)
    BY <1>4 DEF KernelStep
  <2>2. ~BootRest(f)
    BY DEF BootRest, BootInv, NewNode, NewKernel
  <2>3. CASE ReceivePullResult(f)
    <3> DEFINE r == Head(pullResults)
    <3>1. IsPullResult(r) /\ pullResults # <<>> /\ wsEvents' = wsEvents
      BY <1>2, <2>3, HeadTailProperties DEF ReceivePullResult, IsPullResult, PullResult
    <3>2. ~Handles(wsEvents, wsEvents')
      <4>1. wsEvents # <<>> => Len(Tail(wsEvents)) = Len(wsEvents) - 1
        BY <1>2, HeadTailProperties
      <4>2. Len(wsEvents) \in Nat
        BY <1>2, LenProperties
      <4> QED BY <3>1, <4>1, <4>2 DEF Handles
    <3>3. r.cfg = NoConfig /\ ~r.cert
      BY <3>2 DEF UserSync
    <3>4. node' = ApplyPullResult(node, r, certs.version, f)
      BY <2>3 DEF ReceivePullResult
    <3> HIDE DEF r
    <3>5. ~AcceptedConfig(r)
      BY <3>3 DEF AcceptedConfig
    <3> DEFINE users == IF AcceptedUsers(node, r) THEN r.users ELSE node.users
    <3>6. users \in Table
      BY <3>1 DEF AcceptedUsers, RejectFetchedUsers, IsPullResult, IInv, NodeOK, Node
    <3>7. node' \in {InstallSnapshot(node, users, certs.version, f),
                     Reconcile(node, certs.version, f), node}
      BY <3>3, <3>4, <3>5 DEF ApplyPullResult
    <3> HIDE DEF users
    <3>8. AgreesWhenRunning(node')
      BY <1>1, <3>6, <3>7, XrayInstallSnapshot, XrayReconcile
    <3> QED BY <3>8 DEF AgreesWhenRunning
  <2>4. CASE ReceiveWSEvent(f)
    <3> DEFINE e == Head(wsEvents)
    <3>1. IsEvent(e) /\ wsEvents # <<>> /\ pullResults' = pullResults
      BY <1>2, <2>4, HeadTailProperties DEF ReceiveWSEvent, IsEvent, Event
    <3>2. ~Handles(pullResults, pullResults')
      <4>1. pullResults # <<>> => Len(Tail(pullResults)) = Len(pullResults) - 1
        BY <1>2, HeadTailProperties
      <4>2. Len(pullResults) \in Nat
        BY <1>2, LenProperties
      <4> QED BY <3>1, <4>1, <4>2 DEF Handles
    <3>3. /\ e.type \in {"users", "add", "remove"}
          /\ e.type = "add" => Recredentialed(node.users, e.users) = {}
      BY <3>2 DEF UserSync
    <3>4. node' = HandleWSEvent(node, e, certs.version, f)
      BY <2>4 DEF ReceiveWSEvent
    <3> HIDE DEF e
    <3>5. e.users \in Table
      BY <3>1, <3>3 DEF IsEvent
    <3>6. CASE e.type = "users"
      <4>1. node' \in {node, InstallSnapshot(node, e.users, certs.version, f)}
        BY <3>4, <3>6 DEF HandleWSEvent, ApplyUserUpdate
      <4> QED BY <1>1, <3>5, <4>1, XrayInstallSnapshot DEF AgreesWhenRunning
    <3>7. CASE e.type = "add"
      <4>1. node' = ApplyDeltaAdd(node, e.users, certs.version, f)
        BY <3>4, <3>7 DEF HandleWSEvent
      <4> QED BY <1>1, <3>3, <3>5, <3>7, <4>1, XrayDeltaAdd DEF AgreesWhenRunning
    <3>8. CASE e.type = "remove"
      <4>1. node' = ApplyDeltaRemove(node, e.users, f)
        BY <3>4, <3>8 DEF HandleWSEvent
      <4> QED BY <1>1, <3>5, <4>1, XrayDeltaRemove DEF AgreesWhenRunning
    <3> QED BY <3>3, <3>6, <3>7, <3>8
  <2> QED BY <2>1, <2>2, <2>3, <2>4
<1> QED BY <1>3, <1>4

\* On xray a user synchronisation in which any of the kernel calls fail, in any
\* combination, ends with the inbound serving the table the service remembers, or with
\* the kernel stopped: the rollback of FIXES.md section 6 is complete.
THEOREM Rollback == Spec => RollbackKeepsAgreement
<1>1. Init => BootInv
  BY DEF Init, BootInv
<1>2. IInv /\ BootInv /\ [Next]_vars =>
        [UserSync /\ node.k.type = "xray" /\ node.k.running /\ Agreement(node)
           => Agreement(node') \/ ~node'.k.running]_vars
  BY RollbackStep
<1> QED BY InitOK, StepOK, BootStep, <1>1, <1>2, PTL DEF Spec, RollbackKeepsAgreement
=============================================================================
