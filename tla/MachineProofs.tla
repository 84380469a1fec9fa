--------------------------- MODULE MachineProofs ---------------------------
(***************************************************************************)
(* Theorems about a machine node: no wake-up of its loop is lost, what the *)
(* inbound serves and what the service remembers agree with a mailbox in   *)
(* front of it too, and a settled node holds the panel's users.            *)
(***************************************************************************)
EXTENDS MachineNode, AgreementProofs

----------------------------------------------------------------------------
(* The mailbox's operations.                                               *)

\* A mailbox; what it hands out as a config is one.
MailboxOK(m) == m \in NodeMailbox /\ (m.dirtyConfig => m.config \in Configs)

LEMMA SeedBaselineType ==
  ASSUME NEW m, MailboxOK(m), NEW t \in Table, NEW c \in Configs \cup {NoConfig}
  PROVE  MailboxOK(SeedBaseline(m, t, c))
BY NoConfigAssumption DEF MailboxOK, SeedBaseline, NodeMailbox

LEMMA MarkReadyType ==
  ASSUME NEW m, MailboxOK(m)
  PROVE  MailboxOK(MarkReady(m))
BY DEF MailboxOK, MarkReady, NodeMailbox

LEMMA ApplyType ==
  ASSUME NEW m, MailboxOK(m), NEW e \in MachineEvent
  PROVE  MailboxOK(Apply(m, e))
<1>1. CASE e.type = "config"
  <2>1. e.cfg \in Configs
    BY <1>1 DEF MachineEvent, Event
  <2> QED BY <1>1, <2>1 DEF Apply, MailboxOK, NodeMailbox
<1>2. CASE e.type = "users"
  <2>1. e.users \in Table
    BY <1>2 DEF MachineEvent, Event
  <2> QED BY <1>2, <2>1 DEF Apply, MailboxOK, NodeMailbox
<1>3. CASE e.type = "devices"
  BY <1>3 DEF Apply, MailboxOK, NodeMailbox
<1>4. CASE e.type \in {"add", "remove", "other"}
  <2>1. e.users \in Table /\ m.users \in Table
    BY <1>4 DEF MachineEvent, Event, MailboxOK, NodeMailbox
  <2>2. MergeUsers(m.users, e.users) \in Table /\ SubtractUsers(m.users, DOMAIN e.users) \in Table
    BY <2>1, MergeType, SubtractType
  <2>3. MailboxOK(ApplyDelta(m, e))
    BY <2>2 DEF ApplyDelta, MailboxOK, NodeMailbox
  <2> QED BY <1>4, <2>3 DEF Apply
<1> QED BY <1>1, <1>2, <1>3, <1>4 DEF MachineEvent, Event

LEMMA DrainedType ==
  ASSUME NEW m, MailboxOK(m)
  PROVE  MailboxOK(Drained(m))
BY DEF MailboxOK, Drained, NodeMailbox

\* Handling what was drained keeps the node sound, whatever was in the mailbox.
LEMMA HandleDrainedOK ==
  ASSUME NodeOK(node), MailboxOK(mb), certs.version \in Nat
  PROVE  NodeOK(HandleDrained(node, mb))
<1> DEFINE Handle(e, i) == HandleWSEvent(i, e, certs.version, NoFaults)
           config  == IF mb.dirtyConfig
                        THEN Handle([type |-> "config", cfg |-> mb.config], node) ELSE node
           users   == IF mb.dirtyUsers /\ DOMAIN mb.users # {}
                        THEN Handle([type |-> "users", users |-> mb.users], config) ELSE config
           devices == IF mb.dirtyDevices THEN Handle([type |-> "devices"], users) ELSE users
<1>1. NodeOK(config)
  <2>1. CASE mb.dirtyConfig
    <3>1. IsEvent([type |-> "config", cfg |-> mb.config])
      BY <2>1 DEF MailboxOK, IsEvent
    <3> QED BY <2>1, <3>1, HandleWSEventOK
  <2> QED BY <2>1
<1> HIDE DEF config
<1>2. NodeOK(users)
  <2>1. mb.users \in Table
    BY DEF MailboxOK, NodeMailbox
  <2>2. IsEvent([type |-> "users", users |-> mb.users])
    BY <2>1 DEF IsEvent
  <2> QED BY <1>1, <2>2, HandleWSEventOK
<1> HIDE DEF users
<1>3. NodeOK(devices)
  <2>1. IsEvent([type |-> "devices"])
    BY DEF IsEvent
  <2> QED BY <1>2, <2>1, HandleWSEventOK
<1> QED BY <1>3 DEF HandleDrained, users, config

----------------------------------------------------------------------------
(* Type correctness and the soundness of the node.                         *)

\* The mailbox and the goroutines' places; what startup adopts is a config.
MachinePart ==
  /\ MailboxOK(mb)
  /\ notified \in BOOLEAN
  /\ mux \in {"idle", "notify"}
  /\ wire \in Seq(MachineEvent)
  /\ loop \in [pc : LoopPcs, cfg : Configs \cup {NoConfig}, users : Table]
  /\ (At("start") => loop.cfg \in Configs)
  /\ strayed \in BOOLEAN

\* The invariant of the service and that of what surrounds it.
MachineInv == IInv /\ MachinePart

LEMMA MachineInitOK == MachineInit => MachineInv
<1> SUFFICES ASSUME MachineInit PROVE MachineInv
  OBVIOUS
<1>1. IInv
  BY InitOK DEF MachineInit
<1>2. MailboxOK(mb)
  BY EmptyTableType DEF MachineInit, MailboxOK, NewNodeMailbox, NodeMailbox
<1>3. loop \in [pc : LoopPcs, cfg : Configs \cup {NoConfig}, users : Table] /\ ~At("start")
  BY EmptyTableType DEF MachineInit, LoopPcs, At
<1>4. wire \in Seq(MachineEvent)
  BY DEF MachineInit
<1> QED BY <1>1, <1>2, <1>3, <1>4 DEF MachineInit, MachineInv, MachinePart

\* A step of the service alone keeps its invariant.
LEMMA ServiceStepOK ==
  ASSUME IInv, SelectOther \/ MachinePull \/ BootFails
  PROVE  IInv'
<1>1. CASE SelectOther
  <2>1. CASE ReceivePullResult(NoFaults) /\ UNCHANGED budget
    <3>1. NodeOK(node') /\ pullResults' \in Seq(PullResult) /\ Len(pullResults') <= 1
      BY <2>1, ReceivePullResultOK
    <3> QED BY <2>1, <3>1 DEF ReceivePullResult, IInv, TypeOK, NodeOK
  <2>2. CASE ReceiveWSStatus \/ PullTick
    BY <2>2, StatusLoopOK
  <2>3. CASE Shutdown
    BY <2>3, BootAndShutdownOK
  <2> QED BY <1>1, <2>1, <2>2, <2>3 DEF SelectOther
<1>2. CASE MachinePull
  BY <1>2, PullGoroutineOK DEF MachinePull
<1>3. CASE BootFails
  BY <1>3, BootAndShutdownOK
<1> QED BY <1>1, <1>2, <1>3

\* What surrounds the service is left alone but for the history variable.
LEMMA BystanderPart ==
  ASSUME MachinePart, UNCHANGED <<mb, notified, mux, wire, loop>>, strayed' \in BOOLEAN
  PROVE  MachinePart'
BY DEF MachinePart, MailboxOK, At

LEMMA FetchOK ==
  ASSUME MachineInv, MachineFetch
  PROVE  MachineInv'
<1>1. panel.cfg \in Configs /\ panel.users \in Table
  BY DEF MachineInv, IInv, TypeOK, Panel
<1>2. IInv'
  BY <1>1 DEF MachineFetch, MachineInv, IInv, TypeOK
<1>3. MachinePart'
  BY <1>1 DEF MachineFetch, MachineInv, MachinePart, MailboxOK, LoopPcs, At
<1> QED BY <1>2, <1>3 DEF MachineInv

LEMMA StartOK ==
  ASSUME MachineInv, MachineStart
  PROVE  MachineInv'
<1> DEFINE booted == BootedNode(loop.cfg, loop.users)
           s      == StartKernel(booted, loop.cfg, loop.users, certs.version, "ok")
<1>1. /\ NodeOK(node) /\ certs.version \in Nat /\ MailboxOK(mb)
      /\ loop.cfg \in Configs /\ loop.users \in Table
  BY DEF MachineInv, IInv, TypeOK, MachinePart, MachineStart
<1>2. NodeOK(booted) /\ booted.cfg = loop.cfg
  BY <1>1, BootedNodeOK
<1>3. NodeOK(s.n)
  BY <1>1, <1>2, StartKernelOK
<1>4. MailboxOK(SeedBaseline(mb, loop.users, loop.cfg))
  BY <1>1, SeedBaselineType
<1>5. node' \in {node, booted, s.n} /\ phase' \in {"boot", "failed"}
  BY DEF MachineStart
<1>6. NodeOK(node')
  BY <1>1, <1>2, <1>3, <1>5
<1>7. IInv'
  BY <1>5, <1>6 DEF MachineStart, MachineInv, IInv, TypeOK, NodeOK
<1>8. mb' \in {mb, SeedBaseline(mb, loop.users, loop.cfg)}
  BY DEF MachineStart
<1>9. MailboxOK(mb')
  BY <1>1, <1>4, <1>8
<1>10. /\ loop' \in [pc : LoopPcs, cfg : Configs \cup {NoConfig}, users : Table]
       /\ (loop'.pc = "start" => loop'.cfg \in Configs)
  BY <1>1 DEF MachineStart, MachineInv, MachinePart, Goto, LoopPcs
<1>11. MachinePart'
  BY <1>9, <1>10 DEF MachineStart, MachineInv, MachinePart, MailboxOK, At
<1> QED BY <1>7, <1>11 DEF MachineInv

LEMMA DrainOK ==
  ASSUME MachineInv, Drain
  PROVE  MachineInv'
<1> DEFINE after   == HandleDrained(node, mb)
           p       == IF mb.needsReconcile THEN RequestWSResync(pull) ELSE pull
           started == pull.pc = "idle" /\ p.pc # "idle"
           q       == IF started THEN [p EXCEPT !.base = after.cfg] ELSE p
<1>1. /\ NodeOK(node) /\ MailboxOK(mb) /\ certs.version \in Nat
      /\ pull \in Pull /\ node.cfg \in Configs \cup {NoConfig}
      /\ certs \in [version : Nat, renewed : BOOLEAN]
  BY DEF MachineInv, MachinePart, IInv, TypeOK, Node
<1>2. NodeOK(after)
  BY <1>1, HandleDrainedOK
<1>3. /\ node' = (IF phase = "boot" THEN [after EXCEPT !.deferred = TRUE] ELSE after)
      /\ StartPull(q) /\ phase' = "loop" /\ mb' = Drained(mb) /\ Goto("select")
  BY DEF Drain
<1>4. p \in Pull
  BY <1>1, PullViaAPIType DEF RequestWSResync
<1> HIDE DEF p, after
<1>5. q \in Pull
  BY <1>2, <1>4 DEF Pull, NodeOK, Node
<1>6. pull' \in Pull /\ certs' \in [version : Nat, renewed : BOOLEAN]
  BY <1>1, <1>3, <1>5, StartPullType
<1>7. NodeOK(node')
  BY <1>2, <1>3 DEF NodeOK, Node
<1>8. IInv'
  BY <1>3, <1>6, <1>7 DEF Drain, MachineInv, MachinePart, MailboxOK, NodeMailbox, IInv, TypeOK, NodeOK
<1>9. MailboxOK(mb')
  BY <1>1, <1>3, DrainedType
<1>10. /\ loop' \in [pc : LoopPcs, cfg : Configs \cup {NoConfig}, users : Table]
       /\ loop'.pc = "select"
  BY <1>3 DEF MachineInv, MachinePart, Goto, LoopPcs
<1>11. strayed' \in BOOLEAN
  BY DEF Drain, MachineInv, MachinePart
<1>12. MachinePart'
  BY <1>9, <1>10, <1>11 DEF Drain, MachineInv, MachinePart, MailboxOK, At
<1> QED BY <1>8, <1>12 DEF MachineInv

LEMMA MuxApplyOK ==
  ASSUME MachineInv, MuxApply
  PROVE  MachineInv'
<1>1. Head(wire) \in MachineEvent /\ Tail(wire) \in Seq(MachineEvent)
  BY HeadTailProperties DEF MachineInv, MachinePart, MuxApply
<1>2. MailboxOK(Apply(mb, Head(wire)))
  BY <1>1, ApplyType DEF MachineInv, MachinePart
<1>3. mb' \in {mb, Apply(mb, Head(wire))}
  BY DEF MuxApply
<1>4. MailboxOK(mb')
  BY <1>2, <1>3 DEF MachineInv, MachinePart
<1>5. MachinePart'
  BY <1>1, <1>4 DEF MuxApply, MachineInv, MachinePart, MailboxOK, At
<1>6. IInv'
  BY DEF MuxApply, nodeVars, vars, MachineInv, IInv, TypeOK, EventsOK
<1> QED BY <1>5, <1>6 DEF MachineInv

LEMMA BroadcastOK ==
  ASSUME MachineInv, NEW connected \in BOOLEAN, Broadcast(connected)
  PROVE  wsStatusCh' \in Seq(Status) /\ Len(wsStatusCh') <= StatusCap
<1>1. wsStatusCh \in Seq(Status) /\ Len(wsStatusCh) <= StatusCap
  BY DEF MachineInv, IInv, TypeOK
<1>2. [connected |-> connected, resync |-> FALSE] \in Status
  BY DEF Status
<1> QED BY <1>1, <1>2, OfferStatusOK DEF Broadcast

LEMMA MuxConnectionOK ==
  ASSUME MachineInv, MuxConnect \/ MuxDisconnect
  PROVE  MachineInv'
<1>1. CASE MuxConnect
  <2>1. wsStatusCh' \in Seq(Status) /\ Len(wsStatusCh') <= StatusCap
    BY <1>1, BroadcastOK DEF MuxConnect
  <2>2. IInv'
    BY <1>1, <2>1 DEF MuxConnect, MachineInv, IInv, TypeOK
  <2>3. MachinePart'
    BY <1>1, BystanderPart DEF MuxConnect, machineVars, MachineInv, MachinePart
  <2> QED BY <2>2, <2>3 DEF MachineInv
<1>2. CASE MuxDisconnect
  <2>1. wsStatusCh' \in Seq(Status) /\ Len(wsStatusCh') <= StatusCap
    BY <1>2, BroadcastOK DEF MuxDisconnect
  <2>2. budget' \in [BudgetKinds -> Nat]
    BY <1>2, BudgetOK DEF MuxDisconnect, MachineInv
  <2>3. IInv'
    BY <1>2, <2>1, <2>2 DEF MuxDisconnect, MachineInv, IInv, TypeOK
  <2>4. MachinePart'
    BY <1>2 DEF MuxDisconnect, MachineInv, MachinePart, MailboxOK, At
  <2> QED BY <2>3, <2>4 DEF MachineInv
<1> QED BY <1>1, <1>2

LEMMA SendOK ==
  ASSUME MachineInv, NEW e \in MachineEvent, Send(e),
         panel' \in Panel, Spend("edits", 1)
  PROVE  MachineInv'
<1>1. budget' \in [BudgetKinds -> Nat]
  BY BudgetOK DEF MachineInv
<1>2. IInv'
  BY <1>1 DEF Send, MachineInv, IInv, TypeOK
<1>3. wire' \in Seq(MachineEvent)
  BY AppendProperties DEF Send, MachineInv, MachinePart
<1>4. strayed' \in BOOLEAN
  BY DEF Send
<1>5. MachinePart'
  BY <1>3, <1>4 DEF Send, MachineInv, MachinePart, MailboxOK, At
<1> QED BY <1>2, <1>5 DEF MachineInv

LEMMA PanelOK ==
  ASSUME MachineInv,
         \/ \E c \in Configs : PanelEditsConfig(c)
         \/ \E t \in PanelTables : PanelEditsUsers(t)
         \/ PanelSendsDevices
  PROVE  MachineInv'
<1>1. panel \in Panel /\ PanelTables \subseteq Table
  BY CapsAssumption DEF MachineInv, IInv, TypeOK
<1>2. ASSUME NEW c \in Configs, PanelEditsConfig(c) PROVE MachineInv'
  <2>1. [type |-> "config", cfg |-> c] \in MachineEvent
    BY DEF MachineEvent, Event
  <2> QED BY <1>1, <1>2, <2>1, SendOK DEF PanelEditsConfig, Panel
<1>3. ASSUME NEW t \in PanelTables, PanelEditsUsers(t) PROVE MachineInv'
  <2>1. PICK e \in PushesFor(panel.users, t) \cup [type : {"other"}, users : {t}] : Send(e)
    BY <1>3 DEF PanelEditsUsers
  <2>2. e \in MachineEvent
    BY <1>1, <2>1, PushesForOK DEF MachineEvent, Panel
  <2> QED BY <1>1, <1>3, <2>1, <2>2, SendOK DEF PanelEditsUsers, Panel
<1>4. CASE PanelSendsDevices
  <2>1. [type |-> "devices"] \in MachineEvent
    BY DEF MachineEvent, Event
  <2> QED BY <1>1, <1>4, <2>1, SendOK DEF PanelSendsDevices
<1> QED BY <1>2, <1>3, <1>4

LEMMA MachineStepOK ==
  ASSUME MachineInv, [MachineNext]_allVars
  PROVE  MachineInv'
<1>1. CASE At("fetch") /\ BootFails /\ UNCHANGED machineVars
  BY <1>1, ServiceStepOK, BystanderPart DEF MachineInv, MachinePart, machineVars
<1>2. CASE MachineFetch \/ MachineStart
  BY <1>2, FetchOK, StartOK
<1>3. CASE MachineMarkReady
  <2>1. MailboxOK(mb')
    BY <1>3, MarkReadyType DEF MachineMarkReady, MachineInv, MachinePart
  <2>2. MachinePart'
    BY <1>3, <2>1
       DEF MachineMarkReady, MachineInv, MachinePart, MailboxOK, Goto, LoopPcs, At
  <2>3. IInv'
    BY <1>3 DEF MachineMarkReady, nodeVars, vars, MachineInv, IInv, TypeOK
  <2> QED BY <2>2, <2>3 DEF MachineInv
<1>4. CASE TakeToken
  <2>1. MachinePart'
    BY <1>4 DEF TakeToken, MachineInv, MachinePart, MailboxOK, Goto, LoopPcs, At
  <2>2. IInv'
    BY <1>4 DEF TakeToken, nodeVars, vars, MachineInv, IInv, TypeOK
  <2> QED BY <2>1, <2>2 DEF MachineInv
<1>5. CASE Drain
  BY <1>5, DrainOK
<1>6. CASE SelectOther
  <2>1. strayed' \in BOOLEAN
    BY <1>6 DEF SelectOther, MachineInv, MachinePart
  <2> QED BY <1>6, <2>1, ServiceStepOK, BystanderPart DEF SelectOther, MachineInv
<1>7. CASE MachinePull
  BY <1>7, ServiceStepOK, BystanderPart DEF MachinePull, machineVars, MachineInv, MachinePart
<1>8. CASE MuxApply
  BY <1>8, MuxApplyOK
<1>9. CASE MuxNotify
  <2>1. MachinePart'
    BY <1>9 DEF MuxNotify, Notify, MachineInv, MachinePart, MailboxOK, At
  <2>2. IInv'
    BY <1>9 DEF MuxNotify, nodeVars, vars, MachineInv, IInv, TypeOK
  <2> QED BY <2>1, <2>2 DEF MachineInv
<1>10. CASE MuxConnect \/ MuxDisconnect
  BY <1>10, MuxConnectionOK
<1>11. CASE \/ \E c \in Configs : PanelEditsConfig(c)
            \/ \E t \in PanelTables : PanelEditsUsers(t)
            \/ PanelSendsDevices
  BY <1>11, PanelOK
<1>12. CASE UNCHANGED allVars
  BY <1>12, BystanderPart
     DEF allVars, nodeVars, vars, machineVars, MachineInv, MachinePart, IInv, TypeOK
<1> QED BY <1>1, <1>2, <1>3, <1>4, <1>5, <1>6, <1>7, <1>8, <1>9, <1>10, <1>11, <1>12
        DEF MachineNext

\* Every variable of a machine node keeps its type, and its channels their capacities, in
\* every run of startup, loop, pull goroutine and shared WebSocket.
THEOREM MachineTypeCorrect == MachineSpec => []MachineTypeOK
<1>1. MachineInv => MachineTypeOK
  BY DEF MachineInv, MachinePart, MailboxOK, IInv, MachineTypeOK
<1> QED BY MachineInitOK, MachineStepOK, <1>1, PTL DEF MachineSpec

----------------------------------------------------------------------------
(* No wake-up is lost.                                                     *)

\* The steps that touch neither mailbox nor token nor the goroutines' places.
LEMMA BystandersWakeup ==
  ASSUME NoLostWakeup, UNCHANGED <<mb, notified, mux, loop>>, Alive' => Alive
  PROVE  NoLostWakeup'
BY DEF NoLostWakeup, Dirty, At

LEMMA SelectOtherKeepsMachine ==
  ASSUME SelectOther
  PROVE  UNCHANGED <<mb, notified, mux, loop>> /\ (Alive' => Alive)
BY DEF SelectOther, ReceivePullResult, ReceiveWSStatus, PullTick, Shutdown, Alive

LEMMA MachinePullKeepsMachine ==
  ASSUME MachinePull
  PROVE  UNCHANGED <<mb, notified, mux, loop>> /\ (Alive' => Alive)
BY DEF MachinePull, machineVars, PullGoroutine, PollConfig, PollUsers, PollSend, PollDone,
       PollFrame, Alive

LEMMA WakeupStep ==
  ASSUME NoLostWakeup, MailboxOK(mb), [MachineNext]_allVars
  PROVE  NoLostWakeup'
<1>1. CASE At("fetch") /\ BootFails /\ UNCHANGED machineVars
  BY <1>1, BystandersWakeup DEF BootFails, machineVars, Alive
<1>2. CASE MachineFetch
  BY <1>2 DEF MachineFetch, NoLostWakeup, Dirty, At, Alive
<1>3. CASE MachineStart
  BY <1>3 DEF MachineStart, SeedBaseline, MailboxOK, NodeMailbox, NoLostWakeup, Dirty, At, Goto,
              Alive
<1>4. CASE MachineMarkReady
  BY <1>4 DEF MachineMarkReady, NoLostWakeup
<1>5. CASE TakeToken
  BY <1>5 DEF TakeToken, NoLostWakeup, At, Goto
<1>6. CASE Drain
  BY <1>6 DEF Drain, Drained, NoLostWakeup, Dirty
<1>7. CASE SelectOther
  BY <1>7, SelectOtherKeepsMachine, BystandersWakeup
<1>8. CASE MachinePull
  BY <1>8, MachinePullKeepsMachine, BystandersWakeup
<1>9. CASE MuxApply
  BY <1>9 DEF MuxApply, NoLostWakeup, Dirty, At, nodeVars, vars, Alive
<1>10. CASE MuxNotify
  BY <1>10 DEF MuxNotify, Notify, NoLostWakeup
<1>11. CASE MuxConnect \/ MuxDisconnect
  BY <1>11, BystandersWakeup DEF MuxConnect, MuxDisconnect, machineVars, Alive
<1>12. CASE \/ \E c \in Configs : PanelEditsConfig(c)
            \/ \E t \in PanelTables : PanelEditsUsers(t)
            \/ PanelSendsDevices
  BY <1>12, BystandersWakeup
     DEF PanelEditsConfig, PanelEditsUsers, PanelSendsDevices, Send, Alive
<1>13. CASE UNCHANGED allVars
  BY <1>13, BystandersWakeup DEF allVars, nodeVars, vars, machineVars, Alive
<1> QED BY <1>1, <1>2, <1>3, <1>4, <1>5, <1>6, <1>7, <1>8, <1>9, <1>10, <1>11, <1>12, <1>13
        DEF MachineNext

\* Whatever waits in a ready mailbox, the loop will look: Apply unlocks before it
\* notifies, and the loop takes the token before it drains.
THEOREM Wakeup == MachineSpec => []NoLostWakeup
<1>1. MachineInit => NoLostWakeup
  BY DEF MachineInit, NewNodeMailbox, NoLostWakeup, Dirty
<1>2. MachineInv => MailboxOK(mb)
  BY DEF MachineInv, MachinePart
<1> QED BY <1>1, <1>2, WakeupStep, MachineInitOK, MachineStepOK, PTL DEF MachineSpec

----------------------------------------------------------------------------
(* What the node serves.                                                   *)

\* The snapshot is being fetched, or not yet put into use.
Starting == At("fetch") \/ At("start")

\* A machine node's kernel calls succeed, and until its first start there is no kernel.
ServedInv ==
  /\ Starting => ~node.k.running
  /\ AgreesWhenRunning(node)

LEMMA HandleDrainedAgrees ==
  ASSUME NodeOK(node), AgreesWhenRunning(node), MailboxOK(mb), certs.version \in Nat
  PROVE  /\ AgreesWhenRunning(HandleDrained(node, mb))
         /\ HandleDrained(node, mb).users \in {node.users, mb.users}
         /\ ~mb.dirtyUsers => HandleDrained(node, mb).users = node.users
<1> DEFINE Handle(e, i) == HandleWSEvent(i, e, certs.version, NoFaults)
           config  == IF mb.dirtyConfig
                        THEN Handle([type |-> "config", cfg |-> mb.config], node) ELSE node
           users   == IF mb.dirtyUsers /\ DOMAIN mb.users # {}
                        THEN Handle([type |-> "users", users |-> mb.users], config) ELSE config
           devices == IF mb.dirtyDevices THEN Handle([type |-> "devices"], users) ELSE users
<1>1. NodeOK(config) /\ AgreesWhenRunning(config) /\ config.users = node.users
  <2>1. CASE mb.dirtyConfig
    <3> DEFINE e == [type |-> "config", cfg |-> mb.config]
    <3>1. IsEvent(e) /\ e.type = "config" /\ e.cfg \in Configs
      BY <2>1 DEF MailboxOK, IsEvent
    <3>2. config = HandleWSEvent(node, e, certs.version, NoFaults)
      BY <2>1
    <3> HIDE DEF e, config
    <3>3. NodeOK(config) /\ AgreesWhenRunning(config)
      BY <3>1, <3>2, HandleWSEventOK, HandleWSEventAgrees
    <3>4. config.users = node.users
      BY <3>1, <3>2, AdoptConfigOK, AdoptConfigUsers, ApplyChangesUsers DEF HandleWSEvent
    <3> QED BY <3>3, <3>4
  <2>2. CASE ~mb.dirtyConfig
    BY <2>2
  <2> QED BY <2>1, <2>2
<1> HIDE DEF config
<1>2. /\ NodeOK(users) /\ AgreesWhenRunning(users) /\ users.users \in {node.users, mb.users}
      /\ ~mb.dirtyUsers => users.users = node.users
  <2>1. CASE mb.dirtyUsers /\ DOMAIN mb.users # {}
    <3> DEFINE e == [type |-> "users", users |-> mb.users]
    <3>1. IsEvent(e) /\ e.type = "users" /\ e.users = mb.users /\ mb.users \in Table
      BY DEF MailboxOK, NodeMailbox, IsEvent
    <3>2. users = HandleWSEvent(config, e, certs.version, NoFaults)
      BY <2>1
    <3> HIDE DEF e, users
    <3>3. NodeOK(users) /\ AgreesWhenRunning(users)
      BY <1>1, <3>1, <3>2, HandleWSEventOK, HandleWSEventAgrees
    <3>4. users \in {config, InstallSnapshot(config, mb.users, certs.version, NoFaults)}
      BY <3>1, <3>2 DEF HandleWSEvent, ApplyUserUpdate
    <3> QED BY <1>1, <2>1, <3>1, <3>3, <3>4, InstallSnapshotUsers
  <2>2. CASE ~(mb.dirtyUsers /\ DOMAIN mb.users # {})
    BY <1>1, <2>2
  <2> QED BY <2>1, <2>2
<1> HIDE DEF users
<1>3. AgreesWhenRunning(devices) /\ devices.users = users.users
  <2>1. CASE mb.dirtyDevices
    <3> DEFINE e == [type |-> "devices"]
    <3>1. IsEvent(e) /\ e.type = "devices"
      BY DEF IsEvent
    <3>2. devices = HandleWSEvent(users, e, certs.version, NoFaults)
      BY <2>1
    <3> HIDE DEF e, devices
    <3> QED BY <1>2, <3>1, <3>2, HandleWSEventAgrees DEF HandleWSEvent, NodeOK, Node
  <2>2. CASE ~mb.dirtyDevices
    BY <1>2, <2>2
  <2> QED BY <2>1, <2>2
<1>4. HandleDrained(node, mb) = devices
  BY DEF HandleDrained, users, config
<1> HIDE DEF devices
<1> QED BY <1>2, <1>3, <1>4

\* What the snapshot makes of the node: its users, and a kernel that serves them.
LEMMA StartAgrees ==
  ASSUME MachineInv, ServedInv, MachineStart
  PROVE  /\ AgreesWhenRunning(node')
         /\ phase' = "boot" => /\ node'.users = loop.users /\ node'.cfg \in Configs
                               /\ ~Starting'
         /\ phase' # "boot" => UNCHANGED <<node, mb, loop>>
<1> DEFINE booted == BootedNode(loop.cfg, loop.users)
           s      == StartKernel(booted, loop.cfg, loop.users, certs.version, "ok")
<1>1. /\ NodeOK(node) /\ certs.version \in Nat /\ loop.cfg \in Configs /\ loop.users \in Table
      /\ ~node.k.running
  BY DEF MachineInv, IInv, TypeOK, MachinePart, MachineStart, ServedInv, Starting
<1>2. /\ NodeOK(booted) /\ booted.cfg = loop.cfg /\ booted.users = loop.users
      /\ ~booted.k.running
  BY <1>1, BootedNodeOK, AdoptConfigIdle
<1>3. AgreesWhenRunning(s.n) /\ s.n.users = loop.users /\ s.n.cfg = loop.cfg
  BY <1>1, <1>2, StartKernelAgrees, AgreementIsServing DEF AgreesWhenRunning
<1>4. CASE loop.cfg \in BadRuntime
  BY <1>4 DEF MachineStart, ServedInv
<1>5. CASE loop.cfg \notin BadRuntime
  <2>1. node' \in {booted, s.n} /\ phase' = "boot" /\ Goto("mark")
    BY <1>5 DEF MachineStart
  <2>2. ~Starting'
    BY <2>1 DEF Goto, Starting, At, MachineInv, MachinePart
  <2> QED BY <1>1, <1>2, <1>3, <2>1, <2>2 DEF AgreesWhenRunning
<1> QED BY <1>4, <1>5

\* Any step but a start, a drain or a pull result leaves the users, and what is served,
\* alone.
LEMMA ServiceAside ==
  ASSUME MachineInv, SelectOther \/ MachinePull \/ BootFails,
         ~(SelectOther /\ ReceivePullResult(NoFaults))
  PROVE  SameService \/ (~node'.k.running /\ node'.users = node.users)
BY OtherSteps DEF MachineInv, SelectOther, MachinePull, OtherStep

LEMMA ServedStep ==
  ASSUME MachineInv, ServedInv, [MachineNext]_allVars
  PROVE  ServedInv'
<1>1. ASSUME SameService \/ ~node'.k.running, Starting' => Starting
      PROVE  ServedInv'
  BY <1>1 DEF ServedInv, SameService, AgreesWhenRunning, Agreement, Serves, Frozen
<1>2. ASSUME UNCHANGED node, Starting' => Starting
      PROVE  ServedInv'
  BY <1>1, <1>2 DEF SameService
<1>3. CASE (At("fetch") /\ BootFails /\ UNCHANGED machineVars) \/ MachinePull
  <2>1. (Starting' => Starting)
    BY <1>3 DEF machineVars, MachinePull, Starting, At
  <2>2. UNCHANGED node
    BY <1>3 DEF BootFails, MachinePull, PullGoroutine, PollConfig, PollUsers, PollSend,
                PollDone, PollFrame
  <2> QED BY <1>2, <2>1, <2>2
<1>4. CASE MachineFetch
  BY <1>2, <1>4 DEF MachineFetch, Starting
<1>5. CASE MachineStart
  <2>1. phase' # "boot" => ServedInv'
    BY <1>2, <1>5, StartAgrees DEF Starting, At
  <2> QED BY <1>5, <2>1, StartAgrees DEF ServedInv
<1>6. CASE MachineMarkReady \/ TakeToken
  BY <1>2, <1>6
     DEF MachineMarkReady, TakeToken, nodeVars, vars, Goto, Starting, At, MachineInv, MachinePart
<1>7. CASE Drain
  <2> DEFINE after == HandleDrained(node, mb)
  <2>1. NodeOK(after) /\ AgreesWhenRunning(after)
    BY HandleDrainedOK, HandleDrainedAgrees
       DEF MachineInv, MachinePart, IInv, TypeOK, ServedInv
  <2>2. node' \in {after, [after EXCEPT !.deferred = TRUE]} /\ Goto("select")
    BY <1>7 DEF Drain
  <2> HIDE DEF after
  <2>3. /\ [after EXCEPT !.deferred = TRUE].k = after.k
        /\ [after EXCEPT !.deferred = TRUE].cfg = after.cfg
        /\ [after EXCEPT !.deferred = TRUE].users = after.users
    BY <2>1 DEF NodeOK, Node
  <2>4. AgreesWhenRunning(node')
    BY <2>1, <2>2, <2>3 DEF AgreesWhenRunning, Agreement
  <2>5. ~Starting'
    BY <2>2 DEF Goto, Starting, At, MachineInv, MachinePart
  <2> QED BY <2>4, <2>5 DEF ServedInv
<1>8. CASE SelectOther
  <2>1. ~Starting'
    BY <1>8 DEF SelectOther, Starting, At
  <2>2. CASE ReceivePullResult(NoFaults)
    <3>1. pullResults \in Seq(PullResult) /\ pullResults # <<>> /\ certs.version \in Nat
      BY <2>2 DEF MachineInv, IInv, TypeOK, ReceivePullResult
    <3>2. IsPullResult(Head(pullResults))
      BY <3>1, HeadTailProperties DEF IsPullResult, PullResult
    <3>3. AgreesWhenRunning(node')
      BY <2>2, <3>1, <3>2, ApplyPullResultAgrees
         DEF ReceivePullResult, MachineInv, IInv, ServedInv
    <3> QED BY <2>1, <3>3 DEF ServedInv
  <2>3. CASE ~ReceivePullResult(NoFaults)
    BY <1>1, <1>8, <2>1, <2>3, ServiceAside
  <2> QED BY <2>2, <2>3
<1>9. CASE MuxApply \/ MuxNotify
  BY <1>2, <1>9 DEF MuxApply, MuxNotify, nodeVars, vars, Starting, At
<1>10. CASE MuxConnect \/ MuxDisconnect
  BY <1>2, <1>10 DEF MuxConnect, MuxDisconnect, machineVars, Starting, At
<1>11. CASE \/ \E c \in Configs : PanelEditsConfig(c)
            \/ \E t \in PanelTables : PanelEditsUsers(t)
            \/ PanelSendsDevices
  BY <1>2, <1>11
     DEF PanelEditsConfig, PanelEditsUsers, PanelSendsDevices, Send, Starting, At
<1>12. CASE UNCHANGED allVars
  BY <1>2, <1>12 DEF allVars, nodeVars, vars, machineVars, Starting, At
<1> QED BY <1>3, <1>4, <1>5, <1>6, <1>7, <1>8, <1>9, <1>10, <1>11, <1>12 DEF MachineNext

\* Whatever the mailbox folded together before, during and after startup, a running
\* kernel runs the service's config and its inbound authenticates exactly the users the
\* service remembers (drainMachineMailbox hands everything to handleWSEvent), unless the
\* config is hysteria version 1 on sing-box.
THEOREM MachineServed == MachineSpec => []MemoryIsServed
<1>1. MachineInit => ServedInv
  BY DEF MachineInit, Init, NewNode, NewKernel, ServedInv, AgreesWhenRunning
<1>2. ServedInv => MemoryIsServed
  BY DEF ServedInv, AgreesWhenRunning, MemoryIsServed
<1> QED BY <1>1, <1>2, ServedStep, MachineInitOK, MachineStepOK, PTL DEF MachineSpec

----------------------------------------------------------------------------
(* What a drain and a pull make of the users.                              *)

\* There is nobody to serve and no kernel.
Idle(n) == ~n.k.running /\ n.users = EmptyTable

LEMMA NobodyIsEmpty ==
  ASSUME NEW t \in Table, DOMAIN t = {}
  PROVE  t = EmptyTable
<1>1. t = [i \in DOMAIN t |-> t[i]]
  BY TableIsFunction
<1> QED BY <1>1 DEF EmptyTable

LEMMA ApplyChangesKeeps ==
  ASSUME NEW n, NodeOK(n), NEW cert \in Nat, NEW f
  PROVE  /\ ApplyChanges(n, cert, f).cfg = n.cfg
         /\ n.users = EmptyTable => Idle(ApplyChanges(n, cert, f))
<1>1. ApplyChanges(n, cert, f).cfg = n.cfg
  BY DEF ApplyChanges, StartKernel, Step, EnsureKernelType, NodeOK, Node
<1>2. ASSUME n.users = EmptyTable
      PROVE  Idle(ApplyChanges(n, cert, f))
  <2>1. ApplyChanges(n, cert, f) = [n EXCEPT !.k = Stop(n.k)]
    BY <1>2 DEF ApplyChanges, EmptyTable
  <2>2. /\ [n EXCEPT !.k = Stop(n.k)].k = Stop(n.k)
        /\ [n EXCEPT !.k = Stop(n.k)].users = n.users
    BY DEF NodeOK, Node
  <2> QED BY <1>2, <2>1, <2>2, StopType DEF Idle, NodeOK
<1> QED BY <1>1, <1>2

LEMMA InstallSnapshotKeeps ==
  ASSUME NEW n, NodeOK(n), NEW t \in Table, NEW cert \in Nat, NEW f
  PROVE  /\ InstallSnapshot(n, t, cert, f).cfg = n.cfg
         /\ Idle(n) => InstallSnapshot(n, t, cert, f) = n
<1>1. InstallSnapshot(n, t, cert, f).cfg = n.cfg
  <2> DEFINE up     == EnsureRunning(n, cert, f.start)
             update == UpdateUsers(up.n.k, t, f.apply)
             after  == [up.n EXCEPT !.k = update.k]
             again  == StartKernel(after, after.cfg, t, cert, f.fallback)
  <2>1. NodeOK(up.n) /\ up.n.cfg = n.cfg
    BY EnsureRunningOK
  <2> HIDE DEF up
  <2>2. "cfg" \in DOMAIN after /\ after.cfg = n.cfg
    BY <2>1 DEF NodeOK, Node
  <2> HIDE DEF after
  <2>3. "cfg" \in DOMAIN again.n /\ again.n.cfg = n.cfg
    BY <2>2 DEF StartKernel, Step, EnsureKernelType
  <2> HIDE DEF again
  <2>4. InstallSnapshot(n, t, cert, f) \in
          {up.n, SetUsers(after, t), SetUsers(again.n, t), SetUsers(again.n, up.n.users)}
    BY DEF InstallSnapshot, up, after, again
  <2>5. \A m, u : "cfg" \in DOMAIN m => SetUsers(m, u).cfg = m.cfg
    BY DEF SetUsers
  <2> QED BY <2>1, <2>2, <2>3, <2>4, <2>5
<1>2. Idle(n) => EnsureRunning(n, cert, f.start) = Step(n, FALSE)
  BY DEF Idle, EnsureRunning, EmptyTable
<1> QED BY <1>1, <1>2 DEF InstallSnapshot, Step

\* When no kernel call fails a node with a config installs a snapshot, unless it is idle.
LEMMA InstallSnapshotInstalls ==
  ASSUME NEW n, NodeOK(n), AgreesWhenRunning(n), n.cfg \in Configs, NEW t \in Table,
         NEW cert \in Nat, ~Idle(n)
  PROVE  InstallSnapshot(n, t, cert, NoFaults).users = t
<1> DEFINE up     == EnsureRunning(n, cert, "ok")
           update == UpdateUsers(up.n.k, t, "ok")
           after  == [up.n EXCEPT !.k = update.k]
<1>1. NoFaults.start = "ok" /\ NoFaults.apply = "ok"
  BY DEF NoFaults
<1>2. NodeOK(up.n) /\ (up.ok => Serving(up.n.k, n.cfg, n.users))
  BY EnsureRunningOK, EnsureRunningAgrees
<1>3. up.ok
  <2>1. CASE n.k.running
    BY <2>1 DEF EnsureRunning, Step
  <2>2. CASE ~n.k.running
    <3>1. DOMAIN n.users # {} /\ n.cfg # NoConfig /\ n.users \in Table
      BY <2>2, NobodyIsEmpty, NoConfigAssumption DEF Idle, NodeOK, Node
    <3>2. up = StartKernel(n, n.cfg, n.users, cert, "ok")
      BY <2>2, <3>1 DEF EnsureRunning
    <3> QED BY <3>1, <3>2, StartKernelAgrees
  <2> QED BY <2>1, <2>2
<1>4. update.ok
  BY <1>2, <1>3, UpdateServes DEF Serving, NodeOK
<1>5. InstallSnapshot(n, t, cert, NoFaults) = SetUsers(after, t)
  BY <1>1, <1>3, <1>4 DEF InstallSnapshot
<1> HIDE DEF up
<1>6. "users" \in DOMAIN after
  BY <1>2 DEF NodeOK, Node
<1> QED BY <1>5, <1>6 DEF SetUsers

\* A pull keeps a node that has a config in one, and an idle node idle unless it changes
\* the users.
LEMMA PullKeeps ==
  ASSUME NEW n, NodeOK(n), n.cfg \in Configs, NEW r, IsPullResult(r), NEW cert \in Nat, NEW f
  PROVE  LET m == ApplyPullResult(n, r, cert, f)
         IN m.cfg \in Configs /\ (Idle(n) /\ m.users = n.users => Idle(m))
<1> DEFINE m     == IF AcceptedConfig(r) THEN AdoptConfig(n, r.cfg) ELSE n
           users == IF AcceptedUsers(n, r) THEN r.users ELSE n.users
           s     == SetUsers(m, users)
<1>1. NodeOK(m) /\ m.cfg \in Configs
  BY AdoptConfigOK DEF AcceptedConfig, IsPullResult
<1>2. users \in Table
  BY DEF AcceptedUsers, RejectFetchedUsers, IsPullResult, NodeOK, Node
<1>3. CASE AcceptedConfig(r) \/ r.cert
  <2>1. ApplyPullResult(n, r, cert, f) = ApplyChanges(s, cert, f)
    BY <1>3 DEF ApplyPullResult
  <2> HIDE DEF m, users
  <2>2. NodeOK(s) /\ s.users = users /\ s.cfg = m.cfg
    BY <1>1, <1>2, SetUsersOK DEF NodeOK, Node
  <2> HIDE DEF s
  <2>3. ApplyChanges(s, cert, f).users = users
    BY <2>2, ApplyChangesUsers
  <2> QED BY <1>1, <2>1, <2>2, <2>3, ApplyChangesKeeps DEF Idle
<1>4. CASE ~(AcceptedConfig(r) \/ r.cert)
  <2>1. ApplyPullResult(n, r, cert, f) \in
          {InstallSnapshot(n, users, cert, f), Reconcile(n, cert, f), n}
    BY <1>4 DEF ApplyPullResult
  <2> HIDE DEF m, users
  <2>2. Reconcile(n, cert, f).cfg = n.cfg /\ (Idle(n) => Reconcile(n, cert, f) = n)
    BY DEF Reconcile, Idle, EmptyTable, StartKernel, Step, EnsureKernelType, NodeOK, Node
  <2> QED BY <1>2, <2>1, <2>2, InstallSnapshotKeeps
<1> QED BY <1>3, <1>4

\* A drain hands on all that was drained: a list that waits in the mailbox is the node's
\* afterwards, unless the service turns it down.
LEMMA DrainHandsOn ==
  ASSUME NodeOK(node), AgreesWhenRunning(node), node.cfg \in Configs, MailboxOK(mb),
         certs.version \in Nat
  PROVE  LET after == HandleDrained(node, mb)
         IN /\ after.cfg \in Configs
            /\ mb.dirtyUsers => after.users = mb.users \/ TurnsDown(after, mb.users)
            /\ ~mb.dirtyUsers => after.users = node.users /\ (Idle(node) => Idle(after))
<1> DEFINE Handle(e, i) == HandleWSEvent(i, e, certs.version, NoFaults)
           config  == IF mb.dirtyConfig
                        THEN Handle([type |-> "config", cfg |-> mb.config], node) ELSE node
           users   == IF mb.dirtyUsers /\ DOMAIN mb.users # {}
                        THEN Handle([type |-> "users", users |-> mb.users], config) ELSE config
           devices == IF mb.dirtyDevices THEN Handle([type |-> "devices"], users) ELSE users
<1>1. /\ NodeOK(config) /\ AgreesWhenRunning(config) /\ config.users = node.users
      /\ config.cfg \in Configs /\ (Idle(node) => Idle(config))
  <2>1. CASE mb.dirtyConfig
    <3> DEFINE e == [type |-> "config", cfg |-> mb.config]
               m == AdoptConfig(node, e.cfg)
    <3>1. IsEvent(e) /\ e.type = "config" /\ e.cfg \in Configs
      BY <2>1 DEF MailboxOK, IsEvent
    <3>2. config \in {node, ApplyChanges(m, certs.version, NoFaults)}
      BY <2>1, <3>1 DEF HandleWSEvent
    <3>3. NodeOK(config) /\ AgreesWhenRunning(config)
      BY <2>1, <3>1, HandleWSEventOK, HandleWSEventAgrees
    <3> HIDE DEF e, config
    <3>4. NodeOK(m) /\ m.cfg \in Configs /\ m.users = node.users
      BY <3>1, AdoptConfigOK, AdoptConfigUsers
    <3> HIDE DEF m
    <3> QED BY <3>2, <3>3, <3>4, ApplyChangesUsers, ApplyChangesKeeps DEF Idle
  <2>2. CASE ~mb.dirtyConfig
    BY <2>2
  <2> QED BY <2>1, <2>2
<1> HIDE DEF config
<1>2. /\ NodeOK(users) /\ users.cfg \in Configs
      /\ mb.dirtyUsers => users.users = mb.users \/ TurnsDown(users, mb.users)
      /\ ~mb.dirtyUsers => users = config
  <2>1. mb.users \in Table /\ config.users \in Table
    BY <1>1 DEF MailboxOK, NodeMailbox, NodeOK, Node
  <2>2. CASE mb.dirtyUsers /\ DOMAIN mb.users # {}
    <3> DEFINE e == [type |-> "users", users |-> mb.users]
    <3>1. IsEvent(e)
      BY <2>1 DEF IsEvent
    <3>2. NodeOK(users)
      BY <1>1, <2>2, <3>1, HandleWSEventOK
    <3>3. users = IF mb.users = config.users \/ RejectFetchedUsers(config.users, mb.users)
                    THEN config
                    ELSE InstallSnapshot(config, mb.users, certs.version, NoFaults)
      BY <2>2 DEF HandleWSEvent, ApplyUserUpdate
    <3> HIDE DEF e, users
    <3>4. users.cfg \in Configs
      BY <1>1, <2>1, <3>3, InstallSnapshotKeeps
    <3>5. users.users = mb.users \/ TurnsDown(users, mb.users)
      <4>1. CASE Idle(config)
        BY <1>1, <2>1, <3>3, <4>1, InstallSnapshotKeeps DEF TurnsDown, Idle
      <4>2. CASE ~Idle(config)
        BY <1>1, <2>1, <3>3, <4>2, InstallSnapshotInstalls DEF TurnsDown
      <4> QED BY <4>1, <4>2
    <3> QED BY <2>2, <3>2, <3>4, <3>5
  <2>3. CASE mb.dirtyUsers /\ DOMAIN mb.users = {}
    <3>1. users = config /\ mb.users = EmptyTable
      BY <2>1, <2>3, NobodyIsEmpty
    <3>2. config.users = EmptyTable \/ EmptyReplacesUsers(config.users, mb.users)
      BY <2>1, <2>3, NobodyIsEmpty DEF EmptyReplacesUsers
    <3> QED BY <1>1, <2>3, <3>1, <3>2 DEF TurnsDown, RejectFetchedUsers
  <2>4. CASE ~mb.dirtyUsers
    BY <1>1, <2>4
  <2> QED BY <2>2, <2>3, <2>4
<1> HIDE DEF users
<1>3. /\ devices.users = users.users /\ devices.cfg = users.cfg
      /\ devices.k.running = users.k.running
  <2>1. CASE mb.dirtyDevices
    <3>1. devices = [users EXCEPT !.k = UpdateGlobalDevices(users.k)]
      BY <2>1 DEF HandleWSEvent
    <3>2. UpdateGlobalDevices(users.k).running = users.k.running
      BY <1>2 DEF UpdateGlobalDevices, NodeOK, KernelOK, Kernel
    <3> HIDE DEF devices
    <3> QED BY <1>2, <3>1, <3>2 DEF NodeOK, Node
  <2>2. CASE ~mb.dirtyDevices
    BY <2>2
  <2> QED BY <2>1, <2>2
<1>4. HandleDrained(node, mb) = devices
  BY DEF HandleDrained, users, config
<1> HIDE DEF devices
<1> QED BY <1>1, <1>2, <1>3, <1>4 DEF TurnsDown, Idle

----------------------------------------------------------------------------
(* What the wire still says of a user.                                     *)

\* Two tables agree on a user: both have it, alike, or neither does.
SameAt(s, t, i) ==
  /\ i \in DOMAIN s <=> i \in DOMAIN t
  /\ i \in DOMAIN s /\ i \in DOMAIN t => s[i] = t[i]

\* The event has something to say of the user, and what it says is what t holds.
About(e, i) ==
  \/ e.type \in {"users", "other"}
  \/ e.type \in {"add", "remove"} /\ i \in DOMAIN e.users

Says(e, t, i) == IF e.type = "remove" THEN i \notin DOMAIN t ELSE SameAt(e.users, t, i)

\* Nothing in q is about the user; the last event in q that is stands at p.
Silent(q, i) == \A p \in 1 .. Len(q) : ~About(q[p], i)

LastWord(q, p, i) ==
  About(q[p], i) /\ \A later \in 1 .. Len(q) : later > p => ~About(q[later], i)

\* The last word on every user is the panel's.
Told(q, t, i) == \A p \in 1 .. Len(q) : LastWord(q, p, i) => Says(q[p], t, i)

LEMMA SentWord ==
  ASSUME NEW q \in Seq(MachineEvent), NEW e \in MachineEvent, NEW t, NEW u, NEW i,
         Told(q, t, i), About(e, i) => Says(e, u, i), ~About(e, i) => SameAt(t, u, i)
  PROVE  /\ Told(Append(q, e), u, i)
         /\ Silent(Append(q, e), i) => Silent(q, i) /\ ~About(e, i)
<1> DEFINE r == Append(q, e)
<1>1. /\ Len(q) \in Nat /\ Len(r) = Len(q) + 1 /\ r[Len(q) + 1] = e
      /\ \A p \in 1 .. Len(q) : r[p] = q[p]
  BY LenProperties, AppendProperties
<1> HIDE DEF r
<1>2. ASSUME NEW p \in 1 .. Len(r), LastWord(r, p, i) PROVE Says(r[p], u, i)
  <2>1. CASE p = Len(q) + 1
    BY <1>1, <1>2, <2>1 DEF LastWord
  <2>2. CASE p \in 1 .. Len(q)
    <3>1. ~About(e, i)
      BY <1>1, <1>2, <2>2 DEF LastWord
    <3>2. LastWord(q, p, i)
      BY <1>1, <1>2, <2>2 DEF LastWord
    <3>3. Says(q[p], t, i)
      BY <2>2, <3>2 DEF Told
    <3> QED BY <1>1, <2>2, <3>1, <3>3 DEF Says, SameAt
  <2> QED BY <1>1, <2>1, <2>2
<1>3. Silent(r, i) => Silent(q, i) /\ ~About(e, i)
  BY <1>1 DEF Silent
<1> QED BY <1>2, <1>3 DEF Told, r

LEMMA TakenWord ==
  ASSUME NEW q \in Seq(MachineEvent), q # <<>>, NEW t, NEW i, Told(q, t, i)
  PROVE  /\ Told(Tail(q), t, i)
         /\ Silent(Tail(q), i) /\ About(Head(q), i) => Says(Head(q), t, i)
         /\ Silent(Tail(q), i) /\ ~About(Head(q), i) => Silent(q, i)
<1> DEFINE r == Tail(q)
<1>1. /\ Len(q) \in Nat /\ Len(q) >= 1 /\ Len(r) = Len(q) - 1 /\ Head(q) = q[1]
      /\ \A p \in 1 .. Len(r) : r[p] = q[p + 1]
  BY LenProperties, HeadTailProperties, EmptySeq
<1> HIDE DEF r
<1>2. \A p \in 2 .. Len(q) : p - 1 \in 1 .. Len(r) /\ q[p] = r[p - 1]
  BY <1>1
<1>3. ASSUME NEW p \in 1 .. Len(r), LastWord(r, p, i) PROVE Says(r[p], t, i)
  <2>1. LastWord(q, p + 1, i)
    <3>1. About(q[p + 1], i)
      BY <1>1, <1>3 DEF LastWord
    <3>2. ASSUME NEW later \in 1 .. Len(q), later > p + 1 PROVE ~About(q[later], i)
      <4>1. later - 1 \in 1 .. Len(r) /\ later - 1 > p /\ q[later] = r[later - 1]
        BY <1>1, <1>2, <3>2
      <4> QED BY <1>3, <4>1 DEF LastWord
    <3> QED BY <3>1, <3>2 DEF LastWord
  <2> QED BY <1>1, <2>1 DEF Told
<1>4. ASSUME Silent(r, i) PROVE \A p \in 2 .. Len(q) : ~About(q[p], i)
  BY <1>2, <1>4 DEF Silent
<1>5. Silent(r, i) /\ About(Head(q), i) => Says(Head(q), t, i)
  BY <1>1, <1>4 DEF LastWord, Told
<1>6. Silent(r, i) /\ ~About(Head(q), i) => Silent(q, i)
  BY <1>1, <1>4 DEF Silent
<1> QED BY <1>3, <1>5, <1>6 DEF Told, r

\* What the panel sends with an edit is about exactly the users the edit touches.
LEMMA PushSays ==
  ASSUME NEW old \in Table, NEW new \in Table, NEW i,
         NEW e \in PushesFor(old, new) \cup [type : {"other"}, users : {new}]
  PROVE  IF About(e, i) THEN Says(e, new, i) ELSE SameAt(old, new, i)
<1> DEFINE changed == {j \in DOMAIN new : j \notin DOMAIN old \/ old[j] # new[j]}
           gone    == DOMAIN old \ DOMAIN new
<1>1. CASE e.type \in {"users", "other"}
  <2>1. e.users = new
    BY <1>1 DEF PushesFor
  <2> QED BY <1>1, <2>1 DEF About, Says, SameAt
<1>2. CASE e.type = "add"
  <2>1. gone = {} /\ e.users = Restrict(new, changed)
    BY <1>2 DEF PushesFor
  <2>2. DOMAIN e.users = changed /\ \A j \in changed : e.users[j] = new[j]
    BY <2>1 DEF Restrict
  <2> QED BY <1>2, <2>1, <2>2 DEF About, Says, SameAt
<1>3. CASE e.type = "remove"
  <2>1. changed = {} /\ e.users = Restrict(old, gone)
    BY <1>3 DEF PushesFor
  <2>2. DOMAIN e.users = gone
    BY <2>1 DEF Restrict
  <2> QED BY <1>3, <2>1, <2>2 DEF About, Says, SameAt
<1>4. e.type \in {"users", "other", "add", "remove"}
  BY DEF PushesFor
<1> QED BY <1>1, <1>2, <1>3, <1>4

----------------------------------------------------------------------------
(* A settled node is current.                                              *)

\* What the node will hold of the user when the wire has no more to say: the mailbox's
\* list once there is one, else the snapshot, which at first is yet to be fetched.
BaseAgrees(i) ==
  \/ mb.hasFullUserState /\ SameAt(mb.users, panel.users, i)
  \/ ~mb.hasFullUserState /\ At("fetch")
  \/ ~mb.hasFullUserState /\ At("start") /\ SameAt(loop.users, panel.users, i)
  \/ ~mb.hasFullUserState /\ ~Starting /\ SameAt(node.users, panel.users, i)

\* Once the loop runs the mailbox is ready; a list in it that nobody has drained is dirty.
Places ==
  /\ At("drain") \/ At("select") => mb.ready
  /\ mb.dirtyUsers => mb.hasFullUserState
  /\ Starting /\ mb.hasFullUserState => mb.dirtyUsers

\* Mailbox and node hold the same list but for what is dirty and what was turned down.
InStep ==
  ~Starting /\ mb.hasFullUserState /\ ~mb.dirtyUsers
    => node.users = mb.users \/ TurnsDown(node, mb.users)

\* Of every user, what the panel holds is the last word on the wire, or else in the base.
HeardOf(i) ==
  Told(wire, panel.users, i) /\ (Silent(wire, i) => BaseAgrees(i))

CurrentInv ==
  /\ Places
  /\ ~Starting => node.cfg \in Configs
  /\ ~strayed => InStep /\ \A i \in Ids : HeardOf(i)

LEMMA PlacesStep ==
  ASSUME MachineInv, Places, [MachineNext]_allVars
  PROVE  Places'
<1>1. mb \in NodeMailbox /\ loop.pc \in LoopPcs
  BY DEF MachineInv, MachinePart, MailboxOK
<1>2. ASSUME UNCHANGED <<mb, loop>> PROVE Places'
  BY <1>2 DEF Places, Starting, At
<1>3. CASE (At("fetch") /\ BootFails /\ UNCHANGED machineVars) \/ MachinePull
  BY <1>2, <1>3 DEF MachinePull, machineVars
<1>4. CASE MachineFetch
  BY <1>4 DEF MachineFetch, Places, Starting, At
<1>5. CASE MachineStart
  <2>1. phase' # "boot" => Places'
    BY <1>2, <1>5 DEF MachineStart
  <2>2. ASSUME phase' = "boot" PROVE Places'
    <3>1. mb' = SeedBaseline(mb, loop.users, loop.cfg) /\ Goto("mark")
      BY <1>5, <2>2 DEF MachineStart
    <3> QED BY <1>1, <3>1 DEF Places, SeedBaseline, NodeMailbox, Goto, Starting, At, MachineInv,
                              MachinePart
  <2> QED BY <2>1, <2>2
<1>6. CASE MachineMarkReady
  BY <1>1, <1>6
     DEF MachineMarkReady, MarkReady, NodeMailbox, Places, Goto, Starting, At, MachineInv,
         MachinePart
<1>7. CASE TakeToken
  BY <1>1, <1>7 DEF TakeToken, Places, Goto, Starting, At, MachineInv, MachinePart
<1>8. CASE Drain
  BY <1>1, <1>8
     DEF Drain, Drained, NodeMailbox, Places, Goto, Starting, At, MachineInv, MachinePart
<1>9. CASE SelectOther
  BY <1>2, <1>9 DEF SelectOther
<1>10. CASE MuxApply
  <2>1. Head(wire) \in MachineEvent
    BY <1>10, HeadTailProperties DEF MuxApply, MachineInv, MachinePart
  <2>2. mb' \in {mb, Apply(mb, Head(wire))} /\ UNCHANGED loop
    BY <1>10 DEF MuxApply
  <2> QED BY <1>1, <2>1, <2>2, ZenonT(30)
          DEF Apply, ApplyDelta, NodeMailbox, Places, Starting, At, MachineEvent, Event
<1>11. CASE MuxNotify \/ MuxConnect \/ MuxDisconnect
  BY <1>2, <1>11 DEF MuxNotify, MuxConnect, MuxDisconnect, machineVars
<1>12. CASE \/ \E c \in Configs : PanelEditsConfig(c)
            \/ \E t \in PanelTables : PanelEditsUsers(t)
            \/ PanelSendsDevices
  BY <1>2, <1>12 DEF PanelEditsConfig, PanelEditsUsers, PanelSendsDevices, Send
<1>13. CASE UNCHANGED allVars
  BY <1>2, <1>13 DEF allVars, machineVars
<1> QED BY <1>3, <1>4, <1>5, <1>6, <1>7, <1>8, <1>9, <1>10, <1>11, <1>12, <1>13
        DEF MachineNext

\* A step that touches neither the wire nor a list nor the loop's place, and starts no
\* idle kernel.
LEMMA BystandersHear ==
  ASSUME CurrentInv, Places', UNCHANGED <<mb, loop, wire, panel>>, node'.users = node.users,
         Idle(node) => Idle(node'), node.cfg \in Configs => node'.cfg \in Configs,
         strayed => strayed'
  PROVE  CurrentInv'
<1>1. ASSUME ~strayed' PROVE InStep'
  BY <1>1 DEF CurrentInv, InStep, TurnsDown, Idle, Starting, At
<1>3. (~Starting => node.cfg \in Configs)'
  BY DEF CurrentInv, Starting, At
<1>2. ASSUME ~strayed', NEW i \in Ids PROVE HeardOf(i)'
  <2>1. HeardOf(i)
    BY <1>2 DEF CurrentInv
  <2> QED BY <2>1 DEF HeardOf, BaseAgrees, Told, Silent, LastWord, Starting, At
<1> QED BY <1>1, <1>2, <1>3 DEF CurrentInv

LEMMA StartHears ==
  ASSUME MachineInv, ServedInv, CurrentInv, Places', MachineStart
  PROVE  CurrentInv'
<1>1. CASE phase' # "boot"
  BY <1>1, StartAgrees, BystandersHear DEF MachineStart
<1>2. CASE phase' = "boot"
  <2>1. /\ mb' = SeedBaseline(mb, loop.users, loop.cfg) /\ node'.users = loop.users
        /\ node'.cfg \in Configs /\ ~Starting' /\ Starting /\ UNCHANGED <<wire, panel, strayed>>
    BY <1>2, StartAgrees DEF MachineStart, Starting
  <2>2. /\ mb'.dirtyUsers = mb.dirtyUsers
        /\ IF DOMAIN loop.users # {} /\ ~mb.hasFullUserState
             THEN mb'.users = loop.users /\ mb'.hasFullUserState
             ELSE mb'.users = mb.users /\ mb'.hasFullUserState = mb.hasFullUserState
    BY <2>1 DEF SeedBaseline, MachineInv, MachinePart, MailboxOK, NodeMailbox
  <2>3. ASSUME ~strayed' PROVE InStep'
    BY <2>1, <2>2 DEF CurrentInv, Places, InStep
  <2>4. ASSUME ~strayed', NEW i \in Ids PROVE HeardOf(i)'
    <3>1. HeardOf(i) /\ ~At("fetch")
      BY <2>1, <2>4 DEF CurrentInv, MachineStart, At
    <3>2. Told(wire, panel.users, i)' /\ (Silent(wire, i)' => Silent(wire, i))
      BY <2>1, <3>1 DEF HeardOf, Told, Silent, LastWord
    <3>3. ASSUME BaseAgrees(i) PROVE BaseAgrees(i)'
      BY <2>1, <2>2, <3>1, <3>3 DEF BaseAgrees, SameAt
    <3> QED BY <3>1, <3>2, <3>3 DEF HeardOf
  <2> QED BY <2>1, <2>3, <2>4 DEF CurrentInv
<1> QED BY <1>1, <1>2

LEMMA FetchHears ==
  ASSUME MachineInv, CurrentInv, Places', MachineFetch
  PROVE  CurrentInv'
<1>1. UNCHANGED <<node, mb, wire, panel, strayed>> /\ Starting
  BY DEF MachineFetch, Starting
<1>2. CASE loop' = loop
  BY <1>1, <1>2, BystandersHear
<1>3. CASE loop' # loop
  <2>1. At("fetch") /\ At("start")' /\ ~At("fetch")' /\ Starting' /\ loop'.users = panel.users
    BY <1>3 DEF MachineFetch, Starting, At
  <2>2. ASSUME ~strayed', NEW i \in Ids PROVE HeardOf(i)'
    <3>1. HeardOf(i)
      BY <1>1, <2>2 DEF CurrentInv
    <3>2. BaseAgrees(i) => BaseAgrees(i)'
      BY <1>1, <2>1 DEF BaseAgrees, SameAt
    <3>3. Told(wire, panel.users, i)' /\ (Silent(wire, i)' => Silent(wire, i))
      BY <1>1, <3>1 DEF HeardOf, Told, Silent, LastWord
    <3> QED BY <3>1, <3>2, <3>3 DEF HeardOf
  <2> QED BY <1>1, <2>1, <2>2 DEF CurrentInv, InStep
<1> QED BY <1>2, <1>3

\* Marking the mailbox ready and taking the token only move the loop.
LEMMA MovesHear ==
  ASSUME MachineInv, CurrentInv, Places', MachineMarkReady \/ TakeToken
  PROVE  CurrentInv'
<1>1. /\ UNCHANGED <<node, wire, panel, strayed>> /\ ~Starting /\ ~Starting'
      /\ ~At("fetch") /\ ~At("start") /\ ~At("fetch")' /\ ~At("start")'
  BY DEF MachineMarkReady, TakeToken, nodeVars, vars, Goto, Starting, At, MachineInv,
         MachinePart
<1>2. /\ mb'.users = mb.users /\ mb'.hasFullUserState = mb.hasFullUserState
      /\ mb'.dirtyUsers = mb.dirtyUsers
  BY DEF MachineMarkReady, TakeToken, MarkReady, MachineInv, MachinePart, MailboxOK,
         NodeMailbox
<1>3. ASSUME ~strayed', NEW i \in Ids PROVE HeardOf(i)'
  <2>1. HeardOf(i)
    BY <1>1, <1>3 DEF CurrentInv
  <2>2. BaseAgrees(i) => BaseAgrees(i)'
    BY <1>1, <1>2 DEF BaseAgrees
  <2>3. Told(wire, panel.users, i)' /\ (Silent(wire, i)' => Silent(wire, i))
    BY <1>1, <2>1 DEF HeardOf, Told, Silent, LastWord
  <2> QED BY <2>1, <2>2, <2>3 DEF HeardOf
<1> QED BY <1>1, <1>2, <1>3 DEF CurrentInv, InStep

LEMMA DrainHears ==
  ASSUME MachineInv, ServedInv, CurrentInv, Places', Drain
  PROVE  CurrentInv'
<1> DEFINE after == HandleDrained(node, mb)
<1>1. /\ mb.ready /\ ~Starting /\ ~Starting' /\ ~At("fetch")' /\ ~At("start")'
      /\ ~At("fetch") /\ ~At("start") /\ UNCHANGED <<wire, panel>>
  BY DEF Drain, CurrentInv, Places, Goto, Starting, At, MachineInv, MachinePart
<1>2. /\ NodeOK(after) /\ after.cfg \in Configs
      /\ mb.dirtyUsers => after.users = mb.users \/ TurnsDown(after, mb.users)
      /\ ~mb.dirtyUsers => after.users = node.users /\ (Idle(node) => Idle(after))
  BY <1>1, HandleDrainedOK, DrainHandsOn
     DEF MachineInv, MachinePart, IInv, TypeOK, ServedInv, CurrentInv
<1>3. /\ node' \in {after, [after EXCEPT !.deferred = TRUE]}
      /\ strayed' = strayed /\ mb' = Drained(mb)
  BY DEF Drain
<1> HIDE DEF after
<1>4. node'.users = after.users /\ node'.cfg = after.cfg /\ node'.k = after.k
  BY <1>2, <1>3 DEF NodeOK, Node
<1>5. mb'.users = mb.users /\ mb'.hasFullUserState = mb.hasFullUserState
  BY <1>3 DEF Drained, MachineInv, MachinePart, MailboxOK, NodeMailbox
<1>6. ~mb.hasFullUserState => ~mb.dirtyUsers /\ node'.users = node.users
  BY <1>2, <1>4 DEF CurrentInv, Places
<1>7. ASSUME ~strayed' PROVE InStep'
  BY <1>1, <1>2, <1>3, <1>4, <1>5, <1>7 DEF CurrentInv, InStep, TurnsDown, Idle
<1>8. ASSUME ~strayed', NEW i \in Ids PROVE HeardOf(i)'
  <2>1. HeardOf(i)
    BY <1>3, <1>8 DEF CurrentInv
  <2>2. BaseAgrees(i) => BaseAgrees(i)'
    BY <1>1, <1>5, <1>6 DEF BaseAgrees
  <2>3. Told(wire, panel.users, i)' /\ (Silent(wire, i)' => Silent(wire, i))
    BY <1>1, <2>1 DEF HeardOf, Told, Silent, LastWord
  <2> QED BY <2>1, <2>2, <2>3 DEF HeardOf
<1> QED BY <1>2, <1>4, <1>7, <1>8 DEF CurrentInv

\* What an event does to the mailbox's list, user by user.
LEMMA ApplyHears ==
  ASSUME MailboxOK(mb), NEW e \in MachineEvent
  PROVE  LET m == Apply(mb, e)
         IN \/ Untellable(e)
            \/ /\ mb.hasFullUserState /\ m.hasFullUserState
               /\ \A t, i : IF About(e, i) THEN Says(e, t, i) => SameAt(m.users, t, i)
                            ELSE SameAt(mb.users, t, i) => SameAt(m.users, t, i)
            \/ /\ e.type = "users" /\ m.hasFullUserState /\ m.users = e.users
            \/ /\ e.type \notin {"users", "add", "remove", "other"}
               /\ m.users = mb.users /\ m.hasFullUserState = mb.hasFullUserState
<1> DEFINE m == Apply(mb, e)
<1>1. mb \in NodeMailbox
  BY DEF MailboxOK
<1>2. CASE e.type \in {"config", "users", "devices"}
  BY <1>1, <1>2 DEF Apply, NodeMailbox
<1>3. CASE e.type = "other" \/ (e.type \in {"add", "remove"} /\ ~mb.hasFullUserState)
  BY <1>3 DEF Untellable
<1>4. CASE e.type = "add" /\ mb.hasFullUserState
  <2>1. m = [mb EXCEPT !.dirtyUsers = TRUE, !.users = MergeUsers(mb.users, e.users)]
    BY <1>1, <1>4 DEF Apply, ApplyDelta, NodeMailbox
  <2>2. m.users = MergeUsers(mb.users, e.users) /\ m.hasFullUserState
    BY <1>1, <1>4, <2>1 DEF NodeMailbox
  <2>3. MergeShape(mb.users, e.users)
    BY DEF MergeShape, MergeUsers
  <2>4. ASSUME NEW t, NEW i
        PROVE  IF About(e, i) THEN Says(e, t, i) => SameAt(m.users, t, i)
                              ELSE SameAt(mb.users, t, i) => SameAt(m.users, t, i)
    BY <1>4, <2>2, <2>3 DEF MergeShape, About, Says, SameAt
  <2> QED BY <1>4, <2>2, <2>4
<1>5. CASE e.type = "remove" /\ mb.hasFullUserState
  <2>1. m = [mb EXCEPT !.dirtyUsers = TRUE, !.users = SubtractUsers(mb.users, DOMAIN e.users)]
    BY <1>1, <1>5 DEF Apply, ApplyDelta, NodeMailbox
  <2>2. m.users = SubtractUsers(mb.users, DOMAIN e.users) /\ m.hasFullUserState
    BY <1>1, <1>5, <2>1 DEF NodeMailbox
  <2>3. /\ DOMAIN m.users = DOMAIN mb.users \ DOMAIN e.users
        /\ \A i \in DOMAIN m.users : m.users[i] = mb.users[i]
    BY <2>2 DEF SubtractUsers, Restrict
  <2>4. ASSUME NEW t, NEW i
        PROVE  IF About(e, i) THEN Says(e, t, i) => SameAt(m.users, t, i)
                              ELSE SameAt(mb.users, t, i) => SameAt(m.users, t, i)
    BY <1>5, <2>3 DEF About, Says, SameAt
  <2> QED BY <1>5, <2>2, <2>4
<1> QED BY <1>2, <1>3, <1>4, <1>5 DEF MachineEvent, Event

LEMMA MuxHears ==
  ASSUME MachineInv, CurrentInv, Places', MuxApply
  PROVE  CurrentInv'
<1> DEFINE e == Head(wire)
<1>1. /\ wire \in Seq(MachineEvent) /\ wire # <<>> /\ wire' = Tail(wire)
      /\ UNCHANGED <<node, panel, loop>> /\ MailboxOK(mb)
  BY DEF MuxApply, nodeVars, vars, MachineInv, MachinePart
<1>2. e \in MachineEvent
  BY <1>1, HeadTailProperties
<1>3. ASSUME ~strayed'
      PROVE  /\ ~strayed /\ ~Untellable(e)
             /\ \/ mb' = Apply(mb, e)
                \/ mb' = mb /\ e.type = "config"
  BY <1>3 DEF MuxApply, Untellable, TellsOfUsers, Dropped
<1> HIDE DEF e
<1>4. UNCHANGED Starting /\ UNCHANGED At("fetch") /\ UNCHANGED At("start")
  BY <1>1 DEF Starting, At
<1>5. ASSUME ~strayed' PROVE InStep'
  <2>1. mb \in NodeMailbox
    BY <1>1 DEF MailboxOK
  <2>2. mb'.hasFullUserState /\ ~mb'.dirtyUsers
          => mb.hasFullUserState /\ ~mb.dirtyUsers /\ mb'.users = mb.users
    BY <1>2, <1>3, <1>5, <2>1 DEF Apply, ApplyDelta, NodeMailbox, MachineEvent, Event
  <2> QED BY <1>1, <1>3, <1>4, <1>5, <2>2 DEF CurrentInv, InStep
<1>6. ASSUME ~strayed', NEW i \in Ids PROVE HeardOf(i)'
  <2>1. HeardOf(i)
    BY <1>3, <1>6 DEF CurrentInv
  <2>2. /\ Told(Tail(wire), panel.users, i)
        /\ Silent(Tail(wire), i) /\ About(e, i) => Says(e, panel.users, i)
        /\ Silent(Tail(wire), i) /\ ~About(e, i) => Silent(wire, i)
    BY <1>1, <2>1, TakenWord DEF HeardOf, e
  <2>3. ASSUME Silent(Tail(wire), i) PROVE BaseAgrees(i)'
    <3> DEFINE m == Apply(mb, e)
    <3>1. IF About(e, i) THEN Says(e, panel.users, i) ELSE BaseAgrees(i)
      BY <2>1, <2>2, <2>3 DEF HeardOf
    <3>2. CASE mb' = mb /\ e.type = "config"
      BY <1>1, <3>1, <3>2 DEF About, BaseAgrees, Starting, At
    <3>3. CASE mb' = m
      <4>1. \/ /\ mb.hasFullUserState /\ m.hasFullUserState
               /\ \A t : IF About(e, i) THEN Says(e, t, i) => SameAt(m.users, t, i)
                         ELSE SameAt(mb.users, t, i) => SameAt(m.users, t, i)
            \/ e.type = "users" /\ m.hasFullUserState /\ m.users = e.users
            \/ /\ e.type \notin {"users", "add", "remove", "other"}
               /\ m.users = mb.users /\ m.hasFullUserState = mb.hasFullUserState
        BY <1>1, <1>2, <1>3, <1>6, ApplyHears
      <4> HIDE DEF m
      <4>2. CASE /\ mb.hasFullUserState /\ m.hasFullUserState
                 /\ \A t : IF About(e, i) THEN Says(e, t, i) => SameAt(m.users, t, i)
                           ELSE SameAt(mb.users, t, i) => SameAt(m.users, t, i)
        <5>1. SameAt(m.users, panel.users, i)
          BY <3>1, <4>2 DEF BaseAgrees
        <5> QED BY <1>1, <3>3, <4>2, <5>1 DEF BaseAgrees
      <4>3. CASE e.type = "users" /\ m.hasFullUserState /\ m.users = e.users
        <5>1. SameAt(m.users, panel.users, i)
          BY <3>1, <4>3 DEF About, Says
        <5> QED BY <1>1, <3>3, <4>3, <5>1 DEF BaseAgrees
      <4>4. CASE /\ e.type \notin {"users", "add", "remove", "other"}
                 /\ m.users = mb.users /\ m.hasFullUserState = mb.hasFullUserState
        <5>1. BaseAgrees(i)
          BY <3>1, <4>4 DEF About
        <5> QED BY <1>1, <1>4, <3>3, <4>4, <5>1 DEF BaseAgrees
      <4> QED BY <4>1, <4>2, <4>3, <4>4
    <3> QED BY <1>3, <1>6, <3>2, <3>3
  <2> QED BY <1>1, <2>2, <2>3 DEF HeardOf
<1>7. (~Starting => node.cfg \in Configs)'
  BY <1>1, <1>4 DEF CurrentInv
<1> QED BY <1>5, <1>6, <1>7 DEF CurrentInv

LEMMA SendHears ==
  ASSUME MachineInv, CurrentInv, Places', NEW e \in MachineEvent, Send(e),
         \A i \in Ids : IF About(e, i) THEN Says(e, panel'.users, i)
                                       ELSE SameAt(panel.users, panel'.users, i)
  PROVE  CurrentInv'
<1>1. UNCHANGED <<node, mb, loop>>
  BY DEF Send
<1>2. ASSUME ~strayed'
      PROVE  /\ ~strayed
             /\ wire' = Append(wire, e) \/ (wire' = wire /\ \A i : ~About(e, i))
  BY <1>2 DEF Send, TellsOfUsers, About
<1>3. ASSUME ~strayed' PROVE InStep'
  BY <1>1, <1>2, <1>3 DEF CurrentInv, InStep, Starting, At
<1>4. ASSUME ~strayed', NEW i \in Ids PROVE HeardOf(i)'
  <2>1. HeardOf(i) /\ wire \in Seq(MachineEvent)
    BY <1>2, <1>4 DEF CurrentInv, MachineInv, MachinePart
  <2>2. ASSUME BaseAgrees(i), SameAt(panel.users, panel'.users, i) PROVE BaseAgrees(i)'
    BY <1>1, <2>2 DEF BaseAgrees, SameAt, Starting, At
  <2>3. CASE wire' = Append(wire, e)
    <3>1. /\ Told(Append(wire, e), panel'.users, i)
          /\ Silent(Append(wire, e), i) => Silent(wire, i) /\ ~About(e, i)
      BY <2>1, SentWord DEF HeardOf
    <3> QED BY <2>1, <2>2, <2>3, <3>1 DEF HeardOf
  <2>4. CASE wire' = wire /\ ~About(e, i)
    <3>1. Told(wire, panel'.users, i)
      BY <2>1, <2>4 DEF HeardOf, Told, Says, SameAt
    <3> QED BY <2>1, <2>2, <2>4, <3>1 DEF HeardOf
  <2> QED BY <1>2, <1>4, <2>3, <2>4
<1>5. (~Starting => node.cfg \in Configs)'
  BY <1>1 DEF CurrentInv, Starting, At
<1> QED BY <1>3, <1>4, <1>5 DEF CurrentInv

LEMMA PanelHears ==
  ASSUME MachineInv, CurrentInv, Places',
         \/ \E c \in Configs : PanelEditsConfig(c)
         \/ \E t \in PanelTables : PanelEditsUsers(t)
         \/ PanelSendsDevices
  PROVE  CurrentInv'
<1>1. panel \in Panel /\ PanelTables \subseteq Table
  BY CapsAssumption DEF MachineInv, IInv, TypeOK
<1>2. ASSUME NEW c \in Configs, PanelEditsConfig(c) PROVE CurrentInv'
  <2> DEFINE e == [type |-> "config", cfg |-> c]
  <2>1. e \in MachineEvent
    BY DEF MachineEvent, Event
  <2>2. panel'.users = panel.users /\ Send(e)
    BY <1>1, <1>2 DEF PanelEditsConfig, Panel
  <2>3. \A i \in Ids : ~About(e, i) /\ SameAt(panel.users, panel'.users, i)
    BY <2>2 DEF About, SameAt
  <2> QED BY <2>1, <2>2, <2>3, SendHears
<1>3. ASSUME NEW t \in PanelTables, PanelEditsUsers(t) PROVE CurrentInv'
  <2>1. PICK e \in PushesFor(panel.users, t) \cup [type : {"other"}, users : {t}] : Send(e)
    BY <1>3 DEF PanelEditsUsers
  <2>2. e \in MachineEvent
    BY <1>1, <2>1, PushesForOK DEF MachineEvent, Panel
  <2>3. panel'.users = t
    BY <1>1, <1>3 DEF PanelEditsUsers, Panel
  <2>4. \A i \in Ids : IF About(e, i) THEN Says(e, panel'.users, i)
                                      ELSE SameAt(panel.users, panel'.users, i)
    BY <1>1, <2>1, <2>3, PushSays DEF Panel
  <2> QED BY <2>1, <2>2, <2>4, SendHears
<1>4. CASE PanelSendsDevices
  <2> DEFINE e == [type |-> "devices"]
  <2>1. e \in MachineEvent /\ Send(e) /\ panel' = panel
    BY <1>4 DEF MachineEvent, Event, PanelSendsDevices
  <2>2. \A i \in Ids : ~About(e, i) /\ SameAt(panel.users, panel'.users, i)
    BY <2>1 DEF About, SameAt
  <2> QED BY <2>1, <2>2, SendHears
<1> QED BY <1>2, <1>3, <1>4

LEMMA CurrentStep ==
  ASSUME MachineInv, ServedInv, CurrentInv, [MachineNext]_allVars
  PROVE  CurrentInv'
<1>1. Places'
  BY PlacesStep DEF CurrentInv
<1>2. CASE (At("fetch") /\ BootFails /\ UNCHANGED machineVars) \/ MachinePull
  <2>1. UNCHANGED <<mb, loop, wire, strayed>>
    BY <1>2 DEF MachinePull, machineVars
  <2>2. UNCHANGED <<node, panel>>
    BY <1>2 DEF BootFails, MachinePull, PullGoroutine, PollConfig, PollUsers, PollSend,
                PollDone, PollFrame
  <2> QED BY <1>1, <2>1, <2>2, BystandersHear
<1>3. CASE MachineFetch
  BY <1>1, <1>3, FetchHears
<1>4. CASE MachineStart
  BY <1>1, <1>4, StartHears
<1>5. CASE MachineMarkReady \/ TakeToken
  BY <1>1, <1>5, MovesHear
<1>6. CASE Drain
  BY <1>1, <1>6, DrainHears
<1>7. CASE SelectOther
  <2>1. CASE /\ ReceivePullResult(NoFaults)
             /\ strayed' = (strayed \/ node'.users # node.users)
    <3>1. /\ UNCHANGED <<mb, loop, wire, panel>> /\ ~Starting /\ node.cfg \in Configs
          /\ pullResults \in Seq(PullResult) /\ pullResults # <<>> /\ certs.version \in Nat
          /\ NodeOK(node)
      BY <1>7, <2>1 DEF SelectOther, ReceivePullResult, Starting, At, CurrentInv, MachineInv,
                        IInv, TypeOK
    <3>2. IsPullResult(Head(pullResults))
      BY <3>1, HeadTailProperties DEF IsPullResult, PullResult
    <3>3. node'.cfg \in Configs /\ (Idle(node) /\ node'.users = node.users => Idle(node'))
      BY <2>1, <3>1, <3>2, PullKeeps DEF ReceivePullResult
    <3>4. CASE node'.users = node.users
      BY <1>1, <2>1, <3>1, <3>3, <3>4, BystandersHear
    <3>5. CASE node'.users # node.users
      BY <1>1, <2>1, <3>3, <3>5 DEF CurrentInv
    <3> QED BY <3>4, <3>5
  <2>2. CASE (ReceiveWSStatus \/ PullTick \/ Shutdown) /\ UNCHANGED strayed
    <3>1. UNCHANGED <<mb, loop, wire, panel>>
      BY <1>7, <2>2 DEF SelectOther, ReceiveWSStatus, PullTick, Shutdown
    <3>2. node'.users = node.users /\ (Idle(node) => Idle(node'))
      BY <2>2, OtherSteps DEF OtherStep, MachineInv, SameService, Idle
    <3>3. node'.cfg = node.cfg
      BY <2>2 DEF ReceiveWSStatus, PullTick, Shutdown, MachineInv, IInv, TypeOK, Node
    <3> QED BY <1>1, <2>2, <3>1, <3>2, <3>3, BystandersHear
  <2> QED BY <1>7, <2>1, <2>2 DEF SelectOther
<1>8. CASE MuxApply
  BY <1>1, <1>8, MuxHears
<1>9. CASE MuxNotify \/ MuxConnect
  <2>1. UNCHANGED <<mb, loop, wire, panel, node, strayed>>
    BY <1>9 DEF MuxNotify, MuxConnect, machineVars, nodeVars, vars
  <2> QED BY <1>1, <2>1, BystandersHear
<1>10. CASE MuxDisconnect
  <2>2. CASE ~strayed'
    <3>1. /\ UNCHANGED <<mb, loop, panel, node>> /\ ~strayed /\ wire' = <<>>
          /\ \A p \in DOMAIN wire : ~TellsOfUsers(wire[p])
      BY <1>10, <2>2 DEF MuxDisconnect
    <3>2. DOMAIN wire = 1 .. Len(wire)
      BY LenProperties DEF MachineInv, MachinePart
    <3>3. ASSUME NEW i \in Ids PROVE HeardOf(i)'
      <4>1. Silent(wire, i) /\ HeardOf(i)
        BY <3>1, <3>2 DEF Silent, About, TellsOfUsers, CurrentInv
      <4>2. Told(<<>>, panel.users, i)
        BY DEF Told
      <4> QED BY <3>1, <4>1, <4>2 DEF HeardOf, BaseAgrees, Starting, At
    <3>4. InStep' /\ (~Starting => node.cfg \in Configs)'
      BY <3>1 DEF CurrentInv, InStep, TurnsDown, Starting, At
    <3> QED BY <1>1, <3>3, <3>4 DEF CurrentInv
  <2>3. ((~Starting => node.cfg \in Configs) /\ Places)'
    BY <1>1, <1>10 DEF MuxDisconnect, CurrentInv, Starting, At
  <2> QED BY <2>2, <2>3 DEF CurrentInv
<1>11. CASE \/ \E c \in Configs : PanelEditsConfig(c)
            \/ \E t \in PanelTables : PanelEditsUsers(t)
            \/ PanelSendsDevices
  BY <1>1, <1>11, PanelHears
<1>12. CASE UNCHANGED allVars
  <2>1. UNCHANGED <<mb, loop, wire, panel, node, strayed>>
    BY <1>12 DEF allVars, nodeVars, vars, machineVars
  <2> QED BY <1>1, <2>1, BystandersHear
<1> QED BY <1>2, <1>3, <1>4, <1>5, <1>6, <1>7, <1>8, <1>9, <1>10, <1>11, <1>12
        DEF MachineNext

\* Two tables that agree on every user are one.
LEMMA SameEverywhere ==
  ASSUME NEW s \in Table, NEW t \in Table, \A i \in Ids : SameAt(s, t, i)
  PROVE  s = t
<1>1. DOMAIN s \subseteq Ids /\ DOMAIN t \subseteq Ids
  BY TableIsFunction
<1>2. DOMAIN s = DOMAIN t /\ \A i \in DOMAIN t : s[i] = t[i]
  BY <1>1 DEF SameAt
<1>3. s = [i \in DOMAIN s |-> s[i]] /\ t = [i \in DOMAIN t |-> t[i]]
  BY TableIsFunction
<1> QED BY <1>2, <1>3

\* Events that came before, during and after startup are neither lost, nor folded in the
\* wrong order, nor overwritten by the older snapshot startup fetched: whatever the events
\* and their moment, a settled node whose edits all came over the wire, and whose pulls
\* changed nothing, holds the panel's users unless the service turned them down
\* (NodeMailbox.Apply, SeedBaseline and drainMachineMailbox).
THEOREM Settles == MachineSpec => []SettledIsCurrent
<1>1. MachineInit => CurrentInv
  <2> SUFFICES ASSUME MachineInit PROVE CurrentInv
    OBVIOUS
  <2>1. Places
    BY DEF MachineInit, NewNodeMailbox, Places, At
  <2>2. Starting /\ wire = <<>> /\ At("fetch") /\ ~mb.hasFullUserState
    BY DEF MachineInit, NewNodeMailbox, Starting, At
  <2>3. \A i \in Ids : HeardOf(i)
    BY <2>2 DEF HeardOf, Told, Silent, BaseAgrees
  <2> QED BY <2>1, <2>2, <2>3 DEF CurrentInv, InStep
<1>2. MachineInv /\ CurrentInv /\ NoLostWakeup => SettledIsCurrent
  <2> SUFFICES ASSUME MachineInv, CurrentInv, NoLostWakeup, Settled, ~strayed
               PROVE  node.users = panel.users \/ TurnsDown(node, panel.users)
    BY DEF SettledIsCurrent
  <2>1. node.users \in Table /\ panel.users \in Table /\ mb.users \in Table
    BY DEF MachineInv, MachinePart, MailboxOK, NodeMailbox, IInv, TypeOK, Node, Panel
  <2>2. At("select") /\ ~Starting /\ ~At("fetch") /\ ~At("start") /\ wire = <<>>
    BY DEF Settled, Starting, At
  <2>3. ~mb.dirtyUsers
    BY <2>2 DEF NoLostWakeup, Settled, Alive, Dirty, CurrentInv, Places, At
  <2>4. \A i \in Ids : BaseAgrees(i)
    BY <2>2 DEF CurrentInv, HeardOf, Silent
  <2>5. CASE mb.hasFullUserState
    <3>1. mb.users = panel.users
      BY <2>1, <2>4, <2>5, SameEverywhere DEF BaseAgrees
    <3> QED BY <2>2, <2>3, <2>5, <3>1 DEF CurrentInv, InStep
  <2>6. CASE ~mb.hasFullUserState
    <3>1. node.users = panel.users
      BY <2>1, <2>2, <2>4, <2>6, SameEverywhere DEF BaseAgrees
    <3> QED BY <3>1
  <2> QED BY <2>5, <2>6
<1>3. MachineInit => ServedInv /\ NoLostWakeup
  BY DEF MachineInit, Init, NewNode, NewKernel, ServedInv, AgreesWhenRunning, NewNodeMailbox,
         NoLostWakeup, Dirty
<1>4. MachineInv => MailboxOK(mb)
  BY DEF MachineInv, MachinePart
<1> QED BY <1>1, <1>2, <1>3, <1>4, CurrentStep, ServedStep, WakeupStep, MachineInitOK,
           MachineStepOK, PTL DEF MachineSpec
=============================================================================
