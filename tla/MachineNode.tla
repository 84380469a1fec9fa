---------------------------- MODULE MachineNode ----------------------------
(***************************************************************************)
(* One node of a machine: the node service of module NodeService, fed by   *)
(* the machine's shared WebSocket through a mailbox instead of wsEvents    *)
(* (internal/machine/machine.go, controlplane/machine.go and mailbox.go).  *)
(* The mailbox is there before the service starts, so events arrive while  *)
(* the first snapshot is still being fetched.  Kernel calls succeed here:  *)
(* their failures are the subject of NodeService.                          *)
(***************************************************************************)
EXTENDS NodeService, Mailbox

VARIABLES
  mb,        \* the NodeMailbox
  notified,  \* a token is in notifyCh (capacity 1)
  mux,       \* the WebSocket reader: "idle", or "notify" after Apply's unlock
  wire,      \* events on the shared connection, for this node
  loop,      \* the service goroutine: its pc, and Initial's snapshot while it starts
  strayed    \* history: an edit of the users did not come, or could not be told, through
             \* the mailbox, or a pull has changed the users

machineVars == <<mb, notified, mux, wire, loop, strayed>>
nodeVars    == vars
allVars     == <<nodeVars, machineVars>>

\* A delta may also carry an action nobody knows.
MachineEvent == Event \cup [type : {"other"}, users : Table]

LoopPcs == {"fetch", "start", "mark", "drain", "select"}

At(pc) == loop.pc = pc
Goto(pc) == loop' = [loop EXCEPT !.pc = pc]

----------------------------------------------------------------------------
(* Startup: MachinePanelControlPlane.Initial and initialSetup.             *)

\* The first config and users are fetched, then the node registers for status changes.
MachineFetch ==
  /\ phase = "boot" /\ At("fetch")
  /\ etag' = panel.cfg
  /\ IF panel.cfg \in BadSpec
       THEN phase' = "failed" /\ UNCHANGED <<ws, loop>>
       ELSE /\ loop' = [pc |-> "start", cfg |-> panel.cfg, users |-> panel.users]
            /\ ws' = [ws EXCEPT !.client = TRUE]
            /\ UNCHANGED phase
  /\ UNCHANGED <<node, pull, pullResults, wsResyncPending, wsEvents, wsStatusCh, certs, panel,
                 budget, mb, notified, mux, wire, strayed>>

\* The kernel starts from the snapshot, if it has users, and the mailbox is seeded with it.
MachineStart ==
  LET booted == BootedNode(loop.cfg, loop.users)
  IN /\ phase = "boot" /\ At("start")
     /\ IF loop.cfg \in BadRuntime
          THEN phase' = "failed" /\ UNCHANGED <<node, mb, loop>>
          ELSE /\ node' = IF DOMAIN loop.users = {} THEN booted
                          ELSE StartKernel(booted, loop.cfg, loop.users, certs.version, "ok").n
               /\ mb' = SeedBaseline(mb, loop.users, loop.cfg)
               /\ Goto("mark")
               /\ UNCHANGED phase
     /\ UNCHANGED <<pull, pullResults, wsResyncPending, ws, wsEvents, wsStatusCh, etag, certs,
                    panel, budget, notified, mux, wire, strayed>>

MachineMarkReady ==
  /\ phase = "boot" /\ At("mark")
  /\ mb' = MarkReady(mb)
  /\ notified' = TRUE
  /\ Goto("drain")
  /\ UNCHANGED <<nodeVars, mux, wire, strayed>>

----------------------------------------------------------------------------
(* The loop and the mailbox.                                               *)

TakeToken ==
  /\ phase = "loop" /\ At("select") /\ notified
  /\ notified' = FALSE
  /\ Goto("drain")
  /\ UNCHANGED <<nodeVars, mb, mux, wire, strayed>>

\* A bug: drained users are stored without telling the kernel.
RememberDrained(n, m) ==
  LET config == IF m.dirtyConfig
                  THEN HandleWSEvent(n, [type |-> "config", cfg |-> m.config],
                                     certs.version, NoFaults)
                  ELSE n
  IN IF m.dirtyUsers THEN SetUsers(config, m.users) ELSE config

\* A bug: only the first kind of what was drained is handed on.
HandleFirst(n, m) ==
  LET Handle(e) == HandleWSEvent(n, e, certs.version, NoFaults)
  IN CASE m.dirtyConfig -> Handle([type |-> "config", cfg |-> m.config])
       [] ~m.dirtyConfig /\ m.dirtyUsers /\ DOMAIN m.users # {} ->
            Handle([type |-> "users", users |-> m.users])
       [] OTHER -> n

\* drainMachineMailbox hands what it drained to handleWSEvent: config, users, devices.  A
\* nil list of users is an event without users.
HandleDrained(n, m) ==
  LET Handle(e, i) == HandleWSEvent(i, e, certs.version, NoFaults)
      config  == IF m.dirtyConfig THEN Handle([type |-> "config", cfg |-> m.config], n) ELSE n
      users   == IF m.dirtyUsers /\ DOMAIN m.users # {}
                   THEN Handle([type |-> "users", users |-> m.users], config) ELSE config
  IN IF m.dirtyDevices THEN Handle([type |-> "devices"], users) ELSE users

\* The drain at the end of initialSetup comes before Run defers the Stop of its kernel,
\* and before the loop.  A pull it starts sees the config it has just applied.
Drain ==
  LET after   == HandleDrained(node, mb)
      p       == IF mb.needsReconcile THEN RequestWSResync(pull) ELSE pull
      started == pull.pc = "idle" /\ p.pc # "idle"
  IN /\ phase \in {"boot", "loop"} /\ At("drain")
     /\ mb' = Drained(mb)
     /\ node' = IF phase = "boot" THEN [after EXCEPT !.deferred = TRUE] ELSE after
     /\ StartPull(IF started THEN [p EXCEPT !.base = after.cfg] ELSE p)
     /\ wsResyncPending' = (wsResyncPending \/ mb.needsReconcile)
     /\ phase' = "loop"
     /\ Goto("select")
     /\ UNCHANGED <<pullResults, ws, wsEvents, wsStatusCh, etag, panel, budget, notified, mux,
                    wire, strayed>>

\* The other cases of the select, and the pull goroutine beside it.
SelectOther ==
  /\ At("select")
  /\ \/ /\ ReceivePullResult(NoFaults) /\ UNCHANGED budget
        /\ strayed' = (strayed \/ node'.users # node.users)
     \/ (ReceiveWSStatus \/ PullTick \/ Shutdown) /\ UNCHANGED strayed
  /\ UNCHANGED <<mb, notified, mux, wire, loop>>

MachinePull == PullGoroutine /\ UNCHANGED machineVars

----------------------------------------------------------------------------
(* The shared WebSocket: onWSEvent and onWSStatus.                         *)

Alive == phase \in {"boot", "loop"}

TellsOfUsers(e) == e.type \in {"users", "add", "remove", "other"}

\* No mailbox could tell the node of this event: the client drops an empty list, an
\* unknown action says nothing, and a delta needs a list it can be folded into.
Untellable(e) ==
  \/ TellsOfUsers(e) /\ Dropped(e)
  \/ e.type = "other"
  \/ e.type \in {"add", "remove"} /\ ~mb.hasFullUserState

\* Apply, up to its unlock.
MuxApply ==
  /\ Alive /\ mux = "idle" /\ wire # <<>>
  /\ wire' = Tail(wire)
  /\ strayed' = (strayed \/ Untellable(Head(wire)))
  /\ IF Dropped(Head(wire))
       THEN UNCHANGED <<mb, mux>>
       ELSE mb' = Apply(mb, Head(wire)) /\ mux' = "notify"
  /\ UNCHANGED <<nodeVars, notified, loop>>

\* A bug: nothing wakes the loop.
NotifyNobody == UNCHANGED notified

\* notify: a token already there is enough.
Notify == notified' = TRUE

MuxNotify ==
  /\ Alive /\ mux = "notify"
  /\ mux' = "idle"
  /\ Notify
  /\ UNCHANGED <<nodeVars, mb, wire, loop, strayed>>

\* onWSStatus reaches the nodes that have registered.
Broadcast(connected) ==
  wsStatusCh' = IF At("fetch") THEN wsStatusCh
                ELSE OfferStatus(wsStatusCh, [connected |-> connected, resync |-> FALSE])

MuxConnect ==
  /\ Alive /\ ~ws.conn
  /\ ws' = [ws EXCEPT !.conn = TRUE]
  /\ Broadcast(TRUE)
  /\ UNCHANGED <<phase, node, pull, pullResults, wsResyncPending, wsEvents, etag, certs, panel,
                 budget, machineVars>>

\* What is on the wire is lost with the connection.
MuxDisconnect ==
  /\ Alive /\ Spend("trouble", 1)
  /\ ws' = [ws EXCEPT !.conn = FALSE]
  /\ Broadcast(FALSE)
  /\ wire' = <<>>
  /\ strayed' = (strayed \/ \E i \in DOMAIN wire : TellsOfUsers(wire[i]))
  /\ UNCHANGED <<phase, node, pull, pullResults, wsResyncPending, wsEvents, etag, certs, panel,
                 mb, notified, mux, loop>>

----------------------------------------------------------------------------
(* The panel.                                                              *)

Send(e) ==
  /\ wire' = IF ws.conn THEN Append(wire, e) ELSE wire
  /\ strayed' = (strayed \/ (~ws.conn /\ TellsOfUsers(e)))
  /\ UNCHANGED <<phase, node, pull, pullResults, wsResyncPending, ws, wsEvents, wsStatusCh,
                 etag, certs, mb, notified, mux, loop>>

PanelEditsConfig(c) ==
  /\ Alive /\ Spend("edits", 1)
  /\ panel' = [panel EXCEPT !.cfg = c]
  /\ Send([type |-> "config", cfg |-> c])

PanelEditsUsers(t) ==
  /\ Alive /\ Spend("edits", 1)
  /\ panel' = [panel EXCEPT !.users = t]
  /\ \E e \in PushesFor(panel.users, t) \cup [type : {"other"}, users : {t}] : Send(e)

PanelSendsDevices ==
  /\ Alive /\ Spend("edits", 1)
  /\ Send([type |-> "devices"])
  /\ UNCHANGED panel

----------------------------------------------------------------------------
MachineInit ==
  /\ Init
  /\ mb = NewNodeMailbox
  /\ notified = FALSE
  /\ mux = "idle"
  /\ wire = <<>>
  /\ loop = [pc |-> "fetch", cfg |-> NoConfig, users |-> EmptyTable]
  /\ strayed = FALSE

MachineNext ==
  \/ At("fetch") /\ BootFails /\ UNCHANGED machineVars
  \/ MachineFetch
  \/ MachineStart
  \/ MachineMarkReady
  \/ TakeToken
  \/ Drain
  \/ SelectOther
  \/ MachinePull
  \/ MuxApply
  \/ MuxNotify
  \/ MuxConnect
  \/ MuxDisconnect
  \/ \E c \in Configs : PanelEditsConfig(c)
  \/ \E t \in PanelTables : PanelEditsUsers(t)
  \/ PanelSendsDevices

MachineSpec == MachineInit /\ [][MachineNext]_allVars

----------------------------------------------------------------------------
(* What must hold.                                                         *)

MachineTypeOK ==
  /\ TypeOK
  /\ mb \in NodeMailbox
  /\ notified \in BOOLEAN
  /\ mux \in {"idle", "notify"}
  /\ wire \in Seq(MachineEvent)
  /\ loop \in [pc : LoopPcs, cfg : Configs \cup {NoConfig}, users : Table]
  /\ strayed \in BOOLEAN

\* Whatever waits in a ready mailbox, somebody is about to look: a token is in the
\* channel, the reader is about to put one there, or the loop is on its way to a drain.
\* Apply notifies after it has unlocked, so a drain may fall between the two.
NoLostWakeup ==
  Alive /\ mb.ready /\ Dirty(mb) => notified \/ mux = "notify" \/ At("drain")

\* Nothing is on its way to the node.
Settled == phase = "loop" /\ At("select") /\ wire = <<>> /\ mux = "idle" /\ ~notified

\* What the service itself turns down: a table its guards refuse (an emptied list, which
\* drainMachineMailbox does not even hand on, is one of them), and a table that arrives
\* while there are no users and so no kernel.
TurnsDown(n, t) ==
  RejectFetchedUsers(n.users, t) \/ (~n.k.running /\ n.users = EmptyTable)

\* Events that came before, during or after startup are neither lost, nor folded in the
\* wrong order, nor overwritten by the older snapshot startup fetched: a settled node
\* whose edits all came over the wire holds the panel's users, unless the service turned
\* them down.
SettledIsCurrent ==
  Settled /\ ~strayed => node.users = panel.users \/ TurnsDown(node, panel.users)
=============================================================================
