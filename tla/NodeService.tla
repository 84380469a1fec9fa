---------------------------- MODULE NodeService ----------------------------
(***************************************************************************)
(* One node service in panel mode: the select loop of Service.Run, the     *)
(* pull goroutine it starts, the WebSocket client's callbacks, and the     *)
(* panel they talk to.  The loop handles one channel at a time; the pull   *)
(* goroutine and the WebSocket client run beside it and meet it only in    *)
(* pullResults, wsEvents, wsStatusCh, pullActive and the backoff.          *)
(***************************************************************************)
EXTENDS NodeState, Sequences

CONSTANTS
  PollAttempts,  \* controlPlanePollAttempts (3 in the code)
  EventCap,      \* capacity of wsEvents (16)
  StatusCap,     \* capacity of wsStatusCh (4)
  BadSpec,       \* configs NodeSpecFromPanelValidated refuses
  PanelTables,   \* user tables the panel may hold
  PushKinds,     \* event types the panel pushes
  Starts         \* what the panel may hold and offer at first, and how often each kind of
                 \* environment step may happen then

\* Steps left of each kind, and in "failed" the kernel steps in which a call has failed.
BudgetKinds == {"edits", "kernel", "trouble", "failed"}

Panel == [cfg : Configs, users : Table, ws : BOOLEAN]

ASSUME CapsAssumption ==
  /\ PollAttempts \in Nat \ {0}
  /\ EventCap \in Nat \ {0}
  /\ StatusCap \in Nat \ {0}
  /\ BadSpec \subseteq Configs
  /\ PanelTables \subseteq Table
  /\ Starts \subseteq [panel : Panel, budget : [BudgetKinds -> Nat]]
  /\ \A s \in Starts : s.budget["failed"] = 0

VARIABLES
  phase,           \* where Run is: "boot", "loop", "failed" or "stopped"
  node,            \* what the loop goroutine owns (module NodeState)
  pull,            \* the pull goroutine: pullActive, its locals, pullBackoff
  pullResults,     \* channel of capacity 1 from the pull goroutine to the loop
  wsResyncPending,
  ws,              \* wsClient # nil, IsConnected, wsDisconnectAt # zero
  wsEvents,
  wsStatusCh,
  etag,            \* config the panel client would be answered 304 for
  certs,           \* cert.Manager: generation of the material, renewed flag
  panel,           \* environment: what the panel holds and offers
  budget           \* environment: steps left, and kernel steps that failed

vars == <<phase, node, pull, pullResults, wsResyncPending, ws, wsEvents, wsStatusCh,
          etag, certs, panel, budget>>

PullResult == [cfg : Configs \cup {NoConfig}, users : Table \cup {Malformed}, cert : BOOLEAN]

Event ==
  [type : {"config"}, cfg : Configs] \cup
  [type : {"users", "add", "remove"}, users : Table] \cup [type : {"devices"}]

Status == [connected : BOOLEAN, resync : BOOLEAN]

Spend(kind, n) == budget[kind] >= n /\ budget' = [budget EXCEPT ![kind] = @ - n]

----------------------------------------------------------------------------
(* Channels: every send from a callback is non-blocking and may drop.      *)

\* A bug: status changes queue without a bound.
QueueStatus(q, s) == Append(q, s)

OfferStatus(q, s) == IF Len(q) < StatusCap THEN Append(q, s) ELSE q

\* A bug: the callback queues without a bound.
DeliverAlways(e) == wsEvents' = Append(wsEvents, e) /\ UNCHANGED wsStatusCh

\* The onEvent callback: a full wsEvents drops the event and asks for a resync.
Deliver(e) ==
  IF Len(wsEvents) < EventCap
    THEN wsEvents' = Append(wsEvents, e) /\ UNCHANGED wsStatusCh
    ELSE /\ wsStatusCh' = OfferStatus(wsStatusCh, [connected |-> TRUE, resync |-> TRUE])
         /\ UNCHANGED wsEvents

\* What the client drops before it calls back: an empty user list (handleDataEvent), and a
\* config that TranslateWSEvent cannot validate.
Dropped(e) ==
  \/ e.type = "users" /\ DOMAIN e.users = {}
  \/ e.type = "config" /\ e.cfg \in BadSpec

\* What the panel sends reaches the callback only over a live connection.
Push(e) ==
  IF ws.conn /\ e.type \in PushKinds /\ ~Dropped(e)
    THEN Deliver(e) ELSE UNCHANGED <<wsEvents, wsStatusCh>>

----------------------------------------------------------------------------
NoWs == [client |-> FALSE, conn |-> FALSE, down |-> FALSE]

\* No pull goroutine runs: its locals are gone, the backoff stays.
IdlePull(skip) ==
  [pc |-> "idle", attempt |-> 1, base |-> NoConfig, cert |-> FALSE,
   cfg |-> NoConfig, users |-> EmptyTable, skip |-> skip]

\* A bug: a backoff that is never counted down.
PullStuckInBackoff(p) ==
  IF p.pc # "idle" \/ p.skip > 0 THEN p
  ELSE [p EXCEPT !.pc = "config", !.base = node.cfg, !.cert = certs.renewed]

\* pullViaAPIAsync: at most one pull at a time, and none while backing off.  The
\* goroutine keeps the config hash and the renewed flag of this moment.
PullViaAPI(p) ==
  CASE p.pc # "idle" -> p
    [] p.pc = "idle" /\ p.skip > 0 -> [p EXCEPT !.skip = @ - 1]
    [] OTHER -> [p EXCEPT !.pc = "config", !.base = node.cfg, !.cert = certs.renewed]

\* CertRenewed() clears the flag when a pull starts.
StartPull(p) ==
  /\ pull' = p
  /\ certs' = [certs EXCEPT !.renewed = @ /\ ~(pull.pc = "idle" /\ p.pc # "idle")]

RequestWSResync(p) == IF wsResyncPending THEN p ELSE PullViaAPI(p)

\* apiBackoff.onFailure.
OnFailure(skip) == CASE skip = 0 -> 1 [] skip \in 1 .. 7 -> 2 * skip [] OTHER -> skip

----------------------------------------------------------------------------
(* Startup and shutdown.                                                   *)

\* The panel's first config and users are taken as they are; Run then defers the Stop of
\* the kernel object it has.
BootedNode(c, t) == [SetUsers(AdoptConfig(node, c), t) EXCEPT !.deferred = TRUE]
BootNode == BootedNode(panel.cfg, panel.users)

\* PanelControlPlane.Initial and initialSetup without a WebSocket: the kernel starts only
\* if there are users.
BootRest(f) ==
  LET s == StartKernel(BootNode, BootNode.cfg, BootNode.users, certs.version, f.start)
  IN /\ phase = "boot" /\ ~panel.ws
     /\ etag' = panel.cfg
     /\ CASE panel.cfg \in BadSpec \cup BadRuntime -> phase' = "failed" /\ UNCHANGED node
          [] panel.cfg \notin BadSpec \cup BadRuntime /\ DOMAIN panel.users = {} ->
               phase' = "loop" /\ node' = BootNode
          [] OTHER -> /\ phase' = IF s.ok THEN "loop" ELSE "failed"
                      /\ node' = s.n
     /\ UNCHANGED <<pull, pullResults, wsResyncPending, ws, wsEvents, wsStatusCh, certs, panel>>

\* The handshake or one of the first two fetches failed: Run returns the error.
BootFails ==
  /\ phase = "boot" /\ Spend("trouble", 1)
  /\ phase' = "failed"
  /\ UNCHANGED <<node, pull, pullResults, wsResyncPending, ws, wsEvents, wsStatusCh, etag,
                 certs, panel>>

\* With a WebSocket offered, Run enters the loop with nothing and waits for it.
BootWs ==
  /\ phase = "boot" /\ panel.ws
  /\ phase' = "loop"
  /\ ws' = [ws EXCEPT !.client = TRUE]
  /\ UNCHANGED <<node, pull, pullResults, wsResyncPending, wsEvents, wsStatusCh, etag,
                 certs, panel, budget>>

\* ctx.Done: Run returns and the deferred Stop runs, of the kernel object the defer
\* statement saw; the pull goroutine and the WebSocket client end and what the channels
\* hold is never read.
Shutdown ==
  /\ phase = "loop"
  /\ phase' = "stopped"
  /\ node' = IF node.deferred THEN [node EXCEPT !.k = Stop(@)] ELSE node
  /\ pull' = IdlePull(0) /\ ws' = NoWs
  /\ pullResults' = <<>> /\ wsEvents' = <<>> /\ wsStatusCh' = <<>>
  /\ UNCHANGED <<wsResyncPending, etag, certs, panel, budget>>

----------------------------------------------------------------------------
(* The select loop.                                                        *)

\* pullTicker: nothing while the WebSocket is connected.
PullTick ==
  /\ phase = "loop"
  /\ ~(ws.client /\ ws.conn)
  /\ StartPull(PullViaAPI(pull))
  /\ UNCHANGED <<phase, node, pullResults, wsResyncPending, ws, wsEvents, wsStatusCh,
                 etag, panel, budget>>

ReceivePullResult(f) ==
  /\ phase = "loop" /\ pullResults # <<>>
  /\ pullResults' = Tail(pullResults)
  /\ wsResyncPending' = FALSE
  /\ node' = ApplyPullResult(node, Head(pullResults), certs.version, f)
  /\ UNCHANGED <<phase, pull, ws, wsEvents, wsStatusCh, etag, certs, panel>>

ReceiveWSEvent(f) ==
  /\ phase = "loop" /\ wsEvents # <<>>
  /\ f.kept # {} => /\ Head(wsEvents).type = "add"
                    /\ f.kept \subseteq Recredentialed(node.users, Head(wsEvents).users)
  /\ wsEvents' = Tail(wsEvents)
  /\ node' = HandleWSEvent(node, Head(wsEvents), certs.version, f)
  /\ UNCHANGED <<phase, pull, pullResults, wsResyncPending, ws, wsStatusCh, etag, certs,
                 panel>>

\* handleWSStatus: a connect and a disconnect both pull; so does a resync, first.
ReceiveWSStatus ==
  LET s == Head(wsStatusCh)
      p == IF s.resync THEN RequestWSResync(pull) ELSE pull
  IN /\ phase = "loop" /\ wsStatusCh # <<>>
     /\ wsStatusCh' = Tail(wsStatusCh)
     /\ wsResyncPending' = (wsResyncPending \/ s.resync)
     /\ ws' = [ws EXCEPT !.down = ~s.connected]
     /\ node' = IF s.connected THEN node ELSE [node EXCEPT !.k = ClearGlobalDevices(@)]
     /\ StartPull(PullViaAPI(p))
     /\ UNCHANGED <<phase, pullResults, wsEvents, etag, panel, budget>>

\* wsDiscovery, when there is no client or (some time past ten minutes after a
\* disconnect was noted) the client is down.  The handshake answers what the panel
\* offers now; a failed handshake changes nothing.  A client that is cancelled reports
\* a last disconnect when it was connected or dialing.
WSDiscovery ==
  /\ phase = "loop"
  /\ ~ws.client \/ ws.down
  /\ StartPull(PullViaAPI(pull))
  /\ CASE panel.ws /\ ~ws.client ->
            ws' = [NoWs EXCEPT !.client = TRUE] /\ UNCHANGED wsStatusCh
       [] ~panel.ws /\ ws.client ->
            /\ ws' = NoWs
            /\ \/ wsStatusCh' = OfferStatus(wsStatusCh, [connected |-> FALSE, resync |-> FALSE])
               \/ ~ws.conn /\ UNCHANGED wsStatusCh
       [] OTHER -> UNCHANGED <<ws, wsStatusCh>>
  /\ UNCHANGED <<phase, node, pullResults, wsResyncPending, wsEvents, etag, panel, budget>>

----------------------------------------------------------------------------
(* The pull goroutine: pollControlPlaneWithRetry, then one send.           *)

\* An attempt failed: the next one starts over, after the last the pull is given up.
PollFails ==
  /\ pull' = IF pull.attempt < PollAttempts
               THEN [pull EXCEPT !.pc = "config", !.attempt = @ + 1]
               ELSE IdlePull(OnFailure(pull.skip))
  /\ UNCHANGED etag

PollFrame == UNCHANGED <<phase, node, wsResyncPending, ws, wsEvents, wsStatusCh, certs, panel>>

\* GetConfig: 304 when the client already holds the panel's config; otherwise the
\* client remembers the new ETag at once.
PollConfig ==
  /\ phase = "loop" /\ pull.pc = "config"
  /\ \/ /\ pull' = [pull EXCEPT !.pc = "users",
                                !.cfg = IF etag = panel.cfg THEN NoConfig ELSE panel.cfg]
        /\ etag' = panel.cfg
        /\ UNCHANGED budget
     \/ Spend("trouble", 1) /\ PollFails
  /\ UNCHANGED pullResults /\ PollFrame

\* GetUsers, then the normalisation of the config.  A misbehaving panel may answer with
\* an empty or a malformed list.
PollUsers ==
  /\ phase = "loop" /\ pull.pc = "users"
  /\ \/ /\ pull.cfg \notin BadSpec
        /\ \/ pull' = [pull EXCEPT !.pc = "send", !.users = panel.users, !.skip = 0]
              /\ UNCHANGED budget
           \/ \E t \in {EmptyTable, Malformed} :
                pull' = [pull EXCEPT !.pc = "send", !.users = t, !.skip = 0]
              /\ Spend("trouble", 1)
        /\ UNCHANGED etag
     \/ pull.cfg \in BadSpec /\ PollFails /\ UNCHANGED budget
     \/ Spend("trouble", 1) /\ PollFails
  /\ UNCHANGED pullResults /\ PollFrame

\* The send blocks while the loop has not taken the previous result.
PollSend ==
  /\ phase = "loop" /\ pull.pc = "send" /\ pullResults = <<>>
  /\ pullResults' = <<[cfg   |-> IF pull.cfg = pull.base /\ ~pull.cert THEN NoConfig
                                 ELSE pull.cfg,
                       users |-> pull.users, cert |-> pull.cert]>>
  /\ pull' = [pull EXCEPT !.pc = "done"]
  /\ UNCHANGED <<etag, budget>> /\ PollFrame

\* The deferred pullActive.Store(false).
PollDone ==
  /\ phase = "loop" /\ pull.pc = "done"
  /\ pull' = IdlePull(pull.skip)
  /\ UNCHANGED <<pullResults, etag, budget>> /\ PollFrame

----------------------------------------------------------------------------
(* The WebSocket client and the world outside.                             *)

WorldFrame == UNCHANGED <<phase, node, pull, pullResults, wsResyncPending, etag>>

WSConnect ==
  /\ phase = "loop" /\ ws.client /\ ~ws.conn /\ panel.ws
  /\ ws' = [ws EXCEPT !.conn = TRUE]
  /\ wsStatusCh' = OfferStatus(wsStatusCh, [connected |-> TRUE, resync |-> FALSE])
  /\ UNCHANGED <<wsEvents, certs, panel, budget>> /\ WorldFrame

\* A connection lost, or a dial that failed: both are reported as a disconnect.
WSDisconnect ==
  /\ phase = "loop" /\ ws.client
  /\ Spend("trouble", 1)
  /\ ws' = [ws EXCEPT !.conn = FALSE]
  /\ wsStatusCh' = OfferStatus(wsStatusCh, [connected |-> FALSE, resync |-> FALSE])
  /\ UNCHANGED <<wsEvents, certs, panel>> /\ WorldFrame

\* The panel changes what it holds, or sends what it holds again, as to a node that has
\* just connected.
PanelSetsConfig(c) ==
  /\ Spend("edits", 1)
  /\ panel' = [panel EXCEPT !.cfg = c]
  /\ Push([type |-> "config", cfg |-> c])
  /\ UNCHANGED <<ws, certs>> /\ WorldFrame

\* The events that tell a node holding old that the table is now new.
PushesFor(old, new) ==
  LET changed == {i \in DOMAIN new : i \notin DOMAIN old \/ old[i] # new[i]}
      gone    == DOMAIN old \ DOMAIN new
  IN {[type |-> "users", users |-> new]} \cup
     (IF gone = {} /\ changed # {} THEN {[type |-> "add", users |-> Restrict(new, changed)]}
      ELSE {}) \cup
     (IF changed = {} /\ gone # {} THEN {[type |-> "remove", users |-> Restrict(old, gone)]}
      ELSE {})

PanelSetsUsers(t) ==
  /\ Spend("edits", 1)
  /\ panel' = [panel EXCEPT !.users = t]
  /\ LET pushes == {e \in PushesFor(panel.users, t) : e.type \in PushKinds}
     IN \/ \E e \in pushes : Push(e)
        \/ pushes = {} /\ UNCHANGED <<wsEvents, wsStatusCh>>
  /\ UNCHANGED <<ws, certs>> /\ WorldFrame

PanelPushesDevices ==
  /\ ws.conn /\ "devices" \in PushKinds
  /\ Spend("edits", 1)
  /\ Push([type |-> "devices"])
  /\ UNCHANGED <<ws, certs, panel>> /\ WorldFrame

PanelTogglesWs ==
  /\ Spend("trouble", 1)
  /\ panel' = [panel EXCEPT !.ws = ~@]
  /\ UNCHANGED <<ws, wsEvents, wsStatusCh, certs>> /\ WorldFrame

\* cert.Manager's renewal goroutine.
CertRenews ==
  /\ Spend("trouble", 1)
  /\ certs' = [version |-> certs.version + 1, renewed |-> TRUE]
  /\ UNCHANGED <<ws, wsEvents, wsStatusCh, panel>> /\ WorldFrame

\* Five minutes pass since the last full start of an xray kernel.
ReconcileFallsDue ==
  /\ phase = "loop" /\ ~node.due /\ node.k.type = "xray"
  /\ node' = [node EXCEPT !.due = TRUE]
  /\ UNCHANGED <<phase, pull, pullResults, wsResyncPending, ws, wsEvents, wsStatusCh, etag,
                 certs, panel, budget>>

----------------------------------------------------------------------------
Init ==
  /\ phase = "boot"
  /\ node = NewNode
  /\ pull = IdlePull(0)
  /\ pullResults = <<>>
  /\ wsResyncPending = FALSE
  /\ ws = NoWs
  /\ wsEvents = <<>>
  /\ wsStatusCh = <<>>
  /\ etag = NoConfig
  /\ certs = [version |-> 0, renewed |-> FALSE]
  /\ \E s \in Starts : panel = s.panel /\ budget = s.budget

\* A step in which kernel calls fail is paid for once, however many do.  An eviction can
\* fail only in a delta that makes one.
KernelStep ==
  \E f \in IF budget["kernel"] = 0 THEN {NoFaults} ELSE Faults :
    /\ budget' = IF f = NoFaults THEN budget
                 ELSE [budget EXCEPT !["kernel"] = @ - 1, !["failed"] = @ + 1]
    /\ \/ f.kept = {} /\ BootRest(f)
       \/ f.kept = {} /\ ReceivePullResult(f)
       \/ ReceiveWSEvent(f)

PullGoroutine == PollConfig \/ PollUsers \/ PollSend \/ PollDone

\* What happens around a running service.
World ==
  /\ phase = "loop"
  /\ \/ WSConnect
     \/ WSDisconnect
     \/ \E c \in Configs : PanelSetsConfig(c)
     \/ \E t \in PanelTables : PanelSetsUsers(t)
     \/ PanelPushesDevices
     \/ PanelTogglesWs
     \/ CertRenews
     \/ ReconcileFallsDue

Next ==
  \/ BootFails
  \/ BootWs
  \/ KernelStep
  \/ ReceiveWSStatus
  \/ PullTick
  \/ WSDiscovery
  \/ Shutdown
  \/ PullGoroutine
  \/ World

Spec == Init /\ [][Next]_vars

\* The tickers keep firing, the select loop takes every ready channel in the end (Go
\* picks among ready cases at random), and the pull goroutine and its HTTP calls, which
\* time out, make progress.
Fairness ==
  /\ WF_vars(KernelStep)
  /\ WF_vars(ReceiveWSStatus)
  /\ WF_vars(PullTick)
  /\ WF_vars(PullGoroutine)

FairSpec == Spec /\ Fairness

----------------------------------------------------------------------------
(* What must hold.                                                         *)

Pull ==
  [pc : {"idle", "config", "users", "send", "done"}, attempt : 1 .. PollAttempts,
   base : Configs \cup {NoConfig}, cert : BOOLEAN, cfg : Configs \cup {NoConfig},
   users : Table \cup {Malformed}, skip : Nat]

\* Type correctness, with the capacities of the three channels.
TypeOK ==
  /\ phase \in {"boot", "loop", "failed", "stopped"}
  /\ node \in Node
  /\ pull \in Pull
  /\ pullResults \in Seq(PullResult) /\ Len(pullResults) <= 1
  /\ wsResyncPending \in BOOLEAN
  /\ ws \in [client : BOOLEAN, conn : BOOLEAN, down : BOOLEAN]
  /\ wsEvents \in Seq(Event) /\ Len(wsEvents) <= EventCap
  /\ wsStatusCh \in Seq(Status) /\ Len(wsStatusCh) <= StatusCap
  /\ etag \in Configs \cup {NoConfig}
  /\ certs \in [version : Nat, renewed : BOOLEAN]
  /\ panel \in Panel
  /\ budget \in [BudgetKinds -> Nat]

\* The kernel serves what the service believes it serves.  Of a frozen inbound nothing
\* is claimed: sing-box leaves its users as they are and reports success.
Agreement(n) ==
  /\ n.k.spec = n.cfg
  /\ Creds(n.k.users) = Creds(n.users)
  /\ ~Frozen(n.k) => Serves(n.k) = Creds(n.users)

\* As long as no kernel call has failed, a running kernel runs the service's config and,
\* unless the config is hysteria version 1 on sing-box, its inbound authenticates exactly
\* the service's users, whatever the order in which snapshots, deltas, configs and
\* renewals arrived, and whatever was served before (FIXES.md, "root cause").
MemoryIsServed == budget["failed"] = 0 /\ node.k.running => Agreement(node)

\* Even when kernel calls fail, the kernel object is of the type its config resolves to
\* (ResolveEffectiveKernelType), so a transport never reaches a kernel without it.
KernelSuitsConfig ==
  /\ node.cfg # NoConfig => node.k.type = KernelOf[node.cfg]
  /\ node.k.running => node.k.spec # NoConfig /\ node.k.type = KernelOf[node.k.spec]

Handles(queue, queue1) == queue # <<>> /\ queue1 = Tail(queue)

\* The table collapses (to nobody, or below half of a large one) only because the panel
\* said so user by user, in a remove delta: no snapshot, from REST or from the
\* WebSocket, empty, malformed or truncated, does it (FIXES.md section 1).
CollapseOnlyByRemove ==
  [][EmptyReplacesUsers(node.users, node'.users) \/ AbnormalDrop(node.users, node'.users)
       => Handles(wsEvents, wsEvents') /\ Head(wsEvents).type = "remove"]_vars

\* A step that only synchronises users: an event other than a re-credentialing add, or
\* a pull that carries neither a config nor a renewed certificate.
UserSync ==
  \/ /\ Handles(wsEvents, wsEvents')
     /\ Head(wsEvents).type \in {"users", "add", "remove"}
     /\ Head(wsEvents).type = "add" => Recredentialed(node.users, Head(wsEvents).users) = {}
  \/ /\ Handles(pullResults, pullResults')
     /\ Head(pullResults).cfg = NoConfig /\ ~Head(pullResults).cert

\* On xray a user synchronisation never separates memory from the inbound, whichever of
\* its kernel calls fail: the rollback restores what is still being served (FIXES.md
\* section 6).
RollbackKeepsAgreement ==
  [][UserSync /\ node.k.type = "xray" /\ node.k.running /\ Agreement(node)
       => Agreement(node') \/ ~node'.k.running]_vars

\* To a node that started without a WebSocket and has no lasting one, polling alone
\* brings the panel's users, or those the guards of rejectFetchedUsers keep, to the
\* inbound, through failed polls, corrupted answers, config changes and renewals.  Left
\* out are a kernel call that failed, a panel that has had no users (kernel_never_starts),
\* and, for the inbound, hysteria version 1 on sing-box.
UsersReachInbound ==
  \/ panel.ws
  \/ <>[](ws.conn)
  \/ <>(budget["failed"] # 0 \/ DOMAIN panel.users = {})
  \/ <>[](phase = "loop" =>
            /\ node.users = panel.users \/ RejectFetchedUsers(node.users, panel.users)
            /\ node.k.running
            /\ ~Frozen(node.k) => Serves(node.k) = Creds(node.users))

\* A config whose fetch succeeded is not lost when the rest of the poll fails: polling
\* retries until the node runs the panel's config (FIXES.md section 1).
ConfigReachesNode ==
  \/ <>[](ws.conn)
  \/ <>[](phase = "loop" => node.cfg = panel.cfg)

\* "kernel will not start until users are available" (service.go): once they are, it
\* does.
KernelStartsOnceUsersExist ==
  <>[](DOMAIN panel.users # {}) => \/ <>[](ws.conn)
                                  \/ <>[](phase = "loop" => node.k.running)

\* A delta that changes the uuid of a user leaves the new uuid, and only it, served, if
\* no kernel call fails (FIXES.md section 7).
UuidChangeIsServed ==
  [][(/\ Handles(wsEvents, wsEvents') /\ Head(wsEvents).type = "add"
      /\ node.k.running /\ budget' = budget)
       => /\ node'.k.running
          /\ \A i \in DOMAIN Head(wsEvents).users :
               /\ i \in DOMAIN Serves(node'.k)
               /\ Serves(node'.k)[i] = Head(wsEvents).users[i].uuid]_vars

\* A service that was stopped, as for a node that was removed or before a restart with a
\* new configuration, leaves no kernel running (machine.go: "starts / stops Service
\* instances as nodes are added / removed").
KernelStopsWithService == phase = "stopped" => ~node.k.running
=============================================================================
