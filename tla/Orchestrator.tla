---------------------------- MODULE Orchestrator ----------------------------
(***************************************************************************)
(* A machine's orchestrator (internal/machine/machine.go): which node      *)
(* services run, and through which mailbox and status channel the shared   *)
(* WebSocket reaches each.  Two goroutines can rediscover the panel's list *)
(* at the same time: the main loop and the one a sync.nodes event starts.  *)
(* A step is one critical section, one request or one wait.                *)
(***************************************************************************)
EXTENDS Integers, FiniteSets

CONSTANTS
  Ids,   \* the machine's nodes
  Incs   \* services ever started, reused when nothing refers to one any more

None == 0
ASSUME IncAssumption == Incs \subseteq Nat \ {None}

Goroutines == {"run", "sync"}

VARIABLES
  cancelled,  \* the context of this configuration is cancelled
  panel,      \* the nodes the panel lists for this machine
  nodes,      \* Orchestrator.nodes: the service behind each handle
  routes,     \* .mailboxes and .statuses
  svc,        \* the services
  disc,       \* the goroutines that rediscover; "run" is Run itself
  ws,         \* the shared WebSocket was started
  raced       \* history: two goroutines rediscovered or stopped at once

orchVars == <<panel, nodes, routes, svc, disc, ws, raced>>

NoService   == [id |-> None, st |-> "unused", stop |-> FALSE]
IdleRoutine == [pc |-> "idle", wanted |-> {}, ids |-> {}, id |-> None, inc |-> None]

NoNodes == [id \in Ids |-> None]

\* machine.New, and Run up to its first request.
OrchestratorStarts(machine) ==
  /\ nodes' = NoNodes
  /\ routes' = [mailbox |-> NoNodes, status |-> NoNodes]
  /\ svc' = [k \in Incs |-> NoService]
  /\ disc' = [r \in Goroutines |->
               IF r = "run" THEN [IdleRoutine EXCEPT !.pc = IF machine THEN "initial" ELSE "off"]
                            ELSE IdleRoutine]
  /\ ws' = FALSE /\ raced' = FALSE
  /\ UNCHANGED panel

OrchestratorInit ==
  /\ nodes = NoNodes
  /\ routes = [mailbox |-> NoNodes, status |-> NoNodes]
  /\ svc = [k \in Incs |-> NoService]
  /\ disc = [r \in Goroutines |-> [IdleRoutine EXCEPT !.pc = IF r = "run" THEN "off" ELSE "idle"]]
  /\ ws = FALSE /\ raced = FALSE

Alive(k) == svc[k].st \in {"new", "booting", "running", "leaving", "closing"}
Stopping(k) == cancelled \/ svc[k].stop

At(r, pc) == disc[r].pc = pc
Go(r, pc) == [disc EXCEPT ![r].pc = pc]
Quiet(r)  == disc[r].pc \in {"idle", "off", "failed", "returned"}

----------------------------------------------------------------------------
(* Run and rediscover.                                                     *)

\* The first request; without an answer Run returns an error.
DiscoverFirst(found) ==
  /\ At("run", "initial")
  /\ disc' = IF found THEN [disc EXCEPT !["run"].pc = "handshake", !["run"].ids = panel]
             ELSE Go("run", "failed")
  /\ UNCHANGED <<panel, nodes, routes, svc, ws, raced>>

\* The WebSocket is started before the first nodes.
TryStartWS ==
  /\ At("run", "handshake")
  /\ ws' \in BOOLEAN
  /\ disc' = Go("run", "start")
  /\ UNCHANGED <<panel, nodes, routes, svc, raced>>

\* The panel answers; an unanswered request changes nothing.
Rediscover(r) ==
  /\ At(r, "idle")
  /\ disc' = [disc EXCEPT ![r] = [IdleRoutine EXCEPT !.pc = "plan", !.wanted = panel]]
  /\ raced' = (raced \/ \E q \in Goroutines \ {r} : ~Quiet(q))
  /\ UNCHANGED <<panel, nodes, routes, svc, ws>>

\* sync.nodes: a rediscovery of its own, whether or not the context is cancelled.
SyncNodes == ws /\ ~At("run", "returned") /\ Rediscover("sync")

\* A bug: nothing is ever removed.
PlanNothing(r) ==
  /\ At(r, "plan")
  /\ disc' = [disc EXCEPT ![r].pc = "remove", ![r].ids = {}]
  /\ UNCHANGED <<panel, nodes, routes, svc, ws, raced>>

\* toRemove, under the lock.
Plan(r) ==
  /\ At(r, "plan")
  /\ disc' = [disc EXCEPT ![r].pc = "remove",
                          ![r].ids = {id \in Ids : nodes[id] # None} \ disc[r].wanted]
  /\ UNCHANGED <<panel, nodes, routes, svc, ws, raced>>

\* stopNode: the handle goes first, if it is still there,
StopNode(r, id) ==
  /\ At(r, "remove") /\ id \in disc[r].ids
  /\ IF nodes[id] = None
       THEN disc' = [disc EXCEPT ![r].ids = @ \ {id}] /\ UNCHANGED nodes
       ELSE /\ nodes' = [nodes EXCEPT ![id] = None]
            /\ disc' = [disc EXCEPT ![r].pc = "unmap", ![r].id = id, ![r].inc = nodes[id]]
  /\ UNCHANGED <<panel, routes, svc, ws, raced>>

\* then the mailbox, whoever it belongs to by now, and the service is told,
Unmap(r) ==
  /\ At(r, "unmap")
  /\ routes' = [routes EXCEPT !.mailbox[disc[r].id] = None]
  /\ svc' = [svc EXCEPT ![disc[r].inc].stop = TRUE]
  /\ disc' = Go(r, "wait")
  /\ UNCHANGED <<panel, nodes, ws, raced>>

Removed(r) ==
  disc' = [disc EXCEPT ![r].pc = "remove", ![r].ids = @ \ {disc[r].id}, ![r].inc = None]

\* A bug: stopNode does not wait.
WaitNot(r) ==
  At(r, "wait") /\ Removed(r) /\ UNCHANGED <<panel, nodes, routes, svc, ws, raced>>

\* and waited for.
Wait(r) ==
  /\ At(r, "wait") /\ ~Alive(disc[r].inc)
  /\ Removed(r)
  /\ UNCHANGED <<panel, nodes, routes, svc, ws, raced>>

Removals(r) ==
  /\ At(r, "remove") /\ disc[r].ids = {}
  /\ disc' = [disc EXCEPT ![r].pc = "start", ![r].ids = disc[r].wanted]
  /\ UNCHANGED <<panel, nodes, routes, svc, ws, raced>>

Referenced == {nodes[id] : id \in Ids} \cup {routes.mailbox[id] : id \in Ids}
              \cup {routes.status[id] : id \in Ids} \cup {disc[r].inc : r \in Goroutines}
Free == {k \in Incs : ~Alive(k)} \ Referenced

\* A bug: a node with a handle is started once more.
StartAgain(r, id) ==
  /\ At(r, "start") /\ id \in disc[r].ids
  /\ \E k \in Free :
       /\ nodes' = [nodes EXCEPT ![id] = k]
       /\ svc' = [svc EXCEPT ![k] = [id |-> id, st |-> "new", stop |-> FALSE]]
       /\ disc' = [disc EXCEPT ![r].pc = "map", ![r].id = id, ![r].inc = k]
  /\ UNCHANGED <<panel, routes, ws, raced>>

\* startNode: a node with a handle is left alone, whatever became of its service.
StartNode(r, id) ==
  /\ At(r, "start") /\ id \in disc[r].ids
  /\ IF nodes[id] # None
       THEN disc' = [disc EXCEPT ![r].ids = @ \ {id}] /\ UNCHANGED <<nodes, svc>>
       ELSE \E k \in Free :
               /\ \A y \in Free : k <= y
               /\ nodes' = [nodes EXCEPT ![id] = k]
               /\ svc' = [svc EXCEPT ![k] = [id |-> id, st |-> "new", stop |-> FALSE]]
               /\ disc' = [disc EXCEPT ![r].pc = "map", ![r].id = id, ![r].inc = k]
  /\ UNCHANGED <<panel, routes, ws, raced>>

Map(r) ==
  /\ At(r, "map")
  /\ routes' = [routes EXCEPT !.mailbox[disc[r].id] = disc[r].inc]
  /\ disc' = Go(r, "spawn")
  /\ UNCHANGED <<panel, nodes, svc, ws, raced>>

\* After a look at the node's config, the service's goroutine.
Spawn(r) ==
  /\ At(r, "spawn")
  /\ svc' = [svc EXCEPT ![disc[r].inc].st = "booting"]
  /\ disc' = [disc EXCEPT ![r].pc = "start", ![r].ids = @ \ {disc[r].id}, ![r].inc = None]
  /\ UNCHANGED <<panel, nodes, routes, ws, raced>>

Started(r) ==
  /\ At(r, "start") /\ disc[r].ids = {}
  /\ disc' = [disc EXCEPT ![r] = IdleRoutine]
  /\ UNCHANGED <<panel, nodes, routes, svc, ws, raced>>

\* stopAll: the handles of this moment,
StopAll ==
  /\ cancelled /\ At("run", "idle")
  /\ disc' = [disc EXCEPT !["run"].pc = "stopping",
                          !["run"].ids = {nodes[id] : id \in Ids} \ {None}]
  /\ raced' = (raced \/ ~Quiet("sync"))
  /\ UNCHANGED <<panel, nodes, routes, svc, ws>>

\* A bug: stopAll only cancels.
ReturnsNow ==
  /\ At("run", "stopping")
  /\ disc' = [disc EXCEPT !["run"] = [IdleRoutine EXCEPT !.pc = "returned"]]
  /\ ws' = FALSE
  /\ UNCHANGED <<panel, nodes, routes, svc, raced>>

\* all of which are waited for.
Returns ==
  /\ At("run", "stopping") /\ \A k \in disc["run"].ids : ~Alive(k)
  /\ disc' = [disc EXCEPT !["run"] = [IdleRoutine EXCEPT !.pc = "returned"]]
  /\ ws' = FALSE
  /\ UNCHANGED <<panel, nodes, routes, svc, raced>>

RunStep ==
  \/ TryStartWS \/ StopAll \/ Returns \/ Rediscover("run")

RoutineStep(r) ==
  \/ Plan(r) \/ Unmap(r) \/ Wait(r) \/ Removals(r) \/ Map(r) \/ Spawn(r) \/ Started(r)
  \/ \E id \in Ids : StopNode(r, id) \/ StartNode(r, id)

----------------------------------------------------------------------------
(* A node's goroutine.                                                     *)

\* Initial registers the status channel.
NodeBoots(k) ==
  /\ svc[k].st = "booting"
  /\ svc' = [svc EXCEPT ![k].st = "running"]
  /\ routes' = [routes EXCEPT !.status[svc[k].id] = k]
  /\ UNCHANGED <<panel, nodes, disc, ws, raced>>

\* service.Run returns: its boot failed,
NodeFails(k) ==
  /\ svc[k].st = "booting"
  /\ svc' = [svc EXCEPT ![k].st = "leaving"]
  /\ UNCHANGED <<panel, nodes, routes, disc, ws, raced>>

\* or its context is cancelled.
NodeReturns(k) ==
  /\ svc[k].st = "running" /\ Stopping(k)
  /\ svc' = [svc EXCEPT ![k].st = "leaving"]
  /\ UNCHANGED <<panel, nodes, routes, disc, ws, raced>>

\* unregisterNode, for whoever is registered,
Unregister(k) ==
  /\ svc[k].st = "leaving"
  /\ routes' = [routes EXCEPT !.mailbox[svc[k].id] = None, !.status[svc[k].id] = None]
  /\ svc' = [svc EXCEPT ![k].st = "closing"]
  /\ UNCHANGED <<panel, nodes, disc, ws, raced>>

\* and then done is closed.
CloseDone(k) ==
  /\ svc[k].st = "closing"
  /\ svc' = [svc EXCEPT ![k].st = "closed"]
  /\ UNCHANGED <<panel, nodes, routes, disc, ws, raced>>

NodeStep(k) == NodeBoots(k) \/ NodeReturns(k) \/ Unregister(k) \/ CloseDone(k)

----------------------------------------------------------------------------
Pcs == {"off", "initial", "handshake", "failed", "idle", "plan", "remove", "unmap", "wait",
        "start", "map", "spawn", "stopping", "returned"}
Routines ==
  [pc : Pcs, wanted : SUBSET Ids, ids : SUBSET (Ids \cup Incs), id : Ids \cup {None},
   inc : Incs \cup {None}]

OrchestratorTypeOK ==
  /\ cancelled \in BOOLEAN /\ ws \in BOOLEAN /\ raced \in BOOLEAN
  /\ panel \subseteq Ids
  /\ nodes \in [Ids -> Incs \cup {None}]
  /\ routes \in [mailbox : [Ids -> Incs \cup {None}], status : [Ids -> Incs \cup {None}]]
  /\ svc \in [Incs -> [id : Ids \cup {None}, stop : BOOLEAN,
                       st : {"unused", "new", "booting", "running", "leaving", "closing",
                             "closed"}]]
  /\ disc \in [Goroutines -> Routines]

BeingStopped(k) == \E r \in Goroutines : At(r, "unmap") /\ disc[r].inc = k

\* The shared WebSocket reaches every running service through the mailbox and the status
\* channel that are its own (startNode, registerNode, unregisterNode), provided two
\* goroutines never rediscovered at once: then a stopped service unregisters its successor.
RunningIsReachable ==
  ~raced => \A k \in Incs : svc[k].st = "running" /\ ~Stopping(k) /\ ~BeingStopped(k) =>
    /\ nodes[svc[k].id] = k
    /\ routes.mailbox[svc[k].id] = k
    /\ routes.status[svc[k].id] = k

\* A node never has two services at once, one that is on its way out included (stopNode waits,
\* startNode looks for a handle): they would report the same traffic and share directories.
\* Again provided two goroutines never rediscovered at once: the handle goes before the wait.
OneServicePerNode ==
  ~raced => \A j, k \in Incs : Alive(j) /\ Alive(k) /\ svc[j].id = svc[k].id => j = k

\* When Run has returned, every service it started has ended (stopAll), provided nobody
\* rediscovered meanwhile: what is started after stopAll took its list is left behind.
NobodyLeftBehind ==
  At("run", "returned") /\ ~raced => \A k \in Incs : ~Alive(k)
=============================================================================
