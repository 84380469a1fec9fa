-------------------------- MODULE SupervisorProofs --------------------------
(***************************************************************************)
(* Theorems about the process: what its machine's orchestrator keeps in    *)
(* place while services come and go, and which directories and nodes the   *)
(* services of any configuration files are given.                          *)
(***************************************************************************)
EXTENDS Supervisor, SequenceTheorems, TLAPS

----------------------------------------------------------------------------
(* What a step of the process does to the orchestrator.                    *)

PanelMoves == panel' \subseteq Ids /\ UNCHANGED <<nodes, routes, svc, disc, ws, raced>>

OrchestratorStep ==
  \/ PanelMoves
  \/ \E machine \in BOOLEAN : OrchestratorStarts(machine)
  \/ \E found \in BOOLEAN : DiscoverFirst(found)
  \/ SyncNodes \/ RunStep
  \/ \E r \in Goroutines : RoutineStep(r)
  \/ \E k \in Incs : NodeStep(k) \/ NodeFails(k)

LEMMA Steps ==
  ASSUME panel \subseteq Ids, cancelled \in BOOLEAN, [Next]_vars
  PROVE  OrchestratorStep /\ cancelled' \in BOOLEAN
<1> DEFINE Still == UNCHANGED orchVars
<1>0. Still => OrchestratorStep
  BY DEF orchVars, OrchestratorStep, PanelMoves
<1>1. CASE UNCHANGED vars
  BY <1>0, <1>1 DEF vars
<1>2. CASE Round
  <2>1. CASE Boot
    <3>1. CASE CanNormalize(root) /\ ValidateStartupLayout(NormalizeInstances(root))
      <4>1. /\ OrchestratorStarts(\E i \in DOMAIN root : IsMachineMode(root[i]))
            /\ cancelled' = FALSE
        BY <2>1, <3>1 DEF Boot
      <4> QED BY <4>1 DEF OrchestratorStep, OrchestratorStarts
    <3>2. CASE ~(CanNormalize(root) /\ ValidateStartupLayout(NormalizeInstances(root)))
      <4>1. Exit
        BY <2>1, <3>2 DEF Boot
      <4> QED BY <1>0, <4>1 DEF Exit
    <3> QED BY <3>1, <3>2
  <2>2. CASE TakeReload
    BY <1>0, <2>2 DEF TakeReload
  <2>3. CASE AllReturned
    BY <1>0, <2>3 DEF AllReturned, Exit
  <2>4. CASE Drained
    BY <1>0, <2>4 DEF Drained, Exit
  <2> QED BY <1>2, <2>1, <2>2, <2>3, <2>4 DEF Round
<1>3. CASE Environment
  <2>1. CASE Signal
    BY <1>0, <2>1 DEF Signal, Exit
  <2>2. CASE SyncEvent
    BY <2>2 DEF SyncEvent, Apart, OrchestratorStep
  <2>3. CASE Unanswered
    BY <2>3 DEF Unanswered, Apart, OrchestratorStep
  <2>4. ASSUME NEW f \in Names, Edit(f) PROVE OrchestratorStep /\ cancelled' \in BOOLEAN
    BY <1>0, <2>4 DEF Edit
  <2>5. ASSUME NEW s \in DOMAIN state, Fails(s) PROVE OrchestratorStep /\ cancelled' \in BOOLEAN
    BY <1>0, <2>5 DEF Fails, Rest
  <2>6. ASSUME NEW ids \in SUBSET Ids, PanelChanges(ids)
        PROVE  OrchestratorStep /\ cancelled' \in BOOLEAN
    BY <2>6 DEF PanelChanges, Apart, OrchestratorStep, PanelMoves
  <2>7. ASSUME NEW k \in Incs, NodeBootFails(k) PROVE OrchestratorStep /\ cancelled' \in BOOLEAN
    BY <2>7 DEF NodeBootFails, Apart, OrchestratorStep
  <2> QED BY <1>3, <2>1, <2>2, <2>3, <2>4, <2>5, <2>6, <2>7 DEF Environment
<1>4. CASE HearSignal \/ ListenerLeaves \/ ForceExit
  BY <1>0, <1>4 DEF HearSignal, ListenerLeaves, ForceExit, Exit
<1>5. CASE DebounceEnds \/ WatcherLeaves \/ \E new \in watch.loaded : Offer(new)
  BY <1>0, <1>5 DEF DebounceEnds, WatcherLeaves, Offer
<1>6. ASSUME NEW s \in DOMAIN state, ServiceStep(s)
      PROVE  OrchestratorStep /\ cancelled' \in BOOLEAN
  BY <1>0, <1>6 DEF ServiceStep, Turn, Starts, SendError, Returned, MachineReturned, Rest
<1>7. CASE MachineStep(DiscoverFirst(TRUE)) \/ MachineStep(RunStep)
  BY <1>7 DEF MachineStep, Apart, OrchestratorStep
<1>8. ASSUME NEW r \in Goroutines, MachineStep(RoutineStep(r))
      PROVE  OrchestratorStep /\ cancelled' \in BOOLEAN
  BY <1>8 DEF MachineStep, Apart, OrchestratorStep
<1>9. ASSUME NEW k \in Incs, MachineStep(NodeStep(k))
      PROVE  OrchestratorStep /\ cancelled' \in BOOLEAN
  BY <1>9 DEF MachineStep, Apart, OrchestratorStep
<1> QED BY <1>1, <1>2, <1>3, <1>4, <1>5, <1>6, <1>7, <1>8, <1>9 DEF Next

----------------------------------------------------------------------------
(* The orchestrator's types.                                               *)

Places == [Ids -> Incs \cup {None}]
Node == [id : Ids \cup {None}, stop : BOOLEAN,
         st : {"unused", "new", "booting", "running", "leaving", "closing", "closed"}]

OrchestratorTypes ==
  /\ ws \in BOOLEAN /\ raced \in BOOLEAN /\ panel \subseteq Ids
  /\ nodes \in Places /\ routes \in [mailbox : Places, status : Places]
  /\ svc \in [Incs -> Node] /\ disc \in [Goroutines -> Routines]

LEMMA OrchestratorTyped ==
  OrchestratorTypeOK <=> OrchestratorTypes /\ cancelled \in BOOLEAN
BY DEF OrchestratorTypeOK, OrchestratorTypes, Places, Node

\* The ways a step writes a goroutine's record.
Recorded == disc \in [Goroutines -> Routines]

LEMMA Goes ==
  ASSUME Recorded, NEW r \in Goroutines, NEW pc \in Pcs
  PROVE  Go(r, pc) \in [Goroutines -> Routines]
BY DEF Go, Routines, Recorded

LEMMA GoesFor ==
  ASSUME Recorded, NEW r \in Goroutines, NEW pc \in Pcs, NEW ids \in SUBSET (Ids \cup Incs)
  PROVE  /\ [disc EXCEPT ![r].pc = pc, ![r].ids = ids] \in [Goroutines -> Routines]
         /\ [disc EXCEPT ![r].ids = ids] \in [Goroutines -> Routines]
BY DEF Routines, Recorded

LEMMA LetsGo ==
  ASSUME Recorded, NEW r \in Goroutines, NEW pc \in Pcs, NEW ids \in SUBSET (Ids \cup Incs),
         NEW inc \in Incs \cup {None}
  PROVE  [disc EXCEPT ![r].pc = pc, ![r].ids = ids, ![r].inc = inc]
            \in [Goroutines -> Routines]
BY ZenonT(30) DEF Routines, Recorded

LEMMA TakesUp ==
  ASSUME Recorded, NEW r \in Goroutines, NEW pc \in Pcs, NEW id \in Ids \cup {None},
         NEW inc \in Incs \cup {None}
  PROVE  [disc EXCEPT ![r].pc = pc, ![r].id = id, ![r].inc = inc] \in [Goroutines -> Routines]
BY DEF Routines, Recorded

LEMMA Idles ==
  ASSUME NEW pc \in Pcs
  PROVE  IdleRoutine \in Routines /\ [IdleRoutine EXCEPT !.pc = pc] \in Routines
<1>1. IdleRoutine \in Routines
  BY DEF Routines, IdleRoutine, Pcs
<1>2. [IdleRoutine EXCEPT !.pc = pc] \in Routines
  BY <1>1 DEF Routines
<1> QED BY <1>1, <1>2

LEMMA RoutineTypes ==
  ASSUME OrchestratorTypes, NEW r \in Goroutines, RoutineStep(r)
  PROVE  OrchestratorTypes'
<1>0. Recorded /\ disc[r].wanted \subseteq Ids /\ disc[r].ids \subseteq Ids \cup Incs
  BY DEF OrchestratorTypes, Recorded, Routines
<1>r. routes = [mailbox |-> routes.mailbox, status |-> routes.status]
      /\ routes.mailbox \in Places /\ routes.status \in Places
  BY DEF OrchestratorTypes
<1>p. "start" \in Pcs /\ "remove" \in Pcs /\ "unmap" \in Pcs /\ "map" \in Pcs
  BY DEF Pcs
<1>s. disc[r].inc \in Incs \cup {None}
  BY DEF OrchestratorTypes, Routines
<1>1. CASE Plan(r)
  <2>1. {id \in Ids : nodes[id] # None} \ disc[r].wanted \in SUBSET (Ids \cup Incs)
    OBVIOUS
  <2>2. Recorded'
    BY <1>0, <1>1, <2>1, GoesFor DEF Plan, Recorded, Pcs
  <2> QED BY <1>1, <2>2 DEF Plan, OrchestratorTypes, Recorded
<1>2. CASE Unmap(r)
  <2>1. Recorded'
    BY <1>0, <1>2, Goes DEF Unmap, Recorded, Pcs
  <2>2. svc' \in [Incs -> Node]
    BY <1>2, ZenonT(30) DEF Unmap, OrchestratorTypes, Node
  <2>3. routes' = [routes EXCEPT !.mailbox = [routes.mailbox EXCEPT ![disc[r].id] = None]]
    BY <1>2 DEF Unmap
  <2>4. [routes.mailbox EXCEPT ![disc[r].id] = None] \in Places
    BY <1>r DEF Places
  <2>5. routes' \in [mailbox : Places, status : Places]
    BY <1>r, <2>3, <2>4
  <2> QED BY <1>2, <2>1, <2>2, <2>5 DEF Unmap, OrchestratorTypes, Recorded
<1>3. CASE Wait(r)
  <2>1. disc[r].ids \ {disc[r].id} \in SUBSET (Ids \cup Incs)
    BY <1>0
  <2>2. Recorded'
    BY <1>0, <1>3, <2>1, LetsGo DEF Wait, Removed, Recorded, Pcs
  <2> QED BY <1>3, <2>2 DEF Wait, OrchestratorTypes, Recorded
<1>4. CASE Removals(r)
  <2>1. Recorded'
    BY <1>0, <1>4, GoesFor DEF Removals, Recorded, Pcs
  <2> QED BY <1>4, <2>1 DEF Removals, OrchestratorTypes, Recorded
<1>5. CASE Map(r)
  <2>1. Recorded'
    BY <1>0, <1>5, Goes DEF Map, Recorded, Pcs
  <2>2. routes' = [routes EXCEPT !.mailbox = [routes.mailbox EXCEPT ![disc[r].id] = disc[r].inc]]
    BY <1>5 DEF Map
  <2>3. [routes.mailbox EXCEPT ![disc[r].id] = disc[r].inc] \in Places
    BY <1>r, <1>s DEF Places
  <2>4. routes' \in [mailbox : Places, status : Places]
    BY <1>r, <2>2, <2>3
  <2> QED BY <1>5, <2>1, <2>4 DEF Map, OrchestratorTypes, Recorded
<1>6. CASE Spawn(r)
  <2>1. disc[r].ids \ {disc[r].id} \in SUBSET (Ids \cup Incs)
    BY <1>0
  <2>2. Recorded'
    <3>1. disc' = [disc EXCEPT ![r].pc = "start", ![r].ids = disc[r].ids \ {disc[r].id},
                               ![r].inc = None]
      BY <1>6 DEF Spawn
    <3>2. None \in Incs \cup {None}
      OBVIOUS
    <3>3. [disc EXCEPT ![r].pc = "start", ![r].ids = disc[r].ids \ {disc[r].id}, ![r].inc = None]
             \in [Goroutines -> Routines]
      BY <1>0, <1>p, <2>1, <3>2, LetsGo, Zenon
    <3> QED BY <3>1, <3>3 DEF Recorded
  <2>3. svc' \in [Incs -> Node]
    BY <1>6, ZenonT(30) DEF Spawn, OrchestratorTypes, Node
  <2> QED BY <1>6, <2>2, <2>3 DEF Spawn, OrchestratorTypes, Recorded
<1>7. CASE Started(r)
  <2>1. Recorded'
    BY <1>0, <1>7, Idles DEF Started, Recorded, Pcs
  <2> QED BY <1>7, <2>1 DEF Started, OrchestratorTypes, Recorded
<1>8. ASSUME NEW id \in Ids, StopNode(r, id) PROVE OrchestratorTypes'
  <2>1. disc[r].ids \ {id} \in SUBSET (Ids \cup Incs) /\ nodes[id] \in Incs \cup {None}
    BY <1>0 DEF OrchestratorTypes, Places
  <2>2. Recorded'
    <3>1. CASE nodes[id] = None
      BY <1>p, <1>0, <1>8, <2>1, <3>1 DEF StopNode, Recorded, Routines
    <3>2. CASE nodes[id] # None
      BY <1>p, <1>0, <1>8, <2>1, <3>2 DEF StopNode, Recorded, Routines
    <3> QED BY <3>1, <3>2
  <2>3. nodes' \in Places
    BY <1>8 DEF StopNode, OrchestratorTypes, Places
  <2> QED BY <1>8, <2>2, <2>3 DEF StopNode, OrchestratorTypes, Recorded
<1>9. ASSUME NEW id \in Ids, StartNode(r, id) PROVE OrchestratorTypes'
  <2>1. CASE nodes[id] # None
    <3>1. disc[r].ids \ {id} \in SUBSET (Ids \cup Incs)
      BY <1>0
    <3>2. Recorded'
      BY <1>p, <1>0, <1>9, <2>1, <3>1 DEF StartNode, Recorded, Routines
    <3> QED BY <1>9, <2>1, <3>2 DEF StartNode, OrchestratorTypes, Recorded
  <2>2. CASE nodes[id] = None
    <3>1. PICK k \in Free :
            /\ nodes' = [nodes EXCEPT ![id] = k]
            /\ svc' = [svc EXCEPT ![k] = [id |-> id, st |-> "new", stop |-> FALSE]]
            /\ disc' = [disc EXCEPT ![r].pc = "map", ![r].id = id, ![r].inc = k]
      BY <1>9, <2>2 DEF StartNode
    <3>2. k \in Incs
      BY DEF Free
    <3>3. Recorded'
      <4>1. disc' = [disc EXCEPT ![r].pc = "map", ![r].id = id, ![r].inc = k]
        BY <3>1
      <4>2. id \in Ids \cup {None} /\ k \in Incs \cup {None}
        BY <3>2
      <4>3. [disc EXCEPT ![r].pc = "map", ![r].id = id, ![r].inc = k] \in [Goroutines -> Routines]
        BY <1>0, <1>p, <4>2, TakesUp, Zenon
      <4> QED BY <4>1, <4>3 DEF Recorded
    <3>4. nodes' \in Places /\ svc' \in [Incs -> Node]
      BY <3>1, <3>2 DEF OrchestratorTypes, Places, Node
    <3> QED BY <1>9, <3>3, <3>4 DEF StartNode, OrchestratorTypes, Recorded
  <2> QED BY <2>1, <2>2
<1> QED BY <1>1, <1>2, <1>3, <1>4, <1>5, <1>6, <1>7, <1>8, <1>9 DEF RoutineStep

LEMMA NodeTypes ==
  ASSUME OrchestratorTypes, NEW k \in Incs, NodeStep(k) \/ NodeFails(k)
  PROVE  OrchestratorTypes'
<1>r. routes = [mailbox |-> routes.mailbox, status |-> routes.status]
      /\ routes.mailbox \in Places /\ routes.status \in Places
  BY DEF OrchestratorTypes
<1>1. svc' \in [Incs -> Node]
  BY DEF OrchestratorTypes, Node, NodeStep, NodeBoots, NodeReturns, Unregister, CloseDone,
         NodeFails
<1>2. routes' \in [mailbox : Places, status : Places]
  <2>1. CASE NodeBoots(k)
    <3>1. [routes.status EXCEPT ![svc[k].id] = k] \in Places
      BY <1>r DEF Places
    <3>2. routes' = [routes EXCEPT !.status = [routes.status EXCEPT ![svc[k].id] = k]]
      BY <2>1 DEF NodeBoots
    <3> QED BY <1>r, <3>1, <3>2
  <2>2. CASE Unregister(k)
    <3>1. /\ [routes.status EXCEPT ![svc[k].id] = None] \in Places
          /\ [routes.mailbox EXCEPT ![svc[k].id] = None] \in Places
      BY <1>r DEF Places
    <3>2. routes' = [routes EXCEPT !.mailbox = [routes.mailbox EXCEPT ![svc[k].id] = None],
                                   !.status = [routes.status EXCEPT ![svc[k].id] = None]]
      BY <2>2 DEF Unregister
    <3> QED BY <1>r, <3>1, <3>2
  <2>3. CASE NodeReturns(k) \/ CloseDone(k) \/ NodeFails(k)
    BY <2>3 DEF NodeReturns, CloseDone, NodeFails, OrchestratorTypes
  <2> QED BY <2>1, <2>2, <2>3 DEF NodeStep
<1> QED
  BY <1>1, <1>2 DEF OrchestratorTypes, NodeStep, NodeBoots, NodeReturns, Unregister, CloseDone,
                    NodeFails

LEMMA OrchestratorStepTypes ==
  ASSUME OrchestratorTypes, OrchestratorStep
  PROVE  OrchestratorTypes'
<1>0. Recorded
  BY DEF OrchestratorTypes, Recorded
<1>1. CASE PanelMoves
  BY <1>1 DEF PanelMoves, OrchestratorTypes
<1>2. ASSUME NEW machine \in BOOLEAN, OrchestratorStarts(machine) PROVE OrchestratorTypes'
  <2>1. nodes' \in Places /\ routes' \in [mailbox : Places, status : Places]
    BY <1>2 DEF OrchestratorStarts, NoNodes, Places
  <2>2. svc' \in [Incs -> Node]
    BY <1>2 DEF OrchestratorStarts, NoService, Node
  <2>3. disc' \in [Goroutines -> Routines]
    BY <1>2, Idles DEF OrchestratorStarts, Pcs
  <2> QED BY <1>2, <2>1, <2>2, <2>3 DEF OrchestratorStarts, OrchestratorTypes
<1>3. ASSUME NEW found \in BOOLEAN, DiscoverFirst(found) PROVE OrchestratorTypes'
  <2>1. "run" \in Goroutines /\ panel \in SUBSET (Ids \cup Incs)
    BY DEF OrchestratorTypes, Goroutines
  <2>2. Recorded'
    BY <1>0, <1>3, <2>1, GoesFor, Goes DEF DiscoverFirst, Recorded, Pcs
  <2> QED BY <1>3, <2>2 DEF DiscoverFirst, OrchestratorTypes, Recorded
<1>4. ASSUME NEW r \in Goroutines, Rediscover(r) PROVE OrchestratorTypes'
  <2>1. "plan" \in Pcs /\ panel \in SUBSET Ids
    BY DEF Pcs, OrchestratorTypes
  <2>2. [IdleRoutine EXCEPT !.pc = "plan", !.wanted = panel] \in Routines
    BY <2>1, Idles DEF Routines
  <2> QED BY <1>4, <2>2 DEF Rediscover, OrchestratorTypes
<1>5. CASE SyncNodes \/ Rediscover("run")
  BY <1>4, <1>5 DEF SyncNodes, Goroutines
<1>6. CASE TryStartWS
  <2>1. Recorded'
    BY <1>0, <1>6, Goes DEF TryStartWS, Recorded, Pcs, Goroutines
  <2> QED BY <1>6, <2>1 DEF TryStartWS, OrchestratorTypes, Recorded
<1>7. CASE StopAll
  <2>1. {nodes[id] : id \in Ids} \ {None} \in SUBSET (Ids \cup Incs)
    BY DEF OrchestratorTypes, Places
  <2>2. Recorded'
    BY <1>0, <1>7, <2>1, GoesFor DEF StopAll, Recorded, Pcs, Goroutines
  <2> QED BY <1>7, <2>2 DEF StopAll, OrchestratorTypes, Recorded
<1>8. CASE Returns
  <2>1. [IdleRoutine EXCEPT !.pc = "returned"] \in Routines
    BY Idles DEF Pcs
  <2> QED BY <1>8, <2>1 DEF Returns, OrchestratorTypes
<1> QED BY <1>1, <1>2, <1>3, <1>5, <1>6, <1>7, <1>8, RoutineTypes, NodeTypes
        DEF OrchestratorStep, RunStep

LEMMA OrchestratorStart ==
  ASSUME Init
  PROVE  OrchestratorTypes /\ cancelled \in BOOLEAN
<1>1. panel \subseteq Ids /\ cancelled \in BOOLEAN
  BY ScenarioAssumption DEF Init
<1>2. disc \in [Goroutines -> Routines]
  BY Idles DEF Init, OrchestratorInit, Pcs
<1>3. nodes \in Places /\ routes \in [mailbox : Places, status : Places] /\ svc \in [Incs -> Node]
  BY DEF Init, OrchestratorInit, NoNodes, Places, Node, NoService
<1> QED BY <1>1, <1>2, <1>3 DEF Init, OrchestratorInit, OrchestratorTypes

\* The orchestrator keeps its types.
LEMMA OrchestratorTypeSafe == Spec => [](OrchestratorTypes /\ cancelled \in BOOLEAN)
<1> DEFINE Inv == OrchestratorTypes /\ cancelled \in BOOLEAN
<1>1. Init => Inv
  BY OrchestratorStart
<1>2. Inv /\ [Next]_vars => Inv'
  <2> SUFFICES ASSUME Inv, [Next]_vars PROVE Inv'
    OBVIOUS
  <2>1. OrchestratorStep /\ cancelled' \in BOOLEAN
    BY Steps DEF OrchestratorTypes
  <2> QED BY <2>1, OrchestratorStepTypes
<1> QED BY <1>1, <1>2, PTL DEF Spec

----------------------------------------------------------------------------
(* What the orchestrator keeps in place while its two goroutines take      *)
(* turns.                                                                  *)

Holding == {"map", "spawn", "unmap", "wait"}
Rounds  == {"plan", "remove", "start"} \cup Holding

UsedIds == \A k \in Incs : svc[k].st # "unused" => svc[k].id \in Ids

\* What startNode has in hand is what the handle names; what stopNode has in hand has none.
InHand ==
  \A r \in Goroutines :
    /\ disc[r].pc \in Holding =>
         disc[r].inc \in Incs /\ disc[r].id \in Ids /\ svc[disc[r].inc].id = disc[r].id
    /\ disc[r].pc \in {"map", "spawn"} =>
         nodes[disc[r].id] = disc[r].inc /\ svc[disc[r].inc].st = "new"
    /\ disc[r].pc = "spawn" => routes.mailbox[disc[r].id] = disc[r].inc
    /\ disc[r].pc \in {"unmap", "wait"} => nodes[disc[r].id] = None
    /\ disc[r].pc = "wait" => svc[disc[r].inc].stop

Handles ==
  \A id \in Ids : nodes[id] # None => svc[nodes[id]].id = id /\ svc[nodes[id]].st # "unused"

\* A service that lives has the handle, or is being waited for.
LetGo(k) == \E r \in Goroutines : disc[r].pc \in {"unmap", "wait"} /\ disc[r].inc = k
Kept ==
  \A k \in Incs : Alive(k) =>
    nodes[svc[k].id] = k \/ (nodes[svc[k].id] = None /\ LetGo(k))

Routed ==
  \A k \in Incs :
    /\ svc[k].st \in {"booting", "running"} /\ ~svc[k].stop => routes.mailbox[svc[k].id] = k
    /\ svc[k].st = "running" => routes.status[svc[k].id] = k

OneAtATime == \A r, q \in Goroutines : ~Quiet(r) /\ ~Quiet(q) => r = q

SyncInPlace ==
  disc["sync"].pc \in Rounds \cup {"idle"} /\ (disc["sync"].pc # "idle" => ws)

\* stopAll waits for all; before the first node, and after the last, there is none.
AllListed == At("run", "stopping") => \A k \in Incs : Alive(k) => k \in disc["run"].ids
NoneAlive ==
  disc["run"].pc \in {"off", "initial", "handshake", "failed", "returned"} =>
    ~ws /\ \A k \in Incs : ~Alive(k)

Core    == UsedIds /\ InHand /\ Handles /\ Kept /\ Routed
Course  == OneAtATime /\ SyncInPlace /\ AllListed /\ NoneAlive
InPlace == ~raced => Core /\ Course

\* A node has one service that lives.
LEMMA OneAlive ==
  ASSUME OrchestratorTypes, Core, Course, NEW j \in Incs, NEW k \in Incs,
         Alive(j), Alive(k), svc[j].id = svc[k].id
  PROVE  j = k
<1>1. /\ nodes[svc[j].id] = j \/ (nodes[svc[j].id] = None /\ LetGo(j))
      /\ nodes[svc[k].id] = k \/ (nodes[svc[k].id] = None /\ LetGo(k))
  BY DEF Core, Kept
<1>2. j # None /\ k # None
  BY IncAssumption
<1>3. CASE LetGo(j) /\ LetGo(k)
  BY <1>3 DEF LetGo, Course, OneAtATime, Quiet
<1> QED BY <1>1, <1>2, <1>3

\* Nobody else has anything in hand while one goroutine is busy.
LEMMA OthersRest ==
  ASSUME Course, NEW r \in Goroutines, disc[r].pc \in Rounds, NEW q \in Goroutines, q # r
  PROVE  Quiet(q) /\ disc[q].pc \notin Holding
BY DEF Course, OneAtATime, Quiet, Rounds, Holding

\* A step that leaves handles, routes and services alone, by a goroutine with nothing in
\* hand before and after.
LEMMA CoreRests ==
  ASSUME Core, UNCHANGED <<nodes, routes, svc>>,
         \A q \in Goroutines : disc'[q] = disc[q]
                               \/ (disc[q].pc \notin Holding /\ disc'[q].pc \notin Holding)
  PROVE  Core'
<1>1. UsedIds' /\ Handles' /\ Routed'
  BY DEF Core, UsedIds, Handles, Routed
<1>2. InHand'
  BY DEF Core, InHand, Holding
<1>3. \A k \in Incs : LetGo(k) => LetGo(k)'
  BY DEF LetGo, Holding
<1>4. Kept'
  BY <1>3 DEF Core, Kept, Alive
<1> QED BY <1>1, <1>2, <1>4 DEF Core

\* A goroutine's round goes on.
LEMMA CourseGoesOn ==
  ASSUME Course, NEW r \in Goroutines, disc[r].pc \in Rounds,
         disc'[r].pc \in Rounds \cup {"idle"},
         \A q \in Goroutines \ {r} : disc'[q] = disc[q], ws' = ws
  PROVE  Course'
<1>1. \A q \in Goroutines \ {r} : Quiet(q) /\ Quiet(q)'
  BY OthersRest DEF Quiet
<1>2. OneAtATime'
  BY <1>1 DEF OneAtATime
<1>3. r = "sync" => disc["run"].pc = "idle" /\ disc'["run"].pc = "idle"
  BY <1>1 DEF Goroutines, Course, SyncInPlace, NoneAlive, Quiet, Rounds, Holding
<1>4. r = "run" \/ r = "sync"
  BY DEF Goroutines
<1>5. AllListed' /\ NoneAlive'
  BY <1>3, <1>4 DEF AllListed, NoneAlive, At, Rounds, Holding
<1>6. SyncInPlace'
  <2>1. CASE r = "sync"
    BY <2>1 DEF Course, SyncInPlace, Rounds, Holding
  <2>2. CASE r = "run"
    BY <2>2 DEF Course, SyncInPlace, Goroutines
  <2> QED BY <1>4, <2>1, <2>2
<1> QED BY <1>2, <1>5, <1>6 DEF Course

----------------------------------------------------------------------------
(* The steps of a round.                                                   *)

LEMMA RestingSteps ==
  ASSUME OrchestratorTypes, Core, Course, NEW r \in Goroutines,
         \/ Plan(r) \/ Removals(r) \/ Started(r)
         \/ \E id \in Ids : nodes[id] = None /\ StopNode(r, id)
         \/ \E id \in Ids : nodes[id] # None /\ StartNode(r, id)
  PROVE  Core' /\ Course'
<1>1. /\ UNCHANGED <<nodes, routes, svc, ws>>
      /\ \A q \in Goroutines \ {r} : disc'[q] = disc[q]
      /\ disc[r].pc \in {"plan", "remove", "start"}
  BY DEF Plan, Removals, Started, StopNode, StartNode, IdleRoutine, OrchestratorTypes, At
<1>2. disc'[r].pc \in {"plan", "remove", "start", "idle"}
  <2>1. CASE Plan(r)
    BY <2>1 DEF Plan, OrchestratorTypes, Routines
  <2>2. CASE Removals(r)
    BY <2>2 DEF Removals, OrchestratorTypes, Routines
  <2>3. CASE Started(r)
    BY <2>3 DEF Started, IdleRoutine, OrchestratorTypes
  <2>4. ASSUME NEW id \in Ids, nodes[id] = None, StopNode(r, id) PROVE disc'[r].pc \in {"remove", "start"}
    BY <2>4 DEF StopNode, At, OrchestratorTypes, Routines
  <2>5. ASSUME NEW id \in Ids, nodes[id] # None, StartNode(r, id) PROVE disc'[r].pc \in {"remove", "start"}
    BY <2>5, ZenonT(30) DEF StartNode, At, OrchestratorTypes, Routines
  <2> QED BY <2>1, <2>2, <2>3, <2>4, <2>5
<1> QED BY <1>1, <1>2, CoreRests, CourseGoesOn DEF Rounds, Holding

LEMMA StopNodeKeeps ==
  ASSUME OrchestratorTypes, Core, Course, NEW r \in Goroutines, NEW id \in Ids,
         nodes[id] # None, StopNode(r, id)
  PROVE  Core' /\ Course'
<1>1. /\ UNCHANGED <<routes, svc, ws>>
      /\ \A i \in Ids : nodes'[i] = IF i = id THEN None ELSE nodes[i]
      /\ \A q \in Goroutines \ {r} : disc'[q] = disc[q]
      /\ disc[r].pc = "remove"
  BY DEF StopNode, At, OrchestratorTypes, Places
<1>2. disc'[r].pc = "unmap" /\ disc'[r].id = id /\ disc'[r].inc = nodes[id]
  BY DEF StopNode, OrchestratorTypes, Routines
<1>3. nodes[id] \in Incs
  BY DEF OrchestratorTypes, Places
<1>4. \A q \in Goroutines \ {r} : disc[q].pc \notin Holding
  BY <1>1, OthersRest DEF Rounds
<1>5. UsedIds' /\ Handles' /\ Routed'
  BY <1>1 DEF Core, UsedIds, Handles, Routed
<1>6. InHand'
  <2>1. svc[nodes[id]].id = id
    BY DEF Core, Handles
  <2> QED BY <1>1, <1>2, <1>3, <1>4, <2>1 DEF InHand, Holding
<1>7. Kept'
  <2> SUFFICES ASSUME NEW k \in Incs, Alive(k)
               PROVE  nodes'[svc[k].id] = k \/ (nodes'[svc[k].id] = None /\ LetGo(k)')
    BY <1>1 DEF Kept, Alive
  <2>1. ~LetGo(k)
    BY <1>1, <1>4 DEF LetGo, Holding
  <2>2. nodes[svc[k].id] = k /\ svc[k].id \in Ids
    BY <2>1 DEF Core, Kept, UsedIds, Alive
  <2> QED BY <1>1, <1>2, <2>2 DEF LetGo
<1> QED BY <1>1, <1>2, <1>5, <1>6, <1>7, CourseGoesOn DEF Core, Rounds, Holding

LEMMA UnmapKeeps ==
  ASSUME OrchestratorTypes, Core, Course, NEW r \in Goroutines, Unmap(r)
  PROVE  Core' /\ Course'
<1>0. disc[r].inc \in Incs /\ disc[r].id \in Ids /\ svc[disc[r].inc].id = disc[r].id
      /\ nodes[disc[r].id] = None /\ disc[r].pc = "unmap"
  BY DEF Core, InHand, Unmap, At, Holding
<1>1. /\ UNCHANGED <<nodes, ws>> /\ routes'.status = routes.status
      /\ \A i \in Ids : routes'.mailbox[i] = IF i = disc[r].id THEN None ELSE routes.mailbox[i]
      /\ \A q \in Goroutines \ {r} : disc'[q] = disc[q]
  BY DEF Unmap, Go, OrchestratorTypes, Places
<1>2. disc'[r].pc = "wait" /\ disc'[r].id = disc[r].id /\ disc'[r].inc = disc[r].inc
  BY DEF Unmap, Go, OrchestratorTypes, Routines
<1>3. \A k \in Incs : /\ svc'[k].id = svc[k].id /\ svc'[k].st = svc[k].st
                      /\ svc'[k].stop = (svc[k].stop \/ k = disc[r].inc)
  BY ZenonT(30) DEF Unmap, OrchestratorTypes, Node
<1>4. \A q \in Goroutines \ {r} : disc[q].pc \notin Holding
  BY <1>0, OthersRest DEF Rounds, Holding
<1>5. UsedIds' /\ Handles'
  BY <1>1, <1>3 DEF Core, UsedIds, Handles, OrchestratorTypes, Places
<1>6. InHand'
  <2>1. svc'[disc[r].inc].stop = TRUE /\ svc'[disc[r].inc].id = disc[r].id
    BY <1>0 DEF Unmap, OrchestratorTypes, Node
  <2> QED BY <1>0, <1>1, <1>2, <1>4, <2>1 DEF InHand, Holding
<1>7. Kept'
  <2>1. \A k \in Incs : LetGo(k) => LetGo(k)'
    BY <1>0, <1>1, <1>2, <1>4 DEF LetGo, Holding
  <2> QED BY <1>1, <1>3, <2>1 DEF Core, Kept, Alive
<1>8. Routed'
  <2> SUFFICES ASSUME NEW k \in Incs
               PROVE  /\ svc[k].st \in {"booting", "running"} /\ ~svc'[k].stop
                           => routes'.mailbox[svc[k].id] = k
                      /\ svc[k].st = "running" => routes.status[svc[k].id] = k
    BY <1>1, <1>3 DEF Routed
  <2>1. svc[k].st \in {"booting", "running"} /\ ~svc'[k].stop => svc[k].id # disc[r].id
    <3> SUFFICES ASSUME Alive(k), svc[k].id = disc[r].id PROVE k = disc[r].inc
      BY <1>3 DEF Alive
    <3>1. k # None
      BY IncAssumption
    <3>2. LetGo(k)
      BY <1>0, <3>1 DEF Core, Kept
    <3> QED BY <1>4, <3>2 DEF LetGo, Holding
  <2> QED BY <1>1, <1>3, <2>1 DEF Core, Routed, UsedIds
<1> QED BY <1>0, <1>1, <1>2, <1>5, <1>6, <1>7, <1>8, CourseGoesOn DEF Core, Rounds, Holding

LEMMA WaitKeeps ==
  ASSUME OrchestratorTypes, Core, Course, NEW r \in Goroutines, Wait(r)
  PROVE  Core' /\ Course'
<1>1. /\ UNCHANGED <<nodes, routes, svc, ws>>
      /\ \A q \in Goroutines \ {r} : disc'[q] = disc[q]
      /\ disc[r].pc = "wait" /\ disc'[r].pc = "remove" /\ ~Alive(disc[r].inc)
  BY DEF Wait, Removed, At, OrchestratorTypes, Routines
<1>2. UsedIds' /\ Handles' /\ Routed'
  BY <1>1 DEF Core, UsedIds, Handles, Routed
<1>3. InHand'
  BY <1>1 DEF Core, InHand, Holding
<1>4. \A k \in Incs : Alive(k) /\ LetGo(k) => LetGo(k)'
  BY <1>1 DEF LetGo
<1>5. Kept'
  BY <1>1, <1>4 DEF Core, Kept, Alive
<1> QED BY <1>1, <1>2, <1>3, <1>5, CourseGoesOn DEF Core, Rounds, Holding

LEMMA StartNodeKeeps ==
  ASSUME OrchestratorTypes, Core, Course, NEW r \in Goroutines, NEW id \in Ids,
         nodes[id] = None, StartNode(r, id)
  PROVE  Core' /\ Course'
<1>1. PICK k \in Free :
        /\ nodes' = [nodes EXCEPT ![id] = k]
        /\ svc' = [svc EXCEPT ![k] = [id |-> id, st |-> "new", stop |-> FALSE]]
        /\ disc' = [disc EXCEPT ![r].pc = "map", ![r].id = id, ![r].inc = k]
  BY DEF StartNode
<1>2. /\ k \in Incs /\ ~Alive(k) /\ \A i \in Ids : nodes[i] # k
      /\ \A q \in Goroutines : disc[q].inc # k
  BY DEF Free, Referenced
<1>3. /\ UNCHANGED <<routes, ws>>
      /\ \A i \in Ids : nodes'[i] = IF i = id THEN k ELSE nodes[i]
      /\ \A q \in Goroutines \ {r} : disc'[q] = disc[q]
      /\ disc[r].pc = "start"
  BY <1>1 DEF StartNode, At, OrchestratorTypes, Places
<1>4. disc'[r].pc = "map" /\ disc'[r].id = id /\ disc'[r].inc = k
  BY <1>1 DEF OrchestratorTypes, Routines
<1>5. /\ svc'[k].id = id /\ svc'[k].st = "new" /\ svc'[k].stop = FALSE
      /\ \A j \in Incs \ {k} : svc'[j] = svc[j]
  BY <1>1, <1>2 DEF OrchestratorTypes
<1>6. \A q \in Goroutines : disc[q].pc \notin Holding
  BY <1>3, OthersRest DEF Rounds, Holding
<1>7. UsedIds'
  BY <1>5 DEF Core, UsedIds
<1>8. Handles'
  <2>1. \A i \in Ids : nodes[i] \in Incs \cup {None}
    BY DEF OrchestratorTypes, Places
  <2> QED BY <1>2, <1>3, <1>5, <2>1 DEF Core, Handles
<1>9. InHand'
  BY <1>2, <1>3, <1>4, <1>5, <1>6 DEF InHand, Holding
<1>10. Kept'
  <2> SUFFICES ASSUME NEW j \in Incs, Alive(j)'
               PROVE  nodes'[svc'[j].id] = j
    BY DEF Kept
  <2>1. CASE j = k
    BY <1>3, <1>5, <2>1
  <2>2. CASE j # k
    <3>1. Alive(j) /\ svc'[j] = svc[j]
      BY <1>5, <2>2 DEF Alive
    <3>2. ~LetGo(j)
      BY <1>6 DEF LetGo, Holding
    <3>3. nodes[svc[j].id] = j /\ svc[j].id \in Ids
      BY <3>1, <3>2 DEF Core, Kept, UsedIds, Alive
    <3>4. j # None
      BY IncAssumption
    <3> QED BY <1>3, <3>1, <3>3, <3>4
  <2> QED BY <2>1, <2>2
<1>11. Routed'
  <2> SUFFICES ASSUME NEW j \in Incs
               PROVE  /\ svc'[j].st \in {"booting", "running"} /\ ~svc'[j].stop
                           => routes.mailbox[svc'[j].id] = j
                      /\ svc'[j].st = "running" => routes.status[svc'[j].id] = j
    BY <1>3 DEF Routed
  <2> QED BY <1>5 DEF Core, Routed
<1> QED BY <1>3, <1>4, <1>7, <1>8, <1>9, <1>10, <1>11, CourseGoesOn DEF Core, Rounds, Holding

LEMMA MapKeeps ==
  ASSUME OrchestratorTypes, Core, Course, NEW r \in Goroutines, Map(r)
  PROVE  Core' /\ Course'
<1>0. /\ disc[r].inc \in Incs /\ disc[r].id \in Ids /\ svc[disc[r].inc].id = disc[r].id
      /\ nodes[disc[r].id] = disc[r].inc /\ svc[disc[r].inc].st = "new" /\ disc[r].pc = "map"
  BY DEF Core, InHand, Map, At, Holding
<1>1. /\ UNCHANGED <<nodes, svc, ws>> /\ routes'.status = routes.status
      /\ \A i \in Ids : routes'.mailbox[i] = IF i = disc[r].id THEN disc[r].inc
                                             ELSE routes.mailbox[i]
      /\ \A q \in Goroutines \ {r} : disc'[q] = disc[q]
  BY DEF Map, Go, OrchestratorTypes, Places
<1>2. disc'[r].pc = "spawn" /\ disc'[r].id = disc[r].id /\ disc'[r].inc = disc[r].inc
  BY DEF Map, Go, OrchestratorTypes, Routines
<1>3. \A q \in Goroutines \ {r} : disc[q].pc \notin Holding
  BY <1>0, OthersRest DEF Rounds, Holding
<1>4. UsedIds' /\ Handles'
  BY <1>1 DEF Core, UsedIds, Handles
<1>5. InHand'
  BY <1>0, <1>1, <1>2, <1>3 DEF InHand, Holding
<1>6. Kept'
  <2>1. \A k \in Incs : LetGo(k) => LetGo(k)'
    BY <1>0, <1>1, <1>3 DEF LetGo, Holding
  <2> QED BY <1>1, <2>1 DEF Core, Kept, Alive
<1>7. Routed'
  <2> SUFFICES ASSUME NEW k \in Incs
               PROVE  /\ svc[k].st \in {"booting", "running"} /\ ~svc[k].stop
                           => routes'.mailbox[svc[k].id] = k
                      /\ svc[k].st = "running" => routes.status[svc[k].id] = k
    BY <1>1 DEF Routed
  <2>1. svc[k].st \in {"booting", "running"} => svc[k].id # disc[r].id
    BY <1>0, OneAlive DEF Alive
  <2> QED BY <1>1, <2>1 DEF Core, Routed, UsedIds
<1> QED BY <1>0, <1>1, <1>2, <1>4, <1>5, <1>6, <1>7, CourseGoesOn DEF Core, Rounds, Holding

LEMMA SpawnKeeps ==
  ASSUME OrchestratorTypes, Core, Course, NEW r \in Goroutines, Spawn(r)
  PROVE  Core' /\ Course'
<1>0. /\ disc[r].inc \in Incs /\ disc[r].id \in Ids /\ svc[disc[r].inc].id = disc[r].id
      /\ nodes[disc[r].id] = disc[r].inc /\ svc[disc[r].inc].st = "new"
      /\ routes.mailbox[disc[r].id] = disc[r].inc /\ disc[r].pc = "spawn"
  BY DEF Core, InHand, Spawn, At, Holding
<1>1. /\ UNCHANGED <<nodes, routes, ws>>
      /\ \A q \in Goroutines \ {r} : disc'[q] = disc[q]
  BY DEF Spawn, OrchestratorTypes
<1>2. disc'[r].pc = "start"
  BY DEF Spawn, OrchestratorTypes, Routines
<1>3. /\ \A k \in Incs : svc'[k].id = svc[k].id /\ svc'[k].stop = svc[k].stop
      /\ svc'[disc[r].inc].st = "booting"
      /\ \A k \in Incs \ {disc[r].inc} : svc'[k].st = svc[k].st
  BY <1>0 DEF Spawn, OrchestratorTypes, Node
<1>4. \A q \in Goroutines \ {r} : disc[q].pc \notin Holding
  BY <1>0, OthersRest DEF Rounds, Holding
<1>5. UsedIds'
  BY <1>0, <1>3 DEF Core, UsedIds
<1>6. Handles'
  <2>1. \A i \in Ids : nodes[i] \in Incs \cup {None}
    BY DEF OrchestratorTypes, Places
  <2> QED BY <1>1, <1>3, <2>1 DEF Core, Handles
<1>7. InHand'
  BY <1>1, <1>2, <1>4 DEF InHand, Holding
<1>8. Kept'
  <2> SUFFICES ASSUME NEW k \in Incs, Alive(k)'
               PROVE  nodes[svc[k].id] = k
    BY <1>1, <1>3 DEF Kept
  <2>1. Alive(k)
    BY <1>0, <1>3 DEF Alive
  <2>2. ~LetGo(k)
    BY <1>0, <1>4 DEF LetGo, Holding
  <2> QED BY <2>1, <2>2 DEF Core, Kept
<1>9. Routed'
  <2> SUFFICES ASSUME NEW k \in Incs
               PROVE  /\ svc'[k].st \in {"booting", "running"} /\ ~svc[k].stop
                           => routes.mailbox[svc[k].id] = k
                      /\ svc'[k].st = "running" => routes.status[svc[k].id] = k
    BY <1>1, <1>3 DEF Routed
  <2> QED BY <1>0, <1>3 DEF Core, Routed
<1> QED BY <1>0, <1>1, <1>2, <1>5, <1>6, <1>7, <1>8, <1>9, CourseGoesOn DEF Core, Rounds, Holding

LEMMA RoutineKeeps ==
  ASSUME OrchestratorTypes, Core, Course, NEW r \in Goroutines, RoutineStep(r)
  PROVE  Core' /\ Course'
<1>1. CASE Plan(r) \/ Removals(r) \/ Started(r)
  BY <1>1, RestingSteps
<1>2. CASE Unmap(r)
  BY <1>2, UnmapKeeps
<1>3. CASE Wait(r)
  BY <1>3, WaitKeeps
<1>4. CASE Map(r)
  BY <1>4, MapKeeps
<1>5. CASE Spawn(r)
  BY <1>5, SpawnKeeps
<1>6. ASSUME NEW id \in Ids, StopNode(r, id) PROVE Core' /\ Course'
  <2>1. CASE nodes[id] = None
    BY <1>6, <2>1, RestingSteps
  <2>2. CASE nodes[id] # None
    BY <1>6, <2>2, StopNodeKeeps
  <2> QED BY <2>1, <2>2
<1>7. ASSUME NEW id \in Ids, StartNode(r, id) PROVE Core' /\ Course'
  <2>1. CASE nodes[id] # None
    BY <1>7, <2>1, RestingSteps
  <2>2. CASE nodes[id] = None
    BY <1>7, <2>2, StartNodeKeeps
  <2> QED BY <2>1, <2>2
<1> QED BY <1>1, <1>2, <1>3, <1>4, <1>5, <1>6, <1>7 DEF RoutineStep

----------------------------------------------------------------------------
(* The steps of a node, and those of Run.                                  *)

LEMMA NodeKeeps ==
  ASSUME OrchestratorTypes, Core, Course, NEW k \in Incs, NodeStep(k) \/ NodeFails(k)
  PROVE  Core' /\ Course'
<1>1. /\ UNCHANGED <<nodes, disc, ws>>
      /\ \A j \in Incs : svc'[j].id = svc[j].id /\ svc'[j].stop = svc[j].stop
      /\ \A j \in Incs \ {k} : svc'[j] = svc[j]
  BY DEF NodeStep, NodeBoots, NodeReturns, NodeFails, Unregister, CloseDone, OrchestratorTypes, Node
<1>2. Alive(k) /\ svc[k].st # "new" /\ svc'[k].st \notin {"unused", "new", "booting"}
  BY DEF NodeStep, NodeBoots, NodeReturns, NodeFails, Unregister, CloseDone, OrchestratorTypes,
         Node, Alive
<1>3. svc[k].id \in Ids
  BY <1>2 DEF Core, UsedIds, Alive
<1>4. \A j \in Incs : Alive(j)' => Alive(j)
  BY <1>1, <1>2 DEF Alive
<1>5. UsedIds' /\ Handles'
  <2>1. \A i \in Ids : nodes[i] \in Incs \cup {None}
    BY DEF OrchestratorTypes, Places
  <2>2. UsedIds'
    BY <1>1, <1>3 DEF Core, UsedIds
  <2>3. Handles'
    BY <1>1, <1>2, <2>1 DEF Core, Handles
  <2> QED BY <2>2, <2>3
<1>6. Kept'
  <2>1. \A j \in Incs : LetGo(j) => LetGo(j)'
    BY <1>1 DEF LetGo
  <2> QED BY <1>1, <1>4, <2>1 DEF Core, Kept
<1>7. Course'
  <2>1. OneAtATime' /\ SyncInPlace'
    BY <1>1 DEF Course, OneAtATime, SyncInPlace, Quiet
  <2>2. AllListed' /\ NoneAlive'
    BY <1>1, <1>4 DEF Course, AllListed, NoneAlive, At
  <2> QED BY <2>1, <2>2 DEF Course
<1>8. \A j \in Incs : Alive(j) /\ svc[j].id = svc[k].id => j = k
  BY <1>2, OneAlive
<1>9. CASE NodeBoots(k)
  <2>1. /\ routes'.mailbox = routes.mailbox
        /\ \A i \in Ids : routes'.status[i] = IF i = svc[k].id THEN k ELSE routes.status[i]
        /\ svc[k].st = "booting"
    BY <1>9 DEF NodeBoots, OrchestratorTypes, Places
  <2>2. InHand'
    BY <1>1, <1>2, <2>1 DEF Core, InHand, Holding
  <2>3. Routed'
    <3> SUFFICES ASSUME NEW j \in Incs
                 PROVE  /\ svc'[j].st \in {"booting", "running"} /\ ~svc[j].stop
                             => routes.mailbox[svc[j].id] = j
                        /\ svc'[j].st = "running" => routes'.status[svc[j].id] = j
      BY <1>1, <2>1 DEF Routed
    <3>1. CASE j = k
      BY <1>2, <1>3, <2>1, <3>1 DEF Core, Routed
    <3>2. CASE j # k
      <4>1. svc'[j] = svc[j] /\ (svc[j].st = "running" => svc[j].id \in Ids /\ svc[j].id # svc[k].id)
        BY <1>1, <1>8, <3>2 DEF Core, UsedIds, Alive
      <4> QED BY <2>1, <4>1 DEF Core, Routed
    <3> QED BY <3>1, <3>2
  <2> QED BY <1>5, <1>6, <1>7, <2>2, <2>3 DEF Core
<1>10. CASE Unregister(k)
  <2>1. /\ \A i \in Ids : routes'.status[i] = IF i = svc[k].id THEN None ELSE routes.status[i]
        /\ \A i \in Ids : routes'.mailbox[i] = IF i = svc[k].id THEN None ELSE routes.mailbox[i]
        /\ svc[k].st = "leaving" /\ svc'[k].st = "closing"
    BY <1>10 DEF Unregister, OrchestratorTypes, Places, Node
  <2>2. InHand'
    <3> SUFFICES ASSUME NEW r \in Goroutines, disc[r].pc \in {"map", "spawn"}
                 PROVE  disc[r].inc # k /\ disc[r].id # svc[k].id
      BY <1>1, <2>1 DEF Core, InHand, Holding
    <3>1. /\ disc[r].inc \in Incs /\ svc[disc[r].inc].st = "new"
          /\ svc[disc[r].inc].id = disc[r].id
      BY DEF Core, InHand, Holding
    <3> QED BY <1>2, <1>8, <3>1 DEF Alive
  <2>3. Routed'
    <3> SUFFICES ASSUME NEW j \in Incs
                 PROVE  /\ svc'[j].st \in {"booting", "running"} /\ ~svc[j].stop
                             => routes'.mailbox[svc[j].id] = j
                        /\ svc'[j].st = "running" => routes'.status[svc[j].id] = j
      BY <1>1 DEF Routed
    <3>1. CASE j = k
      BY <2>1, <3>1
    <3>2. CASE j # k
      <4>1. svc'[j] = svc[j]
            /\ (svc[j].st \in {"booting", "running"} => svc[j].id \in Ids /\ svc[j].id # svc[k].id)
        BY <1>1, <1>8, <3>2 DEF Core, UsedIds, Alive
      <4> QED BY <2>1, <4>1 DEF Core, Routed
    <3> QED BY <3>1, <3>2
  <2> QED BY <1>5, <1>6, <1>7, <2>2, <2>3 DEF Core
<1>11. CASE NodeReturns(k) \/ CloseDone(k) \/ NodeFails(k)
  <2>1. UNCHANGED routes /\ svc'[k].st \in {"leaving", "closed"}
    BY <1>11 DEF NodeReturns, CloseDone, NodeFails, OrchestratorTypes, Node
  <2>2. InHand'
    BY <1>1, <1>2, <2>1 DEF Core, InHand, Holding
  <2>3. Routed'
    BY <1>1, <2>1 DEF Core, Routed
  <2> QED BY <1>5, <1>6, <1>7, <2>2, <2>3 DEF Core
<1> QED BY <1>9, <1>10, <1>11 DEF NodeStep

LEMMA RediscoverKeeps ==
  ASSUME OrchestratorTypes, Core, Course, ~raced',
         SyncNodes \/ Rediscover("run")
  PROVE  Core' /\ Course'
<1>1. PICK r \in Goroutines : Rediscover(r) /\ (r = "sync" => ws /\ ~At("run", "returned"))
  BY DEF SyncNodes, Goroutines
<1>2. /\ UNCHANGED <<nodes, routes, svc, ws>> /\ disc[r].pc = "idle" /\ disc'[r].pc = "plan"
      /\ \A q \in Goroutines \ {r} : disc'[q] = disc[q] /\ Quiet(q)
  BY <1>1 DEF Rediscover, At, OrchestratorTypes, IdleRoutine
<1>3. Core'
  BY <1>2, CoreRests DEF Holding
<1>4. OneAtATime'
  BY <1>2 DEF OneAtATime, Quiet
<1>5. r = "run" \/ (r = "sync" /\ ws)
  BY <1>1 DEF Goroutines
<1>6. SyncInPlace'
  BY <1>2, <1>5 DEF Course, SyncInPlace, Goroutines, Rounds
<1>7. disc'["run"].pc \in {"plan", "idle"}
  <2>1. CASE r = "run"
    BY <1>2, <2>1
  <2>2. CASE r = "sync" /\ ws
    BY <1>2, <2>2 DEF Goroutines, Course, NoneAlive, Quiet
  <2> QED BY <1>5, <2>1, <2>2
<1>8. AllListed' /\ NoneAlive'
  BY <1>7 DEF AllListed, NoneAlive, At
<1> QED BY <1>3, <1>4, <1>6, <1>8 DEF Course

LEMMA RunKeeps ==
  ASSUME OrchestratorTypes, Core, Course, ~raced',
         TryStartWS \/ StopAll \/ Returns \/ \E found \in BOOLEAN : DiscoverFirst(found)
  PROVE  Core' /\ Course'
<1> DEFINE run == disc["run"].pc
<1>0. "run" \in Goroutines /\ "sync" \in Goroutines
  BY DEF Goroutines
<1>1. /\ UNCHANGED <<nodes, routes, svc>> /\ disc'["sync"] = disc["sync"]
      /\ run \in {"initial", "handshake", "idle", "stopping"}
  BY <1>0 DEF TryStartWS, StopAll, Returns, DiscoverFirst, Go, At, OrchestratorTypes
<1>2. disc'["run"].pc \in {"handshake", "failed", "start", "stopping", "returned"}
  <2>1. CASE TryStartWS
    BY <1>0, <2>1 DEF TryStartWS, Go, OrchestratorTypes, Routines
  <2>2. CASE StopAll
    BY <1>0, <2>2 DEF StopAll, OrchestratorTypes, Routines
  <2>3. CASE Returns
    BY <1>0, <2>3 DEF Returns, IdleRoutine, OrchestratorTypes
  <2>4. CASE \E found \in BOOLEAN : DiscoverFirst(found)
    BY <1>0, <2>4 DEF DiscoverFirst, Go, OrchestratorTypes, Routines
  <2> QED BY <2>1, <2>2, <2>3, <2>4
<1>3. Core'
  BY <1>1, <1>2, CoreRests DEF Holding, Goroutines
<1>4. disc["sync"].pc = "idle"
  <2>1. run \in {"initial", "handshake", "stopping"} => Quiet("sync")
    BY <1>0 DEF Course, OneAtATime, Quiet
  <2>2. run = "idle" => Quiet("sync")
    BY <1>1 DEF StopAll, TryStartWS, Returns, DiscoverFirst, At
  <2> QED BY <1>1, <2>1, <2>2 DEF Course, SyncInPlace, Quiet, Rounds, Holding
<1>5. OneAtATime' /\ SyncInPlace'
  BY <1>1, <1>4 DEF OneAtATime, SyncInPlace, Quiet, Goroutines
<1>6. AllListed' /\ NoneAlive'
  <2>1. CASE TryStartWS
    <3>1. disc'["run"].pc = "start"
      BY <1>0, <2>1 DEF TryStartWS, Go, OrchestratorTypes, Routines
    <3> QED BY <3>1 DEF AllListed, NoneAlive, At
  <2>2. ASSUME NEW found \in BOOLEAN, DiscoverFirst(found) PROVE AllListed' /\ NoneAlive'
    <3>1. disc'["run"].pc \in {"handshake", "failed"} /\ ws' = ws /\ run = "initial"
      BY <1>0, <2>2 DEF DiscoverFirst, Go, At, OrchestratorTypes, Routines
    <3> QED BY <1>1, <3>1 DEF Course, AllListed, NoneAlive, At, Alive
  <2>3. CASE StopAll
    <3>1. disc'["run"].pc = "stopping" /\ disc'["run"].ids = {nodes[id] : id \in Ids} \ {None}
          /\ run = "idle"
      BY <1>0, <2>3 DEF StopAll, At, OrchestratorTypes, Routines
    <3>2. ASSUME NEW k \in Incs, Alive(k) PROVE k \in {nodes[id] : id \in Ids} \ {None}
      <4>1. ~LetGo(k)
        BY <1>4, <3>1 DEF LetGo, Goroutines
      <4>2. svc[k].id \in Ids /\ nodes[svc[k].id] = k
        BY <3>2, <4>1 DEF Core, UsedIds, Kept, Alive
      <4> QED BY <4>2, IncAssumption
    <3> QED BY <1>1, <3>1, <3>2 DEF AllListed, NoneAlive, At, Alive
  <2>4. CASE Returns
    <3>1. disc'["run"].pc = "returned" /\ ws' = FALSE /\ run = "stopping"
          /\ \A k \in disc["run"].ids : ~Alive(k)
      BY <1>0, <2>4 DEF Returns, At, OrchestratorTypes, IdleRoutine
    <3> QED BY <1>1, <3>1 DEF Course, AllListed, NoneAlive, At, Alive
  <2> QED BY <2>1, <2>2, <2>3, <2>4
<1> QED BY <1>3, <1>5, <1>6 DEF Course

LEMMA StartsInPlace ==
  ASSUME \E machine \in BOOLEAN : OrchestratorStarts(machine)
  PROVE  Core' /\ Course'
<1>1. PICK machine \in BOOLEAN : OrchestratorStarts(machine)
  OBVIOUS
<1>2. /\ \A id \in Ids : nodes'[id] = None
      /\ \A k \in Incs : svc'[k].st = "unused" /\ ~Alive(k)'
      /\ disc'["run"].pc \in {"initial", "off"} /\ disc'["sync"].pc = "idle"
      /\ ws' = FALSE
  BY <1>1 DEF OrchestratorStarts, NoNodes, NoService, IdleRoutine, Goroutines, Alive
<1>3. UsedIds' /\ InHand' /\ Handles' /\ Kept' /\ Routed'
  BY <1>2 DEF UsedIds, InHand, Handles, Kept, Routed, Holding, Goroutines
<1>4. OneAtATime' /\ SyncInPlace' /\ AllListed' /\ NoneAlive'
  BY <1>2 DEF OneAtATime, SyncInPlace, AllListed, NoneAlive, Quiet, At, Goroutines
<1> QED BY <1>3, <1>4 DEF Core, Course

LEMMA InitInPlace ==
  ASSUME Init
  PROVE  InPlace
<1>2. /\ \A id \in Ids : nodes[id] = None
      /\ \A k \in Incs : svc[k].st = "unused" /\ ~Alive(k)
      /\ disc["run"].pc = "off" /\ disc["sync"].pc = "idle"
      /\ ws = FALSE
  BY DEF Init, OrchestratorInit, NoNodes, NoService, IdleRoutine, Goroutines, Alive
<1>3. UsedIds /\ InHand /\ Handles /\ Kept /\ Routed
  BY <1>2 DEF UsedIds, InHand, Handles, Kept, Routed, Holding, Goroutines
<1>4. OneAtATime /\ SyncInPlace /\ AllListed /\ NoneAlive
  BY <1>2 DEF OneAtATime, SyncInPlace, AllListed, NoneAlive, Quiet, At, Goroutines
<1> QED BY <1>3, <1>4 DEF Core, Course, InPlace

\* Everything is kept in place until two goroutines overlap.
LEMMA InPlaceAlways == Spec => []InPlace
<1> DEFINE Types == OrchestratorTypes /\ cancelled \in BOOLEAN
<1>1. Types /\ InPlace /\ [Next]_vars => InPlace'
  <2> SUFFICES ASSUME Types, InPlace, [Next]_vars, ~raced' PROVE Core' /\ Course'
    BY DEF InPlace
  <2>1. OrchestratorStep
    BY Steps DEF OrchestratorTypes
  <2>2. CASE \E machine \in BOOLEAN : OrchestratorStarts(machine)
    BY <2>2, StartsInPlace
  <2>3. CASE ~\E machine \in BOOLEAN : OrchestratorStarts(machine)
    <3>1. raced => raced'
      BY <2>1, <2>3, ZenonT(30) DEF OrchestratorStep, PanelMoves, DiscoverFirst, SyncNodes, RunStep,
           TryStartWS, StopAll, Returns, Rediscover, RoutineStep, Plan, Unmap, Wait, Removals,
           Map, Spawn, Started, StopNode, StartNode, NodeStep, NodeFails, NodeBoots, NodeReturns,
           Unregister, CloseDone
    <3>2. Core /\ Course
      BY <3>1 DEF InPlace
    <3>3. CASE PanelMoves
      BY <3>2, <3>3 DEF PanelMoves, Core, Course, UsedIds, InHand, Handles, Kept, Routed, LetGo,
           OneAtATime, SyncInPlace, AllListed, NoneAlive, Alive, Quiet, At
    <3>4. CASE SyncNodes \/ Rediscover("run")
      BY <3>2, <3>4, RediscoverKeeps DEF Goroutines
    <3>5. CASE \/ TryStartWS \/ StopAll \/ Returns
               \/ \E found \in BOOLEAN : DiscoverFirst(found)
      BY <3>2, <3>5, RunKeeps
    <3>6. ASSUME NEW r \in Goroutines, RoutineStep(r) PROVE Core' /\ Course'
      BY <3>2, <3>6, RoutineKeeps
    <3>7. ASSUME NEW k \in Incs, NodeStep(k) \/ NodeFails(k) PROVE Core' /\ Course'
      BY <3>2, <3>7, NodeKeeps
    <3> QED BY <2>1, <2>3, <3>3, <3>4, <3>5, <3>6, <3>7 DEF OrchestratorStep, RunStep
  <2> QED BY <2>2, <2>3
<1>2. Init => InPlace
  BY InitInPlace
<1> QED BY <1>1, <1>2, OrchestratorTypeSafe, PTL DEF Spec

----------------------------------------------------------------------------
\* The shared WebSocket reaches every running service that nobody stops, whatever nodes the
\* panel lists and however often (rediscover, startNode, stopNode, unregisterNode).
THEOREM Reachable == Spec => []RunningIsReachable
<1>1. InPlace => RunningIsReachable
  <2> SUFFICES ASSUME Core, NEW k \in Incs, svc[k].st = "running", ~Stopping(k),
                      ~BeingStopped(k)
               PROVE  /\ nodes[svc[k].id] = k
                      /\ routes.mailbox[svc[k].id] = k /\ routes.status[svc[k].id] = k
    BY DEF InPlace, RunningIsReachable
  <2>1. ~svc[k].stop
    BY DEF Stopping
  <2>2. ~LetGo(k)
    BY <2>1 DEF LetGo, BeingStopped, Core, InHand, At
  <2> QED BY <2>1, <2>2 DEF Core, Kept, Routed, Alive
<1> QED BY <1>1, InPlaceAlways, PTL

\* A node has one service at a time, whatever the panel lists (startNode, stopNode).
THEOREM OneService == Spec => []OneServicePerNode
<1>1. OrchestratorTypes /\ InPlace => OneServicePerNode
  BY OneAlive DEF InPlace, OneServicePerNode
<1> QED BY <1>1, InPlaceAlways, OrchestratorTypeSafe, PTL

\* When the orchestrator's Run has returned, no service it started is left (stopAll).
THEOREM NoneLeftBehind == Spec => []NobodyLeftBehind
<1>1. InPlace => NobodyLeftBehind
  BY DEF InPlace, Course, NoneAlive, NobodyLeftBehind, At
<1> QED BY <1>1, InPlaceAlways, PTL

----------------------------------------------------------------------------
(* What loading makes of a file's sections.                                *)

Fields ==
  {"id", "url", "token", "node", "nodes", "machine", "local", "kernel", "dir", "certDir",
   "health", "custom", "mode", "content", "certFile", "auto", "domain"}

IsSection(c) == DOMAIN c = Fields

\* A section's certificates are at a place the file names, or in its directory.
HasCerts(c) == c.certDir \in NamedDirs \/ c.certDir = [c.dir EXCEPT !.certs = TRUE]

LEMMA FileSection ==
  ASSUME NEW c \in FileSections
  PROVE  IsSection(c) /\ c.dir \in NamedDirs /\ c.nodes \in Seq(Entries)
         /\ c.certDir \in NamedDirs
BY DEF FileSections, IsSection, Fields

\* What LoadRoot does to a section before it chooses directories.
LEMMA InheritKeeps ==
  ASSUME NEW c, NEW parent, IsSection(c)
  PROVE  LET d == InheritFrom(c, parent)
         IN IsSection(d) /\ d.dir = c.dir /\ d.nodes = c.nodes /\ d.certDir = c.certDir
BY DEF InheritFrom, IsSection, Fields

LEMMA EnvKeeps ==
  ASSUME NEW c, NEW env, IsSection(c)
  PROVE  LET d == ApplyEnvOverrides(c, env)
         IN IsSection(d) /\ d.dir = c.dir /\ d.nodes = c.nodes /\ d.certDir = c.certDir
BY DEF ApplyEnvOverrides, IsSection, Fields

\* A section's identity depends on its panel and its nodes only.
SameNodes(c, d) ==
  c.url = d.url /\ c.node = d.node /\ c.nodes = d.nodes /\ c.machine = d.machine
  /\ c.local = d.local

LEMMA SameIdentity ==
  ASSUME NEW c, NEW d, SameNodes(c, d)
  PROVE  AutoInstanceID(c) = AutoInstanceID(d) /\ IsMachineMode(c) = IsMachineMode(d)
BY DEF SameNodes, AutoInstanceID, IsStandalone, IsMachineMode

LEMMA IdentifyKeeps ==
  ASSUME NEW c, NEW id, IsSection(c), NEW d, d = [c EXCEPT !.id = id]
  PROVE  IsSection(d) /\ d.id = id /\ d.dir = c.dir /\ d.certDir = c.certDir /\ SameNodes(d, c)
BY DEF IsSection, Fields, SameNodes

LEMMA DefaultsKeep ==
  ASSUME NEW c, NEW base, IsSection(c)
  PROVE  LET d == SetDefaultsFrom(c, base)
         IN /\ IsSection(d) /\ d.id = c.id /\ SameNodes(d, c) /\ d.dir = Or(c.dir, base, NoPath)
            /\ c.certDir \in NamedDirs => HasCerts(d)
<1> DEFINE d   == SetDefaultsFrom(c, base)
           dir == Or(c.dir, base, NoPath)
<1>1. /\ IsSection(d) /\ d.id = c.id /\ SameNodes(d, c) /\ d.dir = dir
      /\ d.certDir = Or(c.certDir, [dir EXCEPT !.certs = TRUE], NoPath)
  BY DEF SetDefaultsFrom, IsSection, Fields, SameNodes
<1> HIDE DEF d, dir
<1>2. c.certDir \in NamedDirs => HasCerts(d)
  BY <1>1 DEF HasCerts, Or
<1> QED BY <1>1, <1>2 DEF d, dir

LEMMA SameLength ==
  ASSUME NEW S, NEW s \in Seq(S), NEW t, t = [i \in DOMAIN s |-> t[i]]
  PROVE  Len(t) = Len(s) /\ Len(t) \in Nat /\ DOMAIN t = 1..Len(t)
<1> DEFINE T == {t[i] : i \in DOMAIN s}
<1>1. Len(s) \in Nat /\ DOMAIN s = 1..Len(s)
  BY LenProperties
<1>2. t \in [1..Len(s) -> T]
  BY <1>1
<1>3. t \in Seq(T)
  BY <1>1, <1>2, SeqDef
<1>4. Len(t) \in Nat /\ DOMAIN t = 1..Len(t)
  BY <1>3, LenProperties
<1>5. 1..Len(t) = 1..Len(s)
  BY <1>1, <1>2, <1>4
<1>6. Len(t) = Len(s)
  BY <1>1, <1>4, <1>5
<1> QED BY <1>4, <1>6

----------------------------------------------------------------------------
(* A loaded root.                                                          *)

Loaded == {LoadRoot(f) : f \in {g \in Names : Loads(g)}}

\* Where a section keeps its files: at a place the file names, or beside the file, in a
\* directory named after the instance when there are several.
DirOf(id) == [BaseDir EXCEPT !.instance = id]
HasPlace(list, i) ==
  \/ list[i].dir \in NamedDirs
  \/ list[i].dir = BaseDir /\ Len(list) = 1
  \/ list[i].dir = DirOf(list[i].id)

Several(list) ==
  \A i, j \in DOMAIN list : i # j => AutoInstanceID(list[i]) # AutoInstanceID(list[j])

IsRoot(list) ==
  /\ Len(list) \in Nat \ {0} /\ DOMAIN list = 1..Len(list)
  /\ \A i \in DOMAIN list : /\ IsSection(list[i]) /\ list[i].nodes \in Seq(Entries)
                            /\ HasPlace(list, i) /\ HasCerts(list[i])
  /\ Several(list)

LEMMA LoneSection ==
  ASSUME NEW f \in Names, Files[f].instances = <<>>
  PROVE  IsRoot(LoadRoot(f))
<1> DEFINE top  == Files[f].top
           c    == ApplyEnvOverrides(top, Env)
           d    == SetDefaultsFrom(c, BaseDir)
           list == LoadRoot(f)
<1>1. IsSection(top) /\ top.dir \in NamedDirs /\ top.nodes \in Seq(Entries)
      /\ top.certDir \in NamedDirs
  BY FilesAssumption, FileSection DEF Names
<1>2. IsSection(c) /\ c.dir = top.dir /\ c.nodes = top.nodes /\ c.certDir = top.certDir
  BY <1>1, EnvKeeps
<1>3. IsSection(d) /\ d.dir = Or(c.dir, BaseDir, NoPath) /\ d.nodes = c.nodes /\ HasCerts(d)
  <2> HIDE DEF c
  <2> QED BY <1>1, <1>2, DefaultsKeep DEF SameNodes
<1>4. list = <<d>>
  BY DEF LoadRoot, Sections
<1>5. Len(list) = 1 /\ DOMAIN list = 1..1 /\ list[1] = d
  <2> HIDE DEF d
  <2> QED BY <1>4
<1>6. d.dir \in NamedDirs \/ d.dir = BaseDir
  <2> HIDE DEF c, d
  <2> QED BY <1>1, <1>2, <1>3 DEF Or
<1> HIDE DEF d, list
<1>7. IsRoot(list)
  BY <1>1, <1>2, <1>3, <1>5, <1>6 DEF IsRoot, HasPlace, Several
<1> QED BY <1>7 DEF list

LEMMA SeveralSections ==
  ASSUME NEW f \in Names, Files[f].instances # <<>>, Loads(f)
  PROVE  IsRoot(LoadRoot(f))
<1> DEFINE parts == Files[f].instances
           own(i) == ApplyEnvOverrides(InheritFrom(parts[i], Files[f].top), Env)
           inherited == [i \in DOMAIN parts |-> own(i)]
           known == [i \in DOMAIN inherited |->
                       [inherited[i] EXCEPT !.id = AutoInstanceID(inherited[i])]]
           list  == LoadRoot(f)
<1>1. parts \in Seq(FileSections)
  BY FilesAssumption DEF Names
<1>2. \A i \in DOMAIN parts : /\ IsSection(parts[i]) /\ parts[i].dir \in NamedDirs
                              /\ parts[i].nodes \in Seq(Entries) /\ parts[i].certDir \in NamedDirs
  BY <1>1, FileSection, LenProperties
<1>3. ASSUME NEW i \in DOMAIN parts
      PROVE  /\ inherited[i] = own(i) /\ IsSection(own(i)) /\ own(i).dir \in NamedDirs
             /\ own(i).nodes \in Seq(Entries) /\ own(i).certDir \in NamedDirs
  BY <1>2, InheritKeeps, EnvKeeps
<1>4. ASSUME NEW i \in DOMAIN parts
      PROVE  /\ IsSection(known[i]) /\ known[i].dir \in NamedDirs
             /\ known[i].nodes \in Seq(Entries) /\ known[i].certDir \in NamedDirs
             /\ known[i].id = AutoInstanceID(own(i)) /\ SameNodes(known[i], own(i))
  <2> DEFINE c == own(i)
             id == AutoInstanceID(c)
  <2>1. known[i] = [c EXCEPT !.id = id]
    BY <1>3
  <2>2. IsSection(c) /\ c.dir \in NamedDirs /\ c.nodes \in Seq(Entries) /\ c.certDir \in NamedDirs
    BY <1>3
  <2> HIDE DEF c, id, known
  <2>3. /\ IsSection(known[i]) /\ known[i].dir \in NamedDirs
        /\ known[i].nodes \in Seq(Entries) /\ known[i].certDir \in NamedDirs
        /\ known[i].id = id /\ SameNodes(known[i], c)
    BY <2>1, <2>2, IdentifyKeeps, SMTT(30) DEF SameNodes
  <2> QED BY <2>3 DEF c, id
<1>5. list = [i \in DOMAIN known |-> SetDefaultsFrom(known[i], InstanceBase(known, i))]
  BY DEF LoadRoot, Sections
<1>6. DOMAIN known = DOMAIN parts /\ known = [i \in DOMAIN parts |-> known[i]]
  OBVIOUS
<1>7. Len(known) = Len(parts) /\ Len(parts) \in Nat \ {0}
  BY <1>1, <1>6, SameLength, EmptySeq
<1>8. \A i \in DOMAIN parts : AutoInstanceID(own(i)) = AutoInstanceID(known[i])
  BY <1>4, SameIdentity
<1> HIDE DEF own, known, list
<1>9. ASSUME NEW i \in DOMAIN parts
      PROVE  /\ IsSection(list[i]) /\ list[i].nodes \in Seq(Entries)
             /\ list[i].dir = Or(known[i].dir, InstanceBase(known, i), NoPath)
             /\ list[i].id = known[i].id /\ SameNodes(list[i], known[i]) /\ HasCerts(list[i])
  <2>1. list[i] = SetDefaultsFrom(known[i], InstanceBase(known, i))
    BY <1>5, <1>6
  <2> QED BY <1>4, <2>1, DefaultsKeep DEF SameNodes
<1>10. list = [i \in DOMAIN parts |-> list[i]]
  BY <1>5, <1>6
<1>11. Len(list) = Len(parts) /\ DOMAIN list = 1..Len(list) /\ DOMAIN list = DOMAIN parts
  BY <1>1, <1>10, SameLength
<1>12. \A i \in DOMAIN parts : AutoInstanceID(list[i]) = list[i].id
  BY <1>4, <1>8, <1>9, SameIdentity
<1>13. Several(list)
  <2>1. \A i, j \in DOMAIN list : i # j => list[i].id # list[j].id
    BY DEF Loads, LoadRootSucceeds, LoadRoot, list
  <2> QED BY <1>11, <1>12, <2>1 DEF Several
<1>14. ASSUME NEW i \in DOMAIN parts PROVE HasPlace(list, i)
  <2>1. CASE known[i].dir # NoPath
    BY <1>4, <1>9, <2>1 DEF HasPlace, Or
  <2>2. CASE known[i].dir = NoPath /\ Len(known) > 1
    BY <1>9, <2>2 DEF HasPlace, DirOf, Or, InstanceBase
  <2>3. CASE known[i].dir = NoPath /\ ~(Len(known) > 1)
    <3>1. Len(list) = 1
      <4>1. \A n \in Nat \ {0} : n > 1 \/ n = 1
        OBVIOUS
      <4> QED BY <1>7, <1>11, <2>3, <4>1
    <3>2. InstanceBase(known, i) = BaseDir
      BY <2>3 DEF InstanceBase
    <3> QED BY <1>9, <2>3, <3>1, <3>2 DEF HasPlace, Or
  <2> QED BY <2>1, <2>2, <2>3
<1>15. IsRoot(list)
  BY <1>7, <1>9, <1>11, <1>13, <1>14 DEF IsRoot
<1> QED BY <1>15 DEF list

LEMMA LoadedRoots ==
  ASSUME NEW list \in Loaded
  PROVE  IsRoot(list) /\ list # NoRoot
<1>1. PICK f \in Names : Loads(f) /\ list = LoadRoot(f)
  BY DEF Loaded
<1>2. IsRoot(list)
  BY <1>1, LoneSection, SeveralSections
<1>3. NoRoot \notin Loaded \/ list # NoRoot
  BY <1>2, EmptySeq DEF IsRoot, NoRoot
<1> QED BY <1>2, <1>3

----------------------------------------------------------------------------
(* The services of a root that was accepted at startup.                    *)

IsPath(d) ==
  d = [base |-> d.base, instance |-> d.instance, node |-> d.node, certs |-> d.certs]

LEMMA NamedPath ==
  ASSUME NEW d \in NamedDirs
  PROVE  IsPath(d) /\ d.node = 0 /\ d.certs = FALSE /\ d.base # BaseDir.base
BY DEF NamedDirs, IsPath

LEMMA DerivedPath ==
  ASSUME NEW id, NEW d, d = DirOf(id)
  PROVE  IsPath(d) /\ d.node = 0 /\ d.certs = FALSE
<1>1. d = [base |-> "beside the file", instance |-> id, node |-> 0, certs |-> FALSE]
  BY DEF DirOf, BaseDir, Path
<1> QED BY <1>1 DEF IsPath, DirOf, BaseDir, Path

LEMMA BasePath == IsPath(BaseDir) /\ BaseDir.node = 0 /\ BaseDir.certs = FALSE
BY DEF IsPath, BaseDir, Path

\* What startup makes of a root keeps everything but identities.
LEMMA NormalizedRoot ==
  ASSUME NEW list, IsRoot(list)
  PROVE  LET new == NormalizeInstances(list)
         IN /\ DOMAIN new = DOMAIN list
            /\ \A i \in DOMAIN list :
                 /\ IsSection(new[i]) /\ new[i].nodes \in Seq(Entries)
                 /\ IsPath(new[i].dir) /\ new[i].dir.node = 0 /\ new[i].dir.certs = FALSE
                 /\ HasCerts(new[i])
                 /\ new[i].id = AutoInstanceID(list[i])
<1> SUFFICES ASSUME NEW i \in DOMAIN list
             PROVE  LET c == NormalizeInstances(list)[i]
                    IN /\ IsSection(c) /\ c.nodes \in Seq(Entries)
                       /\ IsPath(c.dir) /\ c.dir.node = 0 /\ c.dir.certs = FALSE
                       /\ HasCerts(c)
                       /\ c.id = AutoInstanceID(list[i])
  BY DEF NormalizeInstances
<1>1. IsSection(list[i]) /\ list[i].nodes \in Seq(Entries) /\ HasPlace(list, i)
      /\ HasCerts(list[i])
  BY DEF IsRoot
<1>2. IsPath(list[i].dir) /\ list[i].dir.node = 0 /\ list[i].dir.certs = FALSE
  <2>1. CASE list[i].dir \in NamedDirs
    BY <2>1, NamedPath
  <2>2. CASE list[i].dir = BaseDir
    BY <2>2, BasePath
  <2>3. CASE list[i].dir = DirOf(list[i].id)
    <3> DEFINE d  == list[i].dir
               id == list[i].id
    <3>1. d = DirOf(id)
      BY <2>3
    <3> HIDE DEF d, id
    <3>2. IsPath(d) /\ d.node = 0 /\ d.certs = FALSE
      BY <3>1, DerivedPath
    <3> QED BY <3>2 DEF d
  <2> QED BY <1>1, <2>1, <2>2, <2>3 DEF HasPlace
<1>3. NormalizeInstances(list)[i] = [list[i] EXCEPT !.id = AutoInstanceID(list[i])]
  BY DEF NormalizeInstances
<1>4. HasCerts(NormalizeInstances(list)[i])
  BY <1>1, <1>3, IdentifyKeeps DEF HasCerts
<1> QED BY <1>1, <1>2, <1>3, <1>4, IdentifyKeeps, SMTT(30) DEF SameNodes

\* A service keeps its files where its section does, under a name of its node's, or where
\* the file says.
LEMMA ExpandedDirs ==
  ASSUME NEW c, IsSection(c), c.nodes \in Seq(Entries), IsPath(c.dir), c.dir.node = 0,
         NEW k \in DOMAIN Expanded(c)
  PROVE  LET d == Expanded(c)[k]
         IN /\ d.url = c.url /\ d.machine = c.machine
            /\ \/ d.dir \in NamedDirs
               \/ d.dir = c.dir
               \/ d.dir = [c.dir EXCEPT !.node = d.node]
            /\ HasCerts(d) \/ d.certDir = c.certDir
<1>1. CASE IsMachineMode(c) \/ c.nodes = <<>>
  BY <1>1 DEF Expanded, ExpandNodes
<1>2. CASE ~IsMachineMode(c) /\ c.nodes # <<>>
  <2> DEFINE e == c.nodes[k]
             d == Expanded(c)[k]
  <2>1. k \in DOMAIN c.nodes /\ d = ExpandNode(c, e)
    BY <1>2 DEF Expanded, ExpandNodes
  <2>2. e \in Entries
    BY <2>1, LenProperties
  <2> HIDE DEF e, d
  <2>3. /\ d.url = c.url /\ d.machine = c.machine /\ d.node = e.node
        /\ d.dir = IF ~e.kernel THEN NodeDir(c, e.node) ELSE Or(e.dir, c.dir, NoPath)
        /\ d.certDir = Or(IF e.cert THEN e.certDir ELSE c.certDir, [d.dir EXCEPT !.certs = TRUE],
                          NoPath)
    BY <2>1 DEF ExpandNode, IsSection, Fields
  <2>4. e.dir \in NamedDirs /\ e.certDir \in NamedDirs
    BY <2>2 DEF Entries
  <2>5. d.url = c.url /\ d.machine = c.machine
        /\ (d.dir \in NamedDirs \/ d.dir = c.dir \/ d.dir = [c.dir EXCEPT !.node = d.node])
    BY <2>3, <2>4 DEF NodeDir, Or
  <2>6. HasCerts(d) \/ d.certDir = c.certDir
    BY <2>3, <2>4 DEF HasCerts, Or
  <2> QED BY <2>5, <2>6 DEF d
<1> QED BY <1>1, <1>2

LEMMA OneForMachine ==
  ASSUME NEW c, IsMachineMode(c)
  PROVE  DOMAIN Expanded(c) = {1}
BY DEF Expanded

LEMMA SectionsApart ==
  ASSUME NEW list, IsRoot(list), ValidateStartupLayout(NormalizeInstances(list)),
         NEW i \in DOMAIN list, NEW j \in DOMAIN list, i # j
  PROVE  NormalizeInstances(list)[i].dir # NormalizeInstances(list)[j].dir
<1> DEFINE new == NormalizeInstances(list)
<1>1. DOMAIN new = DOMAIN list
      /\ new[i].id = AutoInstanceID(list[i]) /\ new[j].id = AutoInstanceID(list[j])
  BY NormalizedRoot
<1>2. AutoInstanceID(list[i]) # AutoInstanceID(list[j])
  BY DEF IsRoot, Several
<1>3. new[i].dir = new[j].dir => new[i].id = new[j].id
  <2>1. \A a, b \in DOMAIN new : a # b => (new[a].dir = new[b].dir => new[a].id = new[b].id)
    <3> HIDE DEF new
    <3> QED BY DEF ValidateStartupLayout, new
  <2> HIDE DEF new
  <2> QED BY <1>1, <2>1
<1> QED BY <1>1, <1>2, <1>3

\* Where a service keeps its certificates: where the file says, or in the directory of its
\* section or of its node.
LEMMA CertPlace ==
  ASSUME NEW c, NEW d, IsPath(c.dir), c.dir.node = 0, HasCerts(c),
         \/ d.dir \in NamedDirs
         \/ d.dir = c.dir
         \/ d.dir = [c.dir EXCEPT !.node = d.node],
         HasCerts(d) \/ d.certDir = c.certDir
  PROVE  \/ d.certDir.node = 0 /\ d.certDir.base # BaseDir.base
         \/ \E m \in {0, d.node} : d.certDir = [c.dir EXCEPT !.node = m, !.certs = TRUE]
<1>1. CASE d.certDir \in NamedDirs
  BY <1>1, NamedPath
<1>2. CASE d.certDir = [c.dir EXCEPT !.certs = TRUE]
  <2>1. d.certDir = [c.dir EXCEPT !.node = 0, !.certs = TRUE]
    BY <1>2 DEF IsPath
  <2> QED BY <2>1
<1>3. CASE d.certDir = [d.dir EXCEPT !.certs = TRUE]
  <2>1. CASE d.dir \in NamedDirs
    <3>1. IsPath(d.dir) /\ d.dir.node = 0 /\ d.dir.base # BaseDir.base
      BY <2>1, NamedPath
    <3> QED BY <1>3, <3>1 DEF IsPath
  <2>2. CASE d.dir = c.dir
    BY <1>2, <1>3, <2>2
  <2>3. CASE d.dir = [c.dir EXCEPT !.node = d.node]
    <3>1. d.certDir = [c.dir EXCEPT !.node = d.node, !.certs = TRUE]
      BY <1>3, <2>3 DEF IsPath
    <3> QED BY <3>1
  <2> QED BY <2>1, <2>2, <2>3
<1> QED BY <1>1, <1>2, <1>3 DEF HasCerts

\* A directory under two sections' directories is under one and the same.
LEMMA OnePlace ==
  ASSUME NEW p, NEW q, IsPath(p), IsPath(q),
         p.node = q.node, p.certs = q.certs, p.base = q.base, p.instance = q.instance
  PROVE  p = q
BY DEF IsPath

\* What an accepted root gives its services.
LEMMA AcceptedServices ==
  ASSUME NEW list, IsRoot(list), ValidateStartupLayout(NormalizeInstances(list)),
         services = Services(NormalizeInstances(list))
  PROVE  \A s, t \in DOMAIN services : s # t =>
           /\ ~services[s].machine /\ ~services[t].machine
                => Binding(services[s]) # Binding(services[t])
           /\ Derived(s) => services[s].dir # services[t].dir
           /\ OwnCerts(s, t) => services[s].certDir # services[t].certDir
<1> DEFINE new == NormalizeInstances(list)
           place(s) == new[s[1]]
           one(s) == Expanded(place(s))[s[2]]
<1> SUFFICES ASSUME NEW s \in DOMAIN services, NEW t \in DOMAIN services, s # t
             PROVE  /\ ~services[s].machine /\ ~services[t].machine
                         => Binding(services[s]) # Binding(services[t])
                    /\ Derived(s) => services[s].dir # services[t].dir
                    /\ OwnCerts(s, t) => services[s].certDir # services[t].certDir
  OBVIOUS
<1>1. services = Services(new)
  OBVIOUS
<1>2. DOMAIN new = DOMAIN list
      /\ \A i \in DOMAIN list : /\ IsSection(new[i]) /\ new[i].nodes \in Seq(Entries)
                                /\ IsPath(new[i].dir) /\ new[i].dir.node = 0
                                /\ new[i].dir.certs = FALSE /\ HasCerts(new[i])
  BY NormalizedRoot
<1>3. \A i, j \in DOMAIN list : i # j => new[i].dir # new[j].dir
  BY SectionsApart
<1>4. ~services[s].machine /\ ~services[t].machine
        => Binding(services[s]) # Binding(services[t])
  <2> HIDE DEF new
  <2> QED BY <1>1 DEF ValidateStartupLayout, new
<1> HIDE DEF new
<1>5. ASSUME NEW u \in DOMAIN services
      PROVE  /\ u[1] \in DOMAIN list /\ u[2] \in DOMAIN Expanded(place(u)) /\ u = <<u[1], u[2]>>
             /\ services[u] = Service(u[1], u[2], one(u))
             /\ services[u].dir = one(u).dir /\ services[u].node = one(u).node
             /\ services[u].url = one(u).url /\ services[u].machine = IsMachineMode(one(u))
             /\ services[u].certDir = one(u).certDir
  <2>1. /\ u \in UNION {{i} \X DOMAIN Expanded(new[i]) : i \in DOMAIN new}
        /\ services[u] = Service(u[1], u[2], Expanded(new[u[1]])[u[2]])
    BY <1>1 DEF Services
  <2>2. PICK i \in DOMAIN new : u \in {i} \X DOMAIN Expanded(new[i])
    BY <2>1
  <2>3. u[1] \in DOMAIN list /\ u[2] \in DOMAIN Expanded(place(u)) /\ u = <<u[1], u[2]>>
    BY <1>2, <2>2
  <2> QED BY <2>1, <2>3 DEF Service
<1>6. ASSUME NEW u \in DOMAIN services
      PROVE  /\ services[u].url = place(u).url
             /\ services[u].machine = IsMachineMode(place(u))
             /\ \/ services[u].dir \in NamedDirs
                \/ services[u].dir = place(u).dir
                \/ services[u].dir = [place(u).dir EXCEPT !.node = services[u].node]
             /\ HasCerts(services[u]) \/ services[u].certDir = place(u).certDir
  <2>1. /\ IsSection(place(u)) /\ place(u).nodes \in Seq(Entries)
        /\ IsPath(place(u).dir) /\ place(u).dir.node = 0
    BY <1>2, <1>5
  <2>2. u[2] \in DOMAIN Expanded(place(u))
    BY <1>5
  <2> HIDE DEF place
  <2>3. /\ one(u).url = place(u).url /\ one(u).machine = place(u).machine
        /\ \/ one(u).dir \in NamedDirs
           \/ one(u).dir = place(u).dir
           \/ one(u).dir = [place(u).dir EXCEPT !.node = one(u).node]
        /\ HasCerts(one(u)) \/ one(u).certDir = place(u).certDir
    BY <2>1, <2>2, ExpandedDirs
  <2> HIDE DEF one
  <2> QED BY <1>5, <2>3 DEF IsMachineMode, HasCerts
<1>7. s[1] = t[1] => services[s].node # services[t].node
  <2> SUFFICES ASSUME s[1] = t[1], services[s].node = services[t].node PROVE FALSE
    OBVIOUS
  <2>1. place(s) = place(t) /\ s[2] # t[2]
    BY <1>5
  <2>2. ~IsMachineMode(place(s))
    BY <1>5, <2>1, OneForMachine
  <2>3. Binding(services[s]) # Binding(services[t])
    BY <1>4, <1>6, <2>1, <2>2
  <2>4. services[s].url = services[t].url
    <3>1. services[s].url = place(s).url /\ services[t].url = place(t).url
      BY <1>6
    <3> QED BY <2>1, <3>1
  <2> QED BY <2>3, <2>4 DEF Binding
<1>8. /\ IsPath(place(s).dir) /\ place(s).dir.node = 0 /\ place(s).dir.certs = FALSE
      /\ IsPath(place(t).dir) /\ place(t).dir.node = 0 /\ place(t).dir.certs = FALSE
      /\ HasCerts(place(s)) /\ HasCerts(place(t))
      /\ (s[1] # t[1] => place(s).dir # place(t).dir)
      /\ (s[1] = t[1] => place(s).dir = place(t).dir)
  BY <1>2, <1>3, <1>5
<1>9. Derived(s) => services[s].dir # services[t].dir
  <2> DEFINE ds == services[s].dir  dt == services[t].dir
             ps == place(s).dir  pt == place(t).dir
  <2>1. /\ IsPath(ps) /\ ps.node = 0 /\ IsPath(pt) /\ pt.node = 0
        /\ ps.certs = FALSE /\ pt.certs = FALSE
        /\ (s[1] # t[1] => ps # pt)
    BY <1>8
  <2>3. Derived(s) => ds.node # 0 \/ (ds.base = BaseDir.base /\ s[1] # t[1])
    BY DEF Derived, Alone
  <2>4. /\ ds \in NamedDirs \/ ds = ps \/ ds = [ps EXCEPT !.node = services[s].node]
        /\ dt \in NamedDirs \/ dt = pt \/ dt = [pt EXCEPT !.node = services[t].node]
    BY <1>6
  <2> HIDE DEF ds, dt, ps, pt
  <2>5. ASSUME Derived(s), ds = dt PROVE FALSE
    <3>1. CASE ds \in NamedDirs
      BY <2>3, <2>5, <3>1, NamedPath
    <3>2. CASE ds \notin NamedDirs
      <4>1. /\ ds = [ps EXCEPT !.node = 0] \/ ds = [ps EXCEPT !.node = services[s].node]
            /\ dt = [pt EXCEPT !.node = 0] \/ dt = [pt EXCEPT !.node = services[t].node]
        BY <2>1, <2>4, <2>5, <3>2 DEF IsPath
      <4>2. PICK m, n : /\ ds = [ps EXCEPT !.node = m] /\ dt = [pt EXCEPT !.node = n]
                        /\ m \in {0, services[s].node} /\ n \in {0, services[t].node}
        BY <4>1
      <4>3. /\ ds.node = m /\ ds.base = ps.base /\ ds.instance = ps.instance
            /\ ds.node = n /\ ds.base = pt.base /\ ds.instance = pt.instance
        BY <2>1, <2>5, <4>2 DEF IsPath
      <4>4. ps = pt
        BY <2>1, <4>3, OnePlace
      <4> QED BY <1>7, <2>1, <2>3, <2>5, <4>2, <4>3, <4>4
    <3> QED BY <3>1, <3>2
  <2> QED BY <2>5 DEF ds, dt
<1>10. OwnCerts(s, t) => services[s].certDir # services[t].certDir
  <2> DEFINE cs == services[s].certDir  ct == services[t].certDir
             ps == place(s).dir  pt == place(t).dir
  <2>1. /\ IsPath(ps) /\ ps.node = 0 /\ IsPath(pt) /\ pt.node = 0
        /\ ps.certs = FALSE /\ pt.certs = FALSE
        /\ (s[1] # t[1] => ps # pt)
    BY <1>8
  <2>2. OwnCerts(s, t) => cs.node # 0 \/ (cs.base = BaseDir.base /\ s[1] # t[1])
    BY DEF OwnCerts
  <2>3. /\ \/ cs.node = 0 /\ cs.base # BaseDir.base
           \/ \E m \in {0, services[s].node} : cs = [ps EXCEPT !.node = m, !.certs = TRUE]
        /\ \/ ct.node = 0 /\ ct.base # BaseDir.base
           \/ \E m \in {0, services[t].node} : ct = [pt EXCEPT !.node = m, !.certs = TRUE]
    <3>1. ASSUME NEW u \in {s, t}
          PROVE  \/ services[u].certDir.node = 0 /\ services[u].certDir.base # BaseDir.base
                 \/ \E m \in {0, services[u].node} :
                      services[u].certDir = [place(u).dir EXCEPT !.node = m, !.certs = TRUE]
      <4> DEFINE c == place(u)
                 d == services[u]
      <4>1. /\ IsPath(c.dir) /\ c.dir.node = 0 /\ HasCerts(c)
            /\ \/ d.dir \in NamedDirs
               \/ d.dir = c.dir
               \/ d.dir = [c.dir EXCEPT !.node = d.node]
            /\ HasCerts(d) \/ d.certDir = c.certDir
        BY <1>6, <1>8
      <4> HIDE DEF c, d
      <4>2. \/ d.certDir.node = 0 /\ d.certDir.base # BaseDir.base
            \/ \E m \in {0, d.node} : d.certDir = [c.dir EXCEPT !.node = m, !.certs = TRUE]
        BY <4>1, CertPlace
      <4> QED BY <4>2 DEF c, d
    <3> QED BY <3>1
  <2> HIDE DEF cs, ct, ps, pt
  <2>4. ASSUME OwnCerts(s, t), cs = ct PROVE FALSE
    <3>1. PICK m \in {0, services[s].node}, n \in {0, services[t].node} :
            cs = [ps EXCEPT !.node = m, !.certs = TRUE] /\ cs = [pt EXCEPT !.node = n, !.certs = TRUE]
      BY <2>2, <2>3, <2>4
    <3>2. /\ cs.node = m /\ cs.base = ps.base /\ cs.instance = ps.instance
          /\ cs.node = n /\ cs.base = pt.base /\ cs.instance = pt.instance
      BY <2>1, <3>1 DEF IsPath
    <3>3. ps = pt
      BY <2>1, <3>2, OnePlace
    <3> QED BY <1>7, <2>1, <2>2, <2>4, <3>1, <3>2, <3>3
  <2> QED BY <2>4 DEF cs, ct
<1> QED BY <1>4, <1>9, <1>10

----------------------------------------------------------------------------
(* The process.                                                            *)

\* Whatever the process runs with, or may run with next, was loaded from a file, and the
\* services of a round are those of its root.
Rooted ==
  /\ file \in Names /\ root \in Loaded
  /\ next \in Loaded \cup {NoRoot} /\ reload \in Loaded \cup {NoRoot}
  /\ watch.loaded \subseteq Loaded
  /\ phase \in {"boot", "select", "drain", "ended"}
  /\ phase = "drain" => next # NoRoot
  /\ Live => /\ services = Services(NormalizeInstances(root))
             /\ ValidateStartupLayout(NormalizeInstances(root))

States == {"delayed", "starting", "running", "machine", "failing", "failed", "done"}
Watches(w) == DOMAIN w = {"on", "dirty", "loaded"} /\ w.on \in BOOLEAN /\ w.dirty \in BOOLEAN

Counted ==
  /\ DOMAIN state = DOMAIN services /\ state = [s \in DOMAIN state |-> state[s]]
  /\ \A s \in DOMAIN state : state[s] \in States
  /\ errs \in 0..Len(root)
  /\ sig \in [pending : BOOLEAN, listener : {"listening", "grace", "gone"}, old : BOOLEAN]
  /\ Watches(watch)
  /\ budget \in [BudgetKinds -> Nat]

Process == Rooted /\ Counted

Fixed == UNCHANGED <<file, root, next, reload, watch, phase, services>>

LEMMA RootedStays ==
  ASSUME Rooted, Fixed
  PROVE  Rooted'
BY DEF Rooted, Fixed, Live

LEMMA ExitKeeps ==
  ASSUME Process, Exit, budget' \in [BudgetKinds -> Nat]
  PROVE  Process'
<1>1. Rooted'
  BY DEF Process, Exit, Rooted, Live
<1>2. Counted'
  BY DEF Process, Exit, Counted
<1> QED BY <1>1, <1>2 DEF Process

LEMMA Spends ==
  ASSUME budget \in [BudgetKinds -> Nat], NEW kind \in BudgetKinds, Spend(kind)
  PROVE  budget' \in [BudgetKinds -> Nat]
BY DEF Spend

LEMMA Counts ==
  ASSUME Rooted
  PROVE  Len(root) \in Nat /\ root # NoRoot
BY LoadedRoots DEF Rooted, IsRoot

LEMMA RoundKeeps ==
  ASSUME Process, Round
  PROVE  Process'
<1> USE DEF Process
<1>1. CASE Boot
  <2>1. CASE CanNormalize(root) /\ ValidateStartupLayout(NormalizeInstances(root))
    <3>1. /\ phase' = "select" /\ services' = Services(NormalizeInstances(root))
          /\ state' = [s \in DOMAIN services' |->
                         IF services'[s].machine THEN "machine"
                         ELSE IF services'[s].first THEN "starting" ELSE "delayed"]
          /\ \E on \in BOOLEAN : watch' = [Off EXCEPT !.on = on]
          /\ UNCHANGED <<file, root, next, sig, reload, errs, budget>>
      BY <1>1, <2>1 DEF Boot
    <3>2. Watches(watch') /\ watch'.loaded = {}
      BY <3>1 DEF Off, Watches
    <3>3. Rooted'
      BY <2>1, <3>1, <3>2 DEF Rooted
    <3>4. DOMAIN state' = DOMAIN services' /\ state' = [s \in DOMAIN state' |-> state'[s]]
      BY <3>1
    <3>5. \A s \in DOMAIN state' : state'[s] \in States
      BY <3>1 DEF States
    <3>6. Counted'
      BY <3>1, <3>2, <3>4, <3>5 DEF Counted
    <3> QED BY <3>3, <3>6
  <2>2. CASE ~(CanNormalize(root) /\ ValidateStartupLayout(NormalizeInstances(root)))
    <3>1. Exit /\ budget' \in [BudgetKinds -> Nat]
      BY <1>1, <2>2 DEF Boot, Counted
    <3> QED BY <3>1, ExitKeeps
  <2> QED BY <2>1, <2>2
<1>2. CASE TakeReload
  <2>1. Rooted'
    BY <1>2 DEF TakeReload, Rooted, Live
  <2>2. Counted'
    BY <1>2 DEF TakeReload, Counted
  <2> QED BY <2>1, <2>2
<1>3. CASE AllReturned
  <2>1. Exit /\ budget' \in [BudgetKinds -> Nat]
    BY <1>3 DEF AllReturned, Counted
  <2> QED BY <2>1, ExitKeeps
<1>4. CASE Drained
  <2>1. CASE CanNormalize(next)
    <3>1. /\ phase = "drain" /\ phase' = "boot" /\ root' = next /\ next' = NoRoot
          /\ \E took \in {FALSE, sig.listener = "listening" /\ sig.pending} :
                 sig' = [Calm EXCEPT !.old = sig.old \/ sig.listener = "grace" \/ took]
          /\ watch' = Off /\ reload' = NoRoot
          /\ services' = <<>> /\ state' = <<>> /\ errs' = 0
          /\ UNCHANGED <<file, budget>>
      BY <1>4, <2>1 DEF Drained
    <3>2. root' \in Loaded
      BY <3>1 DEF Rooted
    <3>3. Watches(watch') /\ watch'.loaded = {}
      BY <3>1 DEF Off, Watches
    <3>4. Rooted'
      BY <3>1, <3>2, <3>3 DEF Rooted, Live
    <3>5. Len(root') \in Nat
      BY <3>2, LoadedRoots DEF IsRoot
    <3>6. sig' \in [pending : BOOLEAN, listener : {"listening", "grace", "gone"}, old : BOOLEAN]
      BY <3>1 DEF Calm, Counted
    <3>7. Counted'
      BY <3>1, <3>3, <3>5, <3>6 DEF Counted
    <3> QED BY <3>4, <3>7
  <2>2. CASE ~CanNormalize(next)
    <3>1. Exit /\ budget' \in [BudgetKinds -> Nat]
      BY <1>4, <2>2 DEF Drained, Counted
    <3> QED BY <3>1, ExitKeeps
  <2> QED BY <2>1, <2>2
<1> QED BY <1>1, <1>2, <1>3, <1>4 DEF Round

LEMMA SignalsKeep ==
  ASSUME Process, Signal \/ HearSignal \/ ListenerLeaves \/ ForceExit
  PROVE  Process'
<1> USE DEF Process
<1>1. CASE Signal
  <2>1. budget' \in [BudgetKinds -> Nat]
    BY <1>1, Spends DEF Signal, Counted, BudgetKinds
  <2>2. CASE Live
    <3>1. Fixed /\ sig' = [sig EXCEPT !.pending = TRUE] /\ UNCHANGED <<state, errs>>
      BY <1>1, <2>2 DEF Signal, roundVars, Fixed
    <3>2. Counted'
      BY <2>1, <3>1 DEF Counted, Fixed
    <3> QED BY <3>1, <3>2, RootedStays
  <2>3. CASE ~Live
    BY <1>1, <2>1, <2>3, ExitKeeps DEF Signal
  <2> QED BY <2>2, <2>3
<1>2. CASE HearSignal \/ ListenerLeaves
  <2>1. Fixed /\ UNCHANGED <<state, errs, budget>>
        /\ (sig' = [sig EXCEPT !.pending = FALSE, !.listener = "grace"]
            \/ sig' = [sig EXCEPT !.listener = "gone"])
    BY <1>2 DEF HearSignal, ListenerLeaves, roundVars, Fixed
  <2>2. Counted'
    BY <2>1 DEF Counted, Fixed
  <2> QED BY <2>1, <2>2, RootedStays
<1>3. CASE ForceExit
  <2>1. Exit /\ budget' \in [BudgetKinds -> Nat]
    BY <1>3 DEF ForceExit, Counted
  <2> QED BY <2>1, ExitKeeps
<1> QED BY <1>1, <1>2, <1>3

LEMMA WatcherKeeps ==
  ASSUME Process,
         \/ \E f \in Names : Edit(f)
         \/ DebounceEnds \/ WatcherLeaves \/ \E new \in watch.loaded : Offer(new)
  PROVE  Process'
<1> USE DEF Process
<1> DEFINE Result ==
      file' \in Names /\ reload' \in Loaded \cup {NoRoot} /\ watch'.loaded \subseteq Loaded
<1>1. UNCHANGED <<root, phase, next, services, state, errs, sig>>
  BY DEF Edit, DebounceEnds, WatcherLeaves, Offer, roundVars
<1>2. budget' \in [BudgetKinds -> Nat]
  BY Spends DEF Edit, DebounceEnds, WatcherLeaves, Offer, Counted, BudgetKinds
<1>3. Watches(watch')
  BY DEF Edit, DebounceEnds, WatcherLeaves, Offer, Counted, Watches
<1>4. Result
  <2>1. ASSUME NEW f \in Names, Edit(f) PROVE Result
    BY <2>1 DEF Edit, Rooted, Counted, Watches
  <2>2. CASE DebounceEnds
    <3>1. {LoadRoot(f) : f \in {g \in {file} : Loads(g)}} \subseteq Loaded
      BY DEF Loaded, Rooted
    <3> QED BY <2>2, <3>1 DEF DebounceEnds, Rooted, Counted, Watches, roundVars
  <2>3. CASE WatcherLeaves
    BY <2>3 DEF WatcherLeaves, Rooted, Counted, Watches, roundVars
  <2>4. ASSUME NEW new \in watch.loaded, Offer(new) PROVE Result
    BY <2>4 DEF Offer, Rooted, Counted, Watches, roundVars
  <2> QED BY <2>1, <2>2, <2>3, <2>4
<1>5. Rooted'
  BY <1>1, <1>4 DEF Rooted, Live
<1>6. Counted'
  BY <1>1, <1>2, <1>3 DEF Counted
<1> QED BY <1>5, <1>6

LEMMA ServicesKeep ==
  ASSUME Process, NEW s \in DOMAIN state, ServiceStep(s) \/ Fails(s)
  PROVE  Process'
<1> USE DEF Process
<1>1. Fixed /\ UNCHANGED sig
  BY DEF ServiceStep, Turn, Starts, Fails, SendError, Returned, MachineReturned, Rest, roundVars,
         Fixed
<1>2. PICK st \in States : state' = [state EXCEPT ![s] = st]
  BY DEF ServiceStep, Turn, Starts, Fails, SendError, Returned, MachineReturned, Becomes, States
<1>3. /\ DOMAIN state' = DOMAIN services /\ state' = [t \in DOMAIN state' |-> state'[t]]
      /\ \A t \in DOMAIN state' : state'[t] \in States
  BY <1>2 DEF Counted
<1>4. errs' \in 0..Len(root)
  BY Counts DEF ServiceStep, Turn, Starts, Fails, SendError, Returned, MachineReturned, Counted
<1>5. budget' \in [BudgetKinds -> Nat]
  BY Spends DEF ServiceStep, Turn, Starts, Fails, SendError, Returned, MachineReturned, Counted,
     BudgetKinds
<1>6. Counted'
  BY <1>1, <1>3, <1>4, <1>5 DEF Counted, Fixed
<1> QED BY <1>1, <1>6, RootedStays

LEMMA MachinesKeep ==
  ASSUME Process, Apart, budget' \in [BudgetKinds -> Nat]
  PROVE  Process'
<1>1. Rooted'
  BY RootedStays DEF Process, Apart, Fixed, roundVars
<1>2. Counted'
  BY DEF Process, Apart, Counted, roundVars
<1> QED BY <1>1, <1>2 DEF Process

LEMMA ProcessStep ==
  ASSUME Process, [Next]_vars
  PROVE  Process'
<1>0. budget \in [BudgetKinds -> Nat]
  BY DEF Process, Counted
<1>1. CASE UNCHANGED vars
  <2>1. Apart /\ UNCHANGED budget
    BY <1>1 DEF vars, Apart
  <2> QED BY <1>0, <2>1, MachinesKeep
<1>2. CASE Round
  BY <1>2, RoundKeeps
<1>3. CASE Environment
  <2>1. CASE Signal
    BY <2>1, SignalsKeep
  <2>2. CASE SyncEvent \/ Unanswered
    BY <1>0, <2>2, Spends, MachinesKeep DEF SyncEvent, Unanswered, BudgetKinds
  <2>3. ASSUME NEW f \in Names, Edit(f) PROVE Process'
    BY <2>3, WatcherKeeps
  <2>4. ASSUME NEW s \in DOMAIN state, Fails(s) PROVE Process'
    BY <2>4, ServicesKeep
  <2>5. ASSUME NEW ids \in SUBSET Ids, PanelChanges(ids) PROVE Process'
    BY <1>0, <2>5, Spends, MachinesKeep DEF PanelChanges, BudgetKinds
  <2>6. ASSUME NEW k \in Incs, NodeBootFails(k) PROVE Process'
    BY <1>0, <2>6, Spends, MachinesKeep DEF NodeBootFails, BudgetKinds
  <2> QED BY <1>3, <2>1, <2>2, <2>3, <2>4, <2>5, <2>6 DEF Environment
<1>4. CASE HearSignal \/ ListenerLeaves \/ ForceExit
  BY <1>4, SignalsKeep
<1>5. CASE DebounceEnds \/ WatcherLeaves \/ \E new \in watch.loaded : Offer(new)
  BY <1>5, WatcherKeeps
<1>6. ASSUME NEW s \in DOMAIN state, ServiceStep(s) PROVE Process'
  BY <1>6, ServicesKeep
<1>7. CASE \/ MachineStep(DiscoverFirst(TRUE)) \/ MachineStep(RunStep)
           \/ \E r \in Goroutines : MachineStep(RoutineStep(r))
           \/ \E k \in Incs : MachineStep(NodeStep(k))
  BY <1>0, <1>7, MachinesKeep DEF MachineStep
<1> QED BY <1>1, <1>2, <1>3, <1>4, <1>5, <1>6, <1>7 DEF Next

LEMMA ProcessStart ==
  ASSUME Init
  PROVE  Process
<1>1. PICK start \in {s \in Scenarios : Loads(s.file)} :
        file = start.file /\ panel = start.panel /\ budget = start.budget
  BY DEF Init
<1>2. file \in Names /\ Loads(file) /\ budget \in [BudgetKinds -> Nat]
  BY <1>1, ScenarioAssumption DEF Names
<1>3. Rooted
  BY <1>2 DEF Init, Rooted, Loaded, Live, Off
<1>4. Counted
  BY <1>2, <1>3, Counts DEF Init, Counted, Calm, Off, Watches
<1> QED BY <1>3, <1>4 DEF Process

LEMMA ProcessAlways == Spec => []Process
<1>1. Process /\ [Next]_vars => Process'
  BY ProcessStep
<1> QED BY <1>1, ProcessStart, PTL DEF Spec

\* The process keeps its types; errCh never holds more errors than it has places.
THEOREM SupervisorTypeCorrect == Spec => []TypeOK
<1>1. Process /\ OrchestratorTypes /\ cancelled \in BOOLEAN => TypeOK
  <2> SUFFICES ASSUME Process, OrchestratorTypes, cancelled \in BOOLEAN PROVE TypeOK
    OBVIOUS
  <2>1. OrchestratorTypeOK
    BY OrchestratorTyped
  <2>2. root # NoRoot /\ NoRoot \notin watch.loaded
    BY Counts, LoadedRoots DEF Process, Rooted
  <2> QED BY <2>1, <2>2 DEF TypeOK, Process, Rooted, Counted, States, Watches
<1> QED BY <1>1, ProcessAlways, OrchestratorTypeSafe, PTL

\* Whatever the configuration files say and the environment overrides: services that run
\* side by side belong to different nodes, directories that are derived are no one else's,
\* and certificates are kept apart between instances and from a node with a cert section of
\* its own.  The other nodes of an instance share one certs directory.
THEOREM SeparateNodes == Spec => []NodesAreSeparate
<1>1. Process => NodesAreSeparate
  <2> SUFFICES ASSUME Process, Live PROVE NodesAreSeparate
    BY DEF NodesAreSeparate
  <2>1. IsRoot(root) /\ services = Services(NormalizeInstances(root))
        /\ ValidateStartupLayout(NormalizeInstances(root))
    BY LoadedRoots DEF Process, Rooted
  <2> QED BY <2>1, AcceptedServices DEF NodesAreSeparate
<1> QED BY <1>1, ProcessAlways, PTL

LEMMA DerivedDir ==
  ASSUME NEW list, IsRoot(list), Len(list) > 1, NEW i \in DOMAIN list,
         list[i].dir.base = BaseDir.base
  PROVE  list[i].dir = DirOf(list[i].id)
<1>1. HasPlace(list, i)
  BY DEF IsRoot
<1>2. list[i].dir \notin NamedDirs
  BY NamedPath
<1>3. Len(list) # 1
  <2>1. \A n : n > 1 => n # 1
    OBVIOUS
  <2> QED BY <2>1
<1> QED BY <1>1, <1>2, <1>3 DEF HasPlace

\* An instance's derived directory is the same in every root the process ever runs.
THEOREM DirsAreKept == Spec => InstancesKeepDirs
<1> DEFINE Keeps ==
      Len(root) > 1 /\ Len(root') > 1 =>
        \A i \in DOMAIN root, j \in DOMAIN root' :
          LET c == root[i]  d == root'[j]
          IN c.id = d.id /\ c.dir.base = BaseDir.base /\ d.dir.base = BaseDir.base
               => c.dir = d.dir
<1>1. Process /\ Process' => Keeps
  <2> SUFFICES ASSUME Process, Process', Len(root) > 1, Len(root') > 1,
                      NEW i \in DOMAIN root, NEW j \in DOMAIN root',
                      root[i].id = root'[j].id,
                      root[i].dir.base = BaseDir.base, root'[j].dir.base = BaseDir.base
               PROVE  root[i].dir = root'[j].dir
    OBVIOUS
  <2>1. IsRoot(root) /\ IsRoot(root')
    BY LoadedRoots DEF Process, Rooted
  <2>2. root[i].dir = DirOf(root[i].id) /\ root'[j].dir = DirOf(root'[j].id)
    BY <2>1, DerivedDir
  <2> QED BY <2>2
<1>2. Process /\ Process' => [Keeps]_vars
  BY <1>1
<1> QED BY <1>2, ProcessAlways, PTL DEF InstancesKeepDirs
=============================================================================
