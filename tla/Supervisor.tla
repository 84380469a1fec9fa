----------------------------- MODULE Supervisor -----------------------------
(***************************************************************************)
(* The process: runWithReload (cmd/xboard-node/main.go), the watcher of    *)
(* the configuration file (internal/config/watcher.go), signals, and the   *)
(* services of the instances, one of which may be a machine with its       *)
(* Orchestrator.  A round of runWithReload's loop sets everything up       *)
(* anew, waits for a new root or for the end of all services, and then     *)
(* starts the next round or ends the process.                              *)
(*                                                                         *)
(* Bounds: one machine instance in a file; what an orchestrator left       *)
(* behind is not followed into the next round.                             *)
(***************************************************************************)
EXTENDS Layout, Orchestrator

CONSTANTS
  Files,    \* what the file may contain: Files[f] for a name f
  Env,      \* the environment's overrides
  MaxInstances, MaxNodes, \* at least as many as in any file
  Scenarios \* the file and the panel's list to start with, and how often the
            \* environment may act, by kind

ASSUME FilesAssumption ==
  \A f \in DOMAIN Files :
    /\ Files[f].readable \in BOOLEAN /\ Files[f].top \in FileSections
    /\ Files[f].instances \in Seq(FileSections)
ASSUME EnvAssumption == Env \in [url : Urls, node : Int]

BudgetKinds == {"edit", "signal", "fail", "panel", "sync"}
ASSUME ScenarioAssumption ==
  Scenarios \subseteq [file : DOMAIN Files, panel : SUBSET Ids, budget : [BudgetKinds -> Nat]]

NoRoot == <<>>
Names == DOMAIN Files
Loads(f) == LoadRootSucceeds(Files[f], Env)
LoadRoot(f) == Sections(Files[f], Env)

VARIABLES
  file,     \* the name of the file's contents
  root,     \* what this round runs with
  phase,    \* "boot", "select", "drain" (a new root was taken), "ended"
  next,     \* the new root
  services, \* of this round
  state,    \* their goroutines
  errs,     \* errors in errCh
  sig,      \* a signal in sigCh; the goroutine that waits for it; one of an earlier round
  watch,    \* the watcher: running, debouncing; roots about to be offered
  reload,   \* reloadCh
  budget

roundVars == <<file, root, phase, next>>
vars == <<cancelled, orchVars, roundVars, services, state, errs, sig, watch, reload, budget>>

Off  == [on |-> FALSE, dirty |-> FALSE, loaded |-> {}]
Calm == [pending |-> FALSE, listener |-> "listening", old |-> FALSE]

Init ==
  /\ \E start \in {s \in Scenarios : Loads(s.file)} :
       file = start.file /\ panel = start.panel /\ budget = start.budget
  /\ root = LoadRoot(file)
  /\ phase = "boot" /\ next = NoRoot
  /\ cancelled = FALSE
  /\ services = <<>> /\ state = <<>> /\ errs = 0
  /\ sig = Calm /\ watch = Off /\ reload = NoRoot
  /\ OrchestratorInit

Spend(kind) == budget[kind] > 0 /\ budget' = [budget EXCEPT ![kind] = @ - 1]

Live == phase \in {"select", "drain"}
AllDone == \A s \in DOMAIN state : state[s] \in {"done", "failed"}

----------------------------------------------------------------------------
(* A round.                                                                *)

Exit == phase' = "ended" /\ UNCHANGED <<cancelled, orchVars, file, root, next, services, state,
                                        errs, sig, watch, reload>>

\* Context, channels, watcher (if there can be one), signals, then the services.
Boot ==
  /\ phase = "boot"
  /\ UNCHANGED budget
  /\ IF CanNormalize(root) /\ ValidateStartupLayout(NormalizeInstances(root))
       THEN /\ phase' = "select"
            /\ services' = Services(NormalizeInstances(root))
            /\ state' = [s \in DOMAIN services' |-> IF services'[s].machine THEN "machine"
                                                    ELSE IF services'[s].first THEN "starting"
                                                    ELSE "delayed"]
            /\ OrchestratorStarts(\E i \in DOMAIN root : IsMachineMode(root[i]))
            /\ cancelled' = FALSE
            /\ \E on \in BOOLEAN : watch' = [Off EXCEPT !.on = on]
            /\ UNCHANGED <<file, root, next, sig, reload, errs>>
       ELSE Exit

\* The select at the end of a round: a new root,
TakeReload ==
  /\ phase = "select" /\ reload # NoRoot
  /\ phase' = "drain" /\ next' = reload /\ reload' = NoRoot
  /\ cancelled' = TRUE
  /\ UNCHANGED <<orchVars, file, root, services, state, errs, sig, watch, budget>>

\* or nobody left.
AllReturned == phase = "select" /\ AllDone /\ Exit /\ UNCHANGED budget

\* The old services are gone.  A goroutine that took a signal stays, and so may one that
\* has both a signal and a cancelled context to look at.
Drained ==
  /\ phase = "drain" /\ AllDone
  /\ UNCHANGED budget
  /\ IF CanNormalize(next)
       THEN /\ phase' = "boot" /\ root' = next /\ next' = NoRoot
            /\ \E took \in {FALSE, sig.listener = "listening" /\ sig.pending} :
                 sig' = [Calm EXCEPT !.old = sig.old \/ sig.listener = "grace" \/ took]
            /\ watch' = Off /\ reload' = NoRoot
            /\ services' = <<>> /\ state' = <<>> /\ errs' = 0
            /\ UNCHANGED <<cancelled, orchVars, file>>
       ELSE Exit

----------------------------------------------------------------------------
(* Signals.                                                                *)

\* Between two rounds nobody asked for signals, and the process dies of them.
Signal ==
  /\ phase # "ended" /\ Spend("signal")
  /\ IF Live THEN /\ sig' = [sig EXCEPT !.pending = TRUE]
                  /\ UNCHANGED <<cancelled, orchVars, roundVars, services, state, errs, watch, reload>>
     ELSE Exit

HearSignal ==
  /\ Live /\ sig.listener = "listening" /\ sig.pending
  /\ sig' = [sig EXCEPT !.pending = FALSE, !.listener = "grace"]
  /\ cancelled' = TRUE
  /\ UNCHANGED <<orchVars, roundVars, services, state, errs, watch, reload, budget>>

ListenerLeaves ==
  /\ Live /\ sig.listener = "listening" /\ cancelled
  /\ sig' = [sig EXCEPT !.listener = "gone"]
  /\ UNCHANGED <<cancelled, orchVars, roundVars, services, state, errs, watch, reload, budget>>

\* A bug: only a second signal forces the exit.
SecondSignalOnly ==
  Live /\ sig.listener = "grace" /\ sig.pending /\ Exit /\ UNCHANGED budget

\* A second signal, or 15 seconds, whatever the process does by then.
ForceExit ==
  /\ phase # "ended" /\ (sig.listener = "grace" \/ sig.old)
  /\ Exit /\ UNCHANGED budget

----------------------------------------------------------------------------
(* The watcher.                                                            *)

Edit(f) ==
  /\ phase # "ended" /\ f # file /\ Spend("edit")
  /\ file' = f
  /\ watch' = [watch EXCEPT !.dirty = @ \/ watch.on]
  /\ UNCHANGED <<cancelled, orchVars, root, phase, next, services, state, errs, sig, reload>>

\* A second after the last event the file is read; what does not load is ignored.
DebounceEnds ==
  /\ Live /\ watch.dirty
  /\ watch' = [watch EXCEPT !.dirty = FALSE, !.loaded = @ \cup {LoadRoot(f) : f \in {g \in {file} : Loads(g)}}]
  /\ UNCHANGED <<cancelled, orchVars, roundVars, services, state, errs, sig, reload, budget>>

\* onChange: a root that finds the channel full is dropped.
Offer(new) ==
  /\ Live /\ new \in watch.loaded
  /\ watch' = [watch EXCEPT !.loaded = @ \ {new}]
  /\ reload' = IF reload = NoRoot THEN new ELSE reload
  /\ UNCHANGED <<cancelled, orchVars, roundVars, services, state, errs, sig, budget>>

\* The watcher's loop ends with the context, and takes its timer with it.
WatcherLeaves ==
  /\ Live /\ cancelled /\ watch.on
  /\ watch' = [watch EXCEPT !.on = FALSE, !.dirty = FALSE]
  /\ UNCHANGED <<cancelled, orchVars, roundVars, services, state, errs, sig, reload, budget>>

----------------------------------------------------------------------------
(* Services.                                                               *)

Becomes(s, st) == state' = [state EXCEPT ![s] = st]
Rest == UNCHANGED <<orchVars, roundVars, services, sig, watch, reload>>

\* Later nodes of an instance wait for their turn, or for the end.
Turn(s) ==
  /\ Live /\ state[s] = "delayed"
  /\ \/ Becomes(s, "starting")
     \/ cancelled /\ Becomes(s, "done")
  /\ Rest /\ UNCHANGED <<cancelled, errs, budget>>

Starts(s) ==
  /\ Live /\ state[s] = "starting"
  /\ Becomes(s, "running") /\ Rest /\ UNCHANGED <<cancelled, errs, budget>>

Fails(s) ==
  /\ Live /\ state[s] = "starting" /\ Spend("fail")
  /\ Becomes(s, "failing") /\ Rest /\ UNCHANGED <<cancelled, errs>>

\* A bug: the channel never blocks.
SendAlways(s) ==
  /\ Live /\ state[s] = "failing"
  /\ errs' = errs + 1 /\ cancelled' = TRUE
  /\ Becomes(s, "failed") /\ Rest /\ UNCHANGED budget

\* A bug: one place for all instances.
SendToOne(s) ==
  /\ Live /\ state[s] = "failing" /\ errs < 1
  /\ errs' = errs + 1 /\ cancelled' = TRUE
  /\ Becomes(s, "failed") /\ Rest /\ UNCHANGED budget

\* errCh has a place for each instance and is not read before the end; then cancel().
SendError(s) ==
  /\ Live /\ state[s] = "failing" /\ errs < Len(root)
  /\ errs' = errs + 1 /\ cancelled' = TRUE
  /\ Becomes(s, "failed") /\ Rest /\ UNCHANGED budget

Returned(s) ==
  /\ Live /\ state[s] = "running" /\ cancelled
  /\ Becomes(s, "done") /\ Rest /\ UNCHANGED <<cancelled, errs, budget>>

\* Orchestrator.Run returned.
MachineReturned(s) ==
  /\ Live /\ state[s] = "machine"
  /\ \/ At("run", "failed") /\ Becomes(s, "failing")
     \/ At("run", "returned") /\ Becomes(s, "done")
  /\ Rest /\ UNCHANGED <<cancelled, errs, budget>>

ServiceStep(s) == Turn(s) \/ Starts(s) \/ SendError(s) \/ Returned(s) \/ MachineReturned(s)

----------------------------------------------------------------------------
(* The machine's orchestrator.                                             *)

Apart == UNCHANGED <<cancelled, roundVars, services, state, errs, sig, watch, reload>>
MachineStep(A) == Live /\ A /\ Apart /\ UNCHANGED budget

PanelChanges(ids) ==
  /\ Live /\ ~At("run", "off") /\ ids # panel /\ Spend("panel")
  /\ panel' = ids
  /\ Apart /\ UNCHANGED <<nodes, routes, svc, disc, ws, raced>>

SyncEvent == Live /\ SyncNodes /\ Spend("sync") /\ Apart
Unanswered == Live /\ DiscoverFirst(FALSE) /\ Spend("fail") /\ Apart
NodeBootFails(k) == Live /\ NodeFails(k) /\ Spend("fail") /\ Apart

----------------------------------------------------------------------------
Round == Boot \/ TakeReload \/ AllReturned \/ Drained

Environment ==
  \/ Signal \/ SyncEvent \/ Unanswered
  \/ \E f \in Names : Edit(f)
  \/ \E s \in DOMAIN state : Fails(s)
  \/ \E ids \in SUBSET Ids : PanelChanges(ids)
  \/ \E k \in Incs : NodeBootFails(k)

Next ==
  \/ Round \/ Environment
  \/ HearSignal \/ ListenerLeaves \/ ForceExit
  \/ DebounceEnds \/ WatcherLeaves \/ \E new \in watch.loaded : Offer(new)
  \/ \E s \in DOMAIN state : ServiceStep(s)
  \/ MachineStep(DiscoverFirst(TRUE)) \/ MachineStep(RunStep)
  \/ \E r \in Goroutines : MachineStep(RoutineStep(r))
  \/ \E k \in Incs : MachineStep(NodeStep(k))

Spec == Init /\ [][Next]_vars

\* Goroutines go on and requests are answered in the end; a select that finds the context
\* cancelled again and again takes that branch in the end.
Fairness ==
  /\ WF_vars(Round) /\ WF_vars(ListenerLeaves) /\ WF_vars(ForceExit)
  /\ \A s \in (1..MaxInstances) \X (1..MaxNodes) : WF_vars(s \in DOMAIN state /\ ServiceStep(s))
  /\ WF_vars(MachineStep(DiscoverFirst(TRUE))) /\ WF_vars(MachineStep(RunStep))
  /\ SF_vars(MachineStep(StopAll))
  /\ \A r \in Goroutines : WF_vars(MachineStep(RoutineStep(r)))
  /\ \A k \in Incs : WF_vars(MachineStep(NodeStep(k)))

FairSpec == Spec /\ Fairness

----------------------------------------------------------------------------
(* Properties.                                                             *)

TypeOK ==
  /\ OrchestratorTypeOK
  /\ file \in Names /\ root # NoRoot /\ (phase = "drain" => next # NoRoot)
  /\ phase \in {"boot", "select", "drain", "ended"}
  /\ DOMAIN state = DOMAIN services
  /\ \A s \in DOMAIN state : state[s] \in {"delayed", "starting", "running", "machine",
                                           "failing", "failed", "done"}
  /\ errs \in 0..Len(root)
  /\ sig \in [pending : BOOLEAN, listener : {"listening", "grace", "gone"}, old : BOOLEAN]
  /\ watch.on \in BOOLEAN /\ watch.dirty \in BOOLEAN /\ NoRoot \notin watch.loaded
  /\ budget \in [BudgetKinds -> Nat]

\* Services that run side by side belong to different nodes and, unless the file names
\* directories or overrides a node's kernel, have a directory each; instances keep their
\* certificates apart, and so does a node with a cert section of its own (ExpandNodes,
\* setDefaultsFrom, ValidateStartupLayout), whatever was accepted at loading and startup.
\* Nothing is said of the other nodes of one instance: they share its certs directory.
Alone(s) == \A t \in DOMAIN services : t[1] = s[1] => t = s
Derived(s) ==
  services[s].dir.node # 0 \/ (services[s].dir.base = BaseDir.base /\ Alone(s))
OwnCerts(s, t) ==
  \/ services[s].certDir.node # 0
  \/ services[s].certDir.base = BaseDir.base /\ s[1] # t[1]
NodesAreSeparate ==
  Live => \A s, t \in DOMAIN services : s # t =>
    /\ ~services[s].machine /\ ~services[t].machine
         => Binding(services[s]) # Binding(services[t])
    /\ Derived(s) => services[s].dir # services[t].dir
    /\ OwnCerts(s, t) => services[s].certDir # services[t].certDir

\* An instance that stays in a file of several keeps its directory, unless the file names
\* it, wherever it is moved to (assignInstanceIDs), so that a restart finds its
\* certificates.
InstancesKeepDirs ==
  [][Len(root) > 1 /\ Len(root') > 1 =>
       \A i \in DOMAIN root, j \in DOMAIN root' :
         LET c == root[i]  d == root'[j]
         IN c.id = d.id /\ c.dir.base = BaseDir.base /\ d.dir.base = BaseDir.base
              => c.dir = d.dir]_vars

\* Whoever took a signal ends the process, in whatever state it is by then, a later round
\* included.
TakenSignalEnds == (sig.listener = "grace" \/ sig.old) ~> (phase = "ended")

\* A restart completes or the process ends, unless two services of one instance failed:
\* errCh has one place per instance, and the second error waits for ever.
TwoFailed ==
  \E s, t \in DOMAIN state :
    /\ s # t /\ services[s].instance = services[t].instance
    /\ {state[s], state[t]} \subseteq {"failing", "failed"}
RestartsComplete == (phase = "drain") ~> (phase # "drain" \/ TwoFailed)

\* In the end the machine has handles for the nodes the panel lists (rediscover), however
\* the rediscoveries of the two goroutines overlapped.
Steady == phase = "select" /\ ~cancelled /\ disc["run"].pc \notin {"off", "failed"}
NodesFollowPanel == <>[](Steady => {id \in Ids : nodes[id] # None} = panel)
=============================================================================
