# XboardNode-Plus: a verification project

TLA+ models of the node agent in `src/` (Go), the TLC runs that check them and theorems about them
checked by TLAPS. Paths below are relative to the repository.

## 1. The system

A node agent runs one *service* per proxy node. A service learns the node's configuration and users from
a *panel*, over REST polling and over a WebSocket, and keeps a *proxy kernel* (sing-box or xray, embedded
as a library) running with them. In machine mode one *orchestrator* runs many services over one shared
WebSocket. The same process meters traffic, limits devices and speed, manages certificates and restarts
itself when its configuration file changes.

| Component | State it keeps | Operations | What makes it correct | Modelled in |
|---|---|---|---|---|
| Node service (`internal/service`) | lastConfig/Hash, lastUsers/Hash, kernel object, pullActive, backoffs, channels, wsClient | the cases of `Run`'s select loop, the pull and push goroutines | memory and inbound agree; bad snapshots change nothing; polling converges | `NodeState`, `NodeService`, `MachineNode`; reports in `Metering`, certificates in `ConfigIntake` |
| User tables (`service.go`, `kernel.go`) | none | diff, merge, subtract, reject | a changed uuid is a difference; no accidental mass removal | `UserTable` |
| Kernels (`internal/kernel/singbox`, `xray`) | instance, users, spec, TLS | Start, Stop, Reload, Add/Remove/UpdateUsers, device view | a failed call leaves what it found, or says so | `Kernels`; rules, outbounds and material in `ConfigIntake` |
| Panel control plane, REST client (`controlplane/panel.go`, `panel/client.go`) | config ETag | Initial, Poll, Discover, Report | a fetched change is applied or fetched again | `NodeService`, `Metering` |
| WebSocket client (`panel/ws.go`) | connected, writeCh, backoff | Run, connect, callbacks, writes | the loop learns of each loss of connection | `NodeService`, `Metering` |
| Machine mailbox (`controlplane/mailbox.go`, `machine.go`) | latest config, users, devices, dirty flags | Apply, SeedBaseline, MarkReady, DrainIfReady | no wake-up is lost; what is folded and drained is what the panel last said | `Mailbox`, `MachineNode` |
| Orchestrator (`internal/machine`) | handles, mailboxes, status channels | rediscover, startNode, stopNode, stopAll | one reachable service per wanted node, none left behind | `Orchestrator` |
| Process (`cmd/xboard-node`, `config/watcher.go`) | services, errCh, reloadCh, contexts, signals | file events, debounce, signals, rounds | restarts complete; a signal ends the process | `Supervisor` |
| Configuration file (`internal/config`) | none | LoadRoot, inheritance, ids, validation, ExpandNodes, startup layout | services do not share nodes or derived directories | `Layout` |
| Tracker and reports (`internal/tracker`, `service.go`) | lastSeen, pending, alive addresses, digest | Process, Flush*, Restore*, push goroutines | every byte is booked once | `Metering`, abstractly `Ledger` |
| Device gates (`xray/dispatcher.go`, `singbox/conntracker.go`) | addresses with reference counts, lock-free cells, panel's device view | admit, close, update limits, read | counts are exact, refusals have a reason | `DeviceGate`, `Admission` |
| Limiter, SpeedTracker (`internal/limiter`) | users by id and uuid, buckets | UpdateUsers, UpdateBuckets, GetLimiter | one bucket per user | `Admission` |
| Certificates (`internal/cert`) | material, ACME client, renewed flag, files | Start, Reconfigure, storePEM, persistPEM, renewal | material is a pair and reaches the kernel | `CertManager`, `ConfigIntake` |
| Kernel choice, validation, builders (`internal/model`, `*/config.go`, `*/custom_routes.go`) | none | ResolveEffectiveKernelType, Validate, buildConfig | both kernels do the same with one specification | `KernelConfig`, `Routing` |
| DNS providers, logging, access log, monitoring, geo data, `xbctl` | none that others depend on | adapters, files, commands | | no, section 6 |

**How they meet.** The loop goroutine of `Service.Run` owns everything but `pullActive`, the backoffs and
a few fields under `metricsMu`. The pull goroutine hands its result to the loop over `pullResults`
(capacity 1, blocking); the WebSocket goroutine hands over events (`wsEvents`, 16) and status changes
(`wsStatusCh`, 4), both without blocking: what does not fit is dropped, and a dropped event tries to leave
a request to resynchronise in `wsStatusCh`. Reports are sent by a goroutine of their own, which shares a
buffer with the loop; addresses also go to the WebSocket's write channel. Kernel calls are synchronous and
may fail one by one, with a fallback for most of them. Every connection is a goroutine of the kernel and
meets the loop only in the tables of the device gate and the limiter. The certificate manager's renewal
callback runs on the ACME library's goroutine and meets the loop in one atomic pointer, one flag and two files.
An orchestrator is cancelled, and waited for, by the process; its services hear from the panel through
mailboxes that the shared WebSocket's reader fills.

**What is hard.** A pull spans many turns of the loop and is applied long after it was decided; REST and
WebSocket carry the same data without versions; a handler makes up to four kernel calls, each of which may
fail with different effects on the two kernels; the kernel object itself is replaced at run time; bounded
channels drop; a backoff, a flag for a pending resync and a connected WebSocket each suppress polling; a
report may have been booked although it failed; limits are checked under one lock and counted under another;
a certificate is two files; a restart, a signal and a rediscovery may overlap; and 2000 lines of
configuration building exist twice. The list, line by line, is `hazards` in `PROJECT.json`.

## 2. The modules

| Module | Models | Extends |
|---|---|---|
| `UserTable` | user lists as partial functions id -> (uuid, limits); diff, merge, subtract, rejection | |
| `Kernels` | both kernels as one record and pure operations `op(kernel, args, outcome)` | `UserTable` |
| `NodeState` | the loop's handlers as functions of the state the loop owns | `Kernels` |
| `NodeService` | the service, its goroutines, channels, the panel: Init, Next, fairness, properties | `NodeState` |
| `Mailbox` | the machine node's mailbox as pure operations, each one critical section of its mutex | `Kernels` |
| `MachineNode` | the service fed by the shared WebSocket through the mailbox | `NodeService`, `Mailbox` |
| `Ledger` | what a node promises about traffic, without tracker, reports or kernels | |
| `Metering` | counters, tracker, reports, the write side of the WebSocket, the panel's books; implements `Ledger` | |
| `DeviceGate` | the tables of both device gates as operations on a record | |
| `Admission` | connections going through a gate and fetching a bucket, and the loop that changes limits | `DeviceGate` |
| `Layout` | the configuration file: LoadRoot, ids, directories, validation, the services it stands for | |
| `Orchestrator` | a machine's orchestrator with its two discovering goroutines | |
| `Supervisor` | the process: rounds, watcher, signals, services, one of them an orchestrator | `Layout`, `Orchestrator` |
| `Routing` | custom rules, raw rules and panel routes compiled for both kernels, and where a connection goes | |
| `KernelConfig` | kernel choice, validation, outbounds, inbound security and transport | `Routing` |
| `CertManager` | the certificate manager, its files and ACME storage, crashes and failed writes | `KernelConfig` |
| `ConfigIntake` | a service taking in configurations: validation, reconfiguration, start or reload, renewals | `CertManager` |
| `MCNode`, `MCMachine`, `MCMetering`, `MCAdmission`, `MCSupervisor`, `MCIntake` | constants for TLC | the module they are named for |
| `MCBackoff` | the service with a history of the polls it gave up, for finding 6 | `MCNode` |
| `NodeProofs`, `AgreementProofs`, `MachineProofs` | theorems about `NodeService` and `MachineNode` | in this order, and `MachineNode` |
| `MeteringProofs`, `AdmissionProofs`, `SupervisorProofs` | theorems about `Metering`, `Admission`, `Supervisor` with `Orchestrator` and `Layout` | the module they are about |
| `CertProofs`, `RoutingProofs` | theorems about `ConfigIntake`: the certificate, and what both kernel packages build | `ConfigIntake` |

### A node and a machine's node

**State.** `node` is what the loop owns. `node.cfg` stands for lastConfig and lastConfigHash, `node.users`
for lastUsers, lastUserHash and the limiter's table: the code writes each group together. `node.k` is the
kernel object: what it remembers (`spec`, `users`, `tls`) and, apart from that, what its inbounds really
authenticate (`inbounds`, by protocol, since sing-box names an inbound after its protocol). `node.deferred`
says whether this object is the one whose `Stop` `Run` has deferred. `pull` is the pull goroutine with its
program counter and locals; `etag` is the panel client's config ETag; `certs` the certificate's generation
and renewed flag. `panel` and `budget` belong to the environment.

**Actions.** One per case of the select loop (`PullTick`, `ReceivePullResult`, `ReceiveWSEvent`,
`ReceiveWSStatus`, `WSDiscovery`, `Shutdown`), startup (`BootRest`, `BootWs`, `BootFails`), the steps of the
pull goroutine (`PollConfig`, `PollUsers`, `PollSend`, `PollDone`) and the world (`World`). A handler is
one atomic step with every call it makes; that is sound because only the loop goroutine touches what it
writes. The pull goroutine is cut where it touches shared state: the two HTTP requests, the send, and the
release of `pullActive`. The tracking and report cases are in `Metering`.

**A machine's node.** `MachineNode` reuses the handlers, the pull goroutine and the select cases of
`NodeService`, and replaces startup and the way events arrive. The mailbox `mb` exists before the service
runs; `loop` is the loop goroutine's place in startup (`fetch`, `start`, `mark`, `drain`) and later in
`select`, so the reader's `MuxApply` and `MuxNotify` fall between any two of them. `Apply` is cut at its
unlock, before it notifies; `notified` is the token in `notifyCh`. `wire` is what the panel has sent and the
reader has not read. `strayed` is a history variable of the environment: an edit of the users was made while the
connection was down, was lost with it, or could not be told through any mailbox (`Untellable`: the client drops an empty
list, an unknown action says nothing, a delta needs a list it can be folded into), or a pull has changed the users.
What `Apply`, the drain and the handlers do with an event that did arrive never sets it. The service keeps its
variables `wsEvents` and the `WSDiscovery` action of `NodeService` unused, as the code does in machine mode.

**Failures.** A handler's kernel calls end as a fault record says: `ok`, `refused` (nothing changed) or
`torn` (sing-box removed its inbound and could not create it again). xray and `Start` build the new instance
first, so a failure there changes nothing. `KernelStep` tries every combination. One call succeeds without doing
anything: for hysteria version 1 (`Rigid`) sing-box has no case that replaces an inbound's users, so `HotSwap` leaves the
inbound of such a config as it is (`Frozen`), as `singbox.go:549-599` does; a reload with another config recreates it
(`SwapInbound`).

**Abstractions.** A hash is its value. A fetched list with a bad or duplicate id or uuid is one value,
`Malformed`. The inbound an xray instance serves is read off its last start, so `lastKernelHash` needs no
field. Which kernel a config needs (`KernelOf`) and which configs fail validation (`BadSpec` at the panel
client, `BadRuntime` in the service) are constants here; `KernelConfig` says how they come about. A cancelled
WebSocket client delivers nothing more. The ten minutes of `wsDiscovery` and the five of xray's reconciliation
are nondeterminate delays. A push tells the change by a snapshot or, where one suffices, by one delta.

### Metering

`counter` is the cumulative traffic of the running kernel instance, `lastSeen` and `pending` are the tracker's,
`report` holds the two reports that can be under way (`async`, the goroutine of `pushReportAsync`; `sync`, the
last one at shutdown), `alive` the tracker's snapshot, its digest and the buffer the goroutine reads, `link` the
WebSocket's writer. A report is cut where it reads the shared buffer, where the panel books it and where its
answer is known, so that an answer can get lost after the panel booked. `used`, `billed`, `rebilled`, `lost` and
`seen` are history variables, and so are `missed` and the `outdated` marks: a report or the message queue is outdated when
the tracker flushed newer addresses since it took its own; `missed` becomes true only when the addresses flushed *last*
are lost or an outdated list reaches the panel after them, and false again with the next flush. That reports and
device ticks overlap is no reason to set it. Traffic is counted in units; addresses are whole sets (`Views`), told apart by
`DigestOf`, which in `MCMetering` collides as `calcAliveIPsHash` does (it concatenates without separators).

### Connections

`DeviceGate`'s operations are one critical section or one atomic access each, and `Admission` gives every
connection a program counter between them: the limit is read under the read lock (`ReadLimit`), decided under
another read lock (`CheckLimited`), and acted on under the write lock (`Bump`, `Enter`, `Decide`). Users without a
limit are counted in cells (`StoreFree`, `AddFree`, `SubFree`, `DropFree`). sing-box takes its snapshot, asks the
gate, joins and fetches a bucket in steps of their own. One user is enough: users share locks, not entries. The
loop changes the limiter, the buckets and the kernel's limits in three steps, and ranges over the live table
(`BeginRead`, `EndRead`) while connections write it: the runtime may then abort the process (`crashed`).

### The process, its file and its machines

`Layout` computes, for a file, the sections LoadRoot makes of it and the services `ExpandNodes` and the startup
checks accept: a function from pairs, service k of instance i. A directory is a record of the parts its path is
joined from, so that two are equal when their paths are; one that a file names is a place of its own
(`NamedDirs`, assumed of the files by `FilesAssumption`), never a part of the tree derived from the place of the
file, where a name chosen by hand could meet a derived one. What the environment overrides is any address and
node number (`EnvAssumption`). `Supervisor` runs rounds: `Boot`, services in their goroutines, `errs` for `errCh`, `watch` and
`reload` for the watcher and its channel, `sig` for the signal channel and the goroutine that waits on it.
`Orchestrator` cuts a rediscovery into its request, each handle it takes away, each wait for a stopped service,
each start and each registration, for the main loop and for the goroutine a `sync.nodes` event starts. A service's
life is `running`, `ended` or `failed`; what it does meanwhile is the subject of the other modules.

### Configurations and certificates

`Routing` and `KernelConfig` are operators: the built list of rules as a sequence of entries, evaluated first match
wins, and what each kernel package makes of outbounds, security and transport. A rule's plain domain becomes a
whole-name criterion for sing-box and a part-of-name one for xray (`ReadBy`). An outbound is converted per kernel
(`OutboundConfigTo`): flat, with a wireguard's keys renamed and the chain under `proxy_tag` for sing-box; nested, with the
chain under `proxySettings`, for xray; what it was made of (`from`) goes with it, and outbounds of local files are
taken as they are written. `CertManager` keeps a pair of key
and certificate as two halves, `[cert, key]`, since they are written as two files, certificate first. Writing one
file is one step (the temporary file has one name for both goroutines, and loading validates); `main` and `callback`
are what each of the two goroutines has still to write. The operator replaces certificate and key one after the
other, too. `ConfigIntake` leaves users out: there always are some.

## 3. What the runs check

| Run (module) | Question | States | Result |
|---|---|---|---|
| `node` (`MCNode`) | both kernels, hysteria 1 included: all event types over a WebSocket, a handler with failing kernel calls, a REST node with failing polls, invalid configs and renewals | 278,000 | holds |
| `machine_node` (`MCMachine`) | a machine's node: events before, during and after startup, polls, a lost connection | 1,900,000 | holds |
| `metering` (`MCMetering`) | traffic and addresses through overlapping, failing reports, kernel restarts, a clogged WebSocket | 283,000 | holds |
| `admission` (`MCAdmission`) | three connections of one user, two addresses, changing limits, both kernels | 1,100,000 | holds |
| `supervisor` (`MCSupervisor`) | reloads, signals, failing services, a machine whose node list changes | 153,000 | holds |
| `config_intake` (`MCIntake`) | every certificate mode with crashes; rules, routes, outbounds and inbounds on both kernels | 562,000 | holds |
| `kernel_never_starts` (`MCNode`) | does the kernel start once there are users? | | violated, finding 1 |
| `config_lost` (`MCNode`) | is a config retried when the rest of its poll failed? | | violated, finding 2 |
| `uuid_change` (`MCNode`) | does a uuid delta leave the new uuid served? | | violated, finding 3 |
| `kernel_leak` (`MCNode`) | does a stopped service leave no kernel behind? | | violated, finding 4 |
| `reload_outbounds` (`MCIntake`) | does a reload that succeeds install the configuration? | | violated, finding 5 |
| `backoff` (`MCBackoff`) | does the pause grow with the failures? | | violated, finding 6 |

Every run explores its state space completely. `Budget` (or `Budgets`, `Scenarios`) bounds only the environment, by
kind of event; where a run lists several budgets, its initial states differ in them, so that each kind of trouble
is explored deeply without multiplying all of them. What a system component does by itself is never bounded.

### Nodes

- `MemoryIsServed`: while no kernel call has failed, a running kernel runs the service's config and its
  inbound authenticates exactly the service's users, in every order of snapshots, deltas, configs, renewals
  and reconciliations; for a machine's node as well. Excepted is the inbound of a hysteria 1 node on sing-box,
  for which it is false (section 4); service and kernel remember the same users there too.
- `RollbackKeepsAgreement`: on xray, when any kernel calls of a user synchronisation fail, memory and inbound
  still agree afterwards (or the kernel is down). Excluded, because they do not hold: sing-box, whose failed
  swap leaves no inbound; deltas that change a uuid, whose removal's error is ignored (`service.go:1172`);
  pulls with a config, which store users before the reload and do not take them back (`service.go:872`).
- `CollapseOnlyByRemove`: only a remove delta makes a node forget everybody, or more than half of a large
  table.
- `KernelSuitsConfig`: config and kernel object always fit, whatever fails.
- `UsersReachInbound`: without a lasting WebSocket connection, polling brings the panel's users to the inbound, or
  those the guards keep; for hysteria 1 on sing-box, to the service.
- `BackoffIsExponential` (violated): what `service.go:111` says of `apiBackoff`, as a property of two pauses.
- `NoLostWakeup`: whatever waits in a ready mailbox, a token is in the channel, the reader is about to put one
  there, or the loop is on its way to a drain.
- `SettledIsCurrent`: events that arrive before, while or after the first snapshot is fetched are neither lost, nor
  folded wrongly, nor drained halfway, nor overwritten by it: once nothing is on its way, a node whose edits could all be
  told over the wire holds the panel's users. Two exceptions: edits that no mailbox could tell (`strayed`, section 2), and
  a list the service's own guards turn down (`TurnsDown`: an emptied or shrunken list, or a first list without a kernel).
  The comparison is with the panel's list, so a lossy drain or a wrong coalescing violates it.
- `TypeOK`, `MachineTypeOK`: types and the capacities of the channels.

*Bounds.* `node`: three users, one of them with two credentials and two limits; the tables empty,
one, two and three users, so that snapshots, adds, removes, limit changes, uuid changes and a drop below half
(`DropMin` 3 for the code's 10) all occur; a config for each kernel, a hysteria 1 config, one that does not validate and
one that is no specification at all. A node starts in one of three worlds: on a WebSocket with two panel edits,
each also pushed in every possible form; the same with one edit, which may bring hysteria 1, and one step with failing
kernel calls, in every combination; or over REST with one edit and two troubles (a failed request, a corrupted answer, a
lost connection, a renewal, a switch of the WebSocket), one attempt per poll. Channels of capacity one overflow with the
second message. Two edits are enough for one to be in flight in a pull while the other is pushed, and for a change to be
taken back. `machine_node`: two users, one config per kernel, two edits and one lost connection. Two edits put a second
event between an `Apply` and its `notify`, or between the first snapshot and the drain; there is one reader
goroutine, as in the code. Kernel failures, bad configs, renewals and corrupted polls are left to the runs of
`MCNode`, whose handlers are the same definitions; the theorem `MachineServed` covers every config, hysteria 1 included.

### Metering

- `Conservation`: every unit a connection moved is in exactly one place: booked, in a report, pending, not yet
  sampled, or lost with a kernel instance or the last report.
- `KeepsLedger`: the detailed metering implements `Ledger`: a unit is billed once, except when the answer to its
  report was lost, and is forgotten only when a kernel instance ends, is first compared with the one before, or the
  node ends.
- `AddressesKnown`: report and device ticker share one digest and one buffer, and whenever nothing is under way the panel
  has the addresses flushed last, in every overlap of reports and ticks and whatever was lost before that flush. Excepted
  is that these last addresses were lost themselves (a failed report, a dropped or discarded message) or that an
  older or half-read list arrived after them: in the code nothing then corrects the panel until the addresses change.
- `EventuallyBilled`, `AddressesArrive`: once traffic ends everything is booked; once connections settle the panel
  knows the addresses, with the same two exceptions.

*Bounds.* One user, both directions; three units of traffic with two troubles (a failed report, before or after it
was booked, a restart, a user no longer listed, a lost connection, clutter in the write channel), or three changes of
address with two troubles, or one of each; `WriteCap` 1 is full with one message. xray, since it reads only listed users' counters and
so has more ways to lose; sing-box's behaviour is the one in which everybody stays listed. Two troubles let a second
report fail while the first is restored; three changes of address let a flush be lost, a report and a tick overlap on the
next, and the third show that the panel recovers.

### Connections

- `CountsAreExact`: an address is counted once for each connection that entered from it and has not left; with
  xray as long as the user never connected without a limit (see section 4).
- `CellsNeverInvent`: the lock-free cells may lose addresses to a deletion that races with an addition, but never claim
  more connections than there are.
- `RefusalsAreJust`: xray refuses only while as many other addresses as the limit allows are connected.
- `BucketIsShared`: all connections of a user hold the current bucket or one deleted since.

*Bounds.* Three connections over two addresses, limit one or none: two addresses compete for one place, and two
connections of one address meet a third of the other. The loop changes the profile, restarts the kernel or the
panel's device view changes once or twice. Four cells and buckets are more than three connections can hold.

### The process

- `NodesAreSeparate`: services that run side by side belong to different nodes, and a directory that is derived, be
  it the node's or the instance's, is no other service's. The certificates of different instances, and of a node with a
  cert section of its own, are in a directory no other service writes to. Excepted are the other nodes of
  one instance, which share its certs directory and overwrite each other's files (section 4), the configuration directory
  of two entries of one instance that both override the kernel, and directories that a file names itself.
- `InstancesKeepDirs`: an instance that stays in a file of several keeps its directory wherever it is moved to, unless
  the file names it.
- `TakenSignalEnds`: whoever took a signal ends the process, in a later round too.
- `RestartsComplete`: a restart completes or the process ends, unless two services of one instance failed.
- `RunningIsReachable`: the shared WebSocket reaches each running service through its own mailbox and status channel,
  if two goroutines never rediscovered at once.
- `OneServicePerNode`: no node ever has two services that live at once, with the same proviso: `stopNode` gives up the
  handle before the service has ended.
- `NobodyLeftBehind`: when the orchestrator has returned, every service it started has ended, with the same proviso.
- `NodesFollowPanel`: in the end the machine has handles for the nodes the panel lists.

*Bounds.* Six scenarios: two edits among files that swap instances, name a directory, override a node's kernel, clash,
are torn, malformed, or turn the process into a machine; one edit with a signal and three failures; a machine whose panel changes its list, sends `sync.nodes`,
fails a node, or whose process gets a signal. Three service incarnations for two nodes: one can start while two are
being stopped. `raced` is a history variable that names the races the provisos exclude; both are reachable.

### Configurations and certificates

- `PairsMatch`: the certificate in memory and the one the kernel serves belong to the key beside them, whatever a
  crash, a failed write, two goroutines persisting at once or the operator left on disk.
- `ClientIsConfigured`: the ACME client that runs is the one for the configuration in force.
- `KernelServesMaterial`: a kernel that serves older material is about to hear of the newer, or the pull or reload
  that carried it failed.
- `XrayRunsItsConfig`: an xray that is up runs the lists a start with the service's configuration would give it; for
  sing-box, finding 5 says otherwise.
- `KernelsAgree`: a plain specification that both kernels accept sends every connection to what was made of the same
  outbound, and to exactly one, on both. `WholeNames` excepts a connection to a host whose name has a rule's domain for a
  mere part: there the kernels differ (section 4). How a kernel takes the key of a chain or the words of a raw rule is
  not compared: raw rules and local outbounds are assumed to be in a form the kernel reads.
- `InboundsAgree`: and once there is a certificate, both packages build an inbound for it, with the same protocol,
  security and transport.

`Plain` names what is carved out of both, each part because the kernels do differ there or because nothing checks it
(section 4): action words and outbound tags in capitals, outbounds that do not exist in raw rules and panel routes,
`geoip`, `geosite` and `dns` in panel routes, a trojan fallback to the loopback, hysteria other than 2, vmess with tls 2,
`h2` without settings, and a custom file that defines `direct` or `block` itself.

*Bounds.* Seven certificate configurations (all modes, two `xhttp` with different rules so that the kernel is switched
and xray reloaded, a mixed pair, an empty one), two domains, four pairs, two of them obtained by ACME; their `geoip` route
leaves the comparison of the kernels to the others: 144 pairs of custom rules, 60 combinations of a rule, a raw rule and a
panel route, and 288 inbounds, each sent to a new node; the probes are connections that meet one or two values: a host
whose name is a rule's domain, ends in it, or has it for a part, or any other single criterion; two values separate two
entries and their order. `NamesAssumption` says of the probes that a name is a part of itself. `reload_outbounds` changes
the server of an outbound and nothing else.

### Fairness

Go's select chooses at random among ready cases, tickers keep firing, HTTP requests time out: weak fairness of the
loop's cases, of the pull and report goroutines and of the writer. None for the environment, startup failures,
discovery, shutdown or the WebSocket, which may never connect. `UsersReachInbound` assumes that no connection lasts,
since `Run` does not poll while connected. `Supervisor`: weak fairness of every goroutine that is runnable, and strong
fairness of `StopAll`, the branch of a select on the cancelled context that competes with a ticker; none for
the debounce, the watcher and the signal channel.

**Deadlock** is not checked: a service that has stopped or failed to start stops for good, a process ends, and
budgets run out.

## 4. Findings

1. *A node that starts without users never starts its kernel.* `ensureRunning` looks at the stored users, and
   `applyUserUpdateWithDiagnostics` returns before storing the new ones (`service.go:1101-1130`), although
   line 431 logs that the kernel starts when users are available. The same happens after xray stopped on
   its last removed user.
2. *A config is lost when the rest of its poll fails.* `GetConfig` remembers the ETag at once
   (`client.go:253`), the retry gets 304. `FIXES.md:39` promises a retry.
3. *A uuid change of the only user stops an xray node.* `RemoveUsers` stops the kernel, and neither `AddUsers`
   nor the fallback starts it (`service.go:1169-1187`, `xray.go:369`). `FIXES.md` section 7.
4. *A switched kernel outlives its service.* `defer s.kernel.Stop()` (`service.go:300`) evaluates `s.kernel`
   at once; `ensureKernelType` later replaces it.
5. *A reload of sing-box leaves outbounds as they were.* It hands new rules to the router and recreates inbounds
   (`singbox.go:223`); an outbound the panel changed stays the old one, and `Reload` returns nil. `kernel.go:63` says
   the full config is re-generated and hot-swapped, and `service.go:1290` leaves it to the kernel to restart itself
   where needed; the comment at `singbox.go:191` lists outbounds among what stays alive. In the trace only an outbound's
   server changes.
6. *The backoff is not exponential.* `service.go:111` says so and `onFailure` doubles up to 8, but a trigger during a
   backoff consumes a skip and a pull runs only at zero (`service.go:749`), so each failure finds zero and sets one. The
   run shows a second failure that pauses for one poll again; `BackoffIsFlat` proves that no pause is ever longer.

Also visible in the models or in the code they were read from, with no document to hold against it, or none that
is definite enough:

*Nodes.* A pull result that is older than the events applied since moves users back (`service.go:855`). A resync
request stays pending for good when its pull was skipped (`service.go:563`). Polls do not update the mailbox's list, so
a delta that follows a poll is applied to the older list and brings its users back (`mailbox.go:92`). A list that
remove deltas emptied is drained and then ignored (`service.go:707`), so the removed user stays served. sing-box keeps
the inbound of the old protocol after a reload to another one (`singbox.go:293-300`). A boot without users skips
`applyRemoteOverrides`. DNS and ACME requests block the main loop. On sing-box a hysteria 1 inbound never gets new users:
no case of the switch (`singbox.go:549-599`) is its type, `UpdateUsers` reports success and replaces `s.users`, although
`kernel.go:77` says that it replaces the entire user set; a removed user stays served until the inbound is recreated. A
resync request or a status change that finds `wsStatusCh` full is lost (`panel.go:147`, `ws.go:146`), and the last status
the loop saw may be a connect although the connection is gone.

*Metering.* The loop's device ticker and the report goroutine share `aliveIPsBuf`, whose concurrent use can abort the
process. `RestoreAliveIPs` merges the buffer into itself, so addresses of a failed report are not sent again until
they change. A report without addresses omits the field, so the panel never hears that a user left over REST.
`calcAliveIPsHash` concatenates without separators. A kernel restart whose counter passes the old value before the
next sample undercounts. `pushAccessAsync` consumes the push backoff. The last report at shutdown takes no last sample
and is not restored.

*Connections.* The entry of a user in `unlimitedIPs` outlives the time without a limit, and `delConn` looks there
first: connections counted in `limitedIPs` after that are never released, although `dispatcher.go:167-169` speaks of a
release on close. A close between the decision and the write lock leaves a nil map that is then written (`:377`).
`GetConnectionState` ranges over the live table without the lock (`:307` speaks of a snapshot). Connections that
pass the read lock together pass the limit together, on both kernels. `GetLimiter` can store a bucket with a speed
read before `UpdateBuckets`. A cell is deleted by its address, so a counter somebody has just added to goes with
it. `FlushRecentAccess` loses the last bytes of a connection.

*The process.* `errCh` has one place per instance, so a second failing service of one instance blocks, and the
signal listener is gone by then. A SIGTERM during a reload is taken by the old round's goroutine, which ends whatever
round runs fifteen seconds later. A reload that was accepted can still end the process after the services stopped. A
change is dropped while another waits or while services stop. Overlapping rediscoveries unregister a successor's
mailbox, start it beside its predecessor, which has lost its handle but not its port, or start a node after `stopAll`
took its list. A node whose `Run` failed keeps its handle and is never
started again. Bindings are compared by the panel's spelling. The nodes of one instance share its certs
directory (`config.go:585` sets it before `ExpandNodes`, `:803`), so those that manage certificates overwrite each
other's `cert.pem` and `key.pem` (`cert.go:93-94`), unless they have a cert section of their own. Only the first instance's health port is used. Adding a second instance moves the directory of the first.

*Configurations.* Action words are validated without case and compiled with it. A custom file that defines `direct` or
`block` duplicates the default, although `config.go:40` says otherwise. A panel route with action `dns` and no value
goes to an undefined `dns-out`; panel outbounds are never validated; `geoip` and `geosite` become domain suffixes on
sing-box. Blank port strings pass validation. sing-box accepts hysteria2 in its list and builds no inbound for it, xray
likewise for hysteria 1; an `h2` transport without settings is renamed by xray only; a plain domain is the
whole name for sing-box (`singbox/config.go:290`) and any part of it for xray (`xray/config.go:727`, no `full:`), although
`docs-custom-routes.md:31` calls it an exact match. A chain is `proxy_tag` for sing-box and `proxySettings` for xray
(`singbox/config.go:136`, `xray/config.go:98`); whether the embedded sing-box accepts that key is outside `src/`. `self` reuses any pair it finds. A renewal that ends after its client was torn down may replace
the new material. Two goroutines persisting at once can leave a mixed pair, which the next load refuses. A failed
`Reconfigure` is not tried again.

## 5. What is proved

For all values of the constants that satisfy the named assumptions of the modules (finite sets of users, connections
and addresses, capacities at least one, functions of the right types, budgets of natural numbers):

| Theorem | States |
|---|---|
| `NodeProofs!TypeCorrect` | `Spec => []TypeOK` |
| `NodeProofs!KernelSuits` | `Spec => []KernelSuitsConfig` |
| `NodeProofs!BackoffIsFlat` | `Spec => [](pull.skip \in {0, 1})`, finding 6 for every trace |
| `AgreementProofs!MemoryServed` | `Spec => []MemoryIsServed` |
| `AgreementProofs!Collapse` | `Spec => CollapseOnlyByRemove` |
| `AgreementProofs!Rollback` | `Spec => RollbackKeepsAgreement` |
| `MachineProofs!MachineTypeCorrect` | `MachineSpec => []MachineTypeOK` |
| `MachineProofs!Wakeup` | `MachineSpec => []NoLostWakeup` |
| `MachineProofs!MachineServed` | `MachineSpec => []MemoryIsServed` |
| `MachineProofs!Settles` | `MachineSpec => []SettledIsCurrent` |
| `MeteringProofs!MeteringTypeCorrect` | `Spec => []TypeOK` |
| `MeteringProofs!TrafficIsConserved` | `Spec => []Conservation` |
| `MeteringProofs!MeteringKeepsLedger` | `Spec => KeepsLedger` (a refinement) |
| `MeteringProofs!AddressesAreKnown` | `Spec => []AddressesKnown` |
| `AdmissionProofs!AdmissionTypeCorrect` | `Spec => []TypeOK` |
| `AdmissionProofs!CountsStayExact` | `Spec => []CountsAreExact` |
| `AdmissionProofs!CellsClaimNoMore` | `Spec => []CellsNeverInvent` |
| `AdmissionProofs!OneBucketIsShared` | `Spec => []BucketIsShared` |
| `AdmissionProofs!OnlyJustRefusals` | `Spec => RefusalsAreJust` |
| `CertProofs!IntakeTypeCorrect` | `Spec => []TypeOK` |
| `CertProofs!PairsAlwaysMatch` | `Spec => []PairsMatch` |
| `CertProofs!ClientAlwaysConfigured` | `Spec => []ClientIsConfigured` |
| `CertProofs!MaterialReachesKernel` | `Spec => []KernelServesMaterial` |
| `CertProofs!XrayFollows` | `Spec => []XrayRunsItsConfig` |
| `RoutingProofs!SameWay` | `Spec => []KernelsAgree` |
| `RoutingProofs!SameInbound` | `Spec => []InboundsAgree` |
| `SupervisorProofs!SupervisorTypeCorrect` | `Spec => []TypeOK` |
| `SupervisorProofs!Reachable` | `Spec => []RunningIsReachable` |
| `SupervisorProofs!NoneLeftBehind` | `Spec => []NobodyLeftBehind` |
| `SupervisorProofs!OneService` | `Spec => []OneServicePerNode` |
| `SupervisorProofs!SeparateNodes` | `Spec => []NodesAreSeparate` |
| `SupervisorProofs!DirsAreKept` | `Spec => InstancesKeepDirs` |

**Nodes.** The argument has three layers. `NodeProofs` begins with what each kernel operation and each handler returns:
a well-typed kernel (`KernelOK`: a running one has a config of its own type) and a well-formed node (`NodeOK`:
the config suits the kernel, and none runs without a config). Then it shows that `IInv` is inductive:
`TypeOK`, `NodeOK` and the bound on the backoff. `TypeOK` alone is not inductive, since a handler's result is
well typed only when the config a running kernel needs is there; the backoff's bound needs that a pull
runs only from `skip = 0`. `AgreementProofs` adds `BootInv` (before startup nothing runs) and the
relation `Serving(k, c, t)` between a kernel and what it should serve. `MemoryServed` follows from a lemma per
handler for steps without failures (what `Serving` says of the inbound, it says of one that is not `Frozen`; of the
kernel's and the service's lists it says it of all); `Rollback` from `Effect`: on xray every call either brings the new
table or leaves the kernel as it was, and each handler restores the table that belongs to the kernel it ends
with. `Collapse` needs no invariant beyond types: it compares the guards of `rejectFetchedUsers` with every
way a handler installs a table, with cardinality lemmas for an added delta.

`MachineProofs` reuses `NodeOK` and the lemmas about handlers. Its invariant adds the mailbox's type, and what the
handlers rely on: `Initial`'s config is there at `start`, the mailbox's whenever `dirtyConfig` is set. `NoLostWakeup`
is inductive given types: the only step that leaves something in the mailbox without a token is `MuxApply`,
which leaves the reader at `notify`, and the only one that takes a token puts the loop at `drain`.
`MachineServed` adds that there is no kernel before the loop's `start`, and uses the handlers' lemmas of
`AgreementProofs`. `Settles` follows from `CurrentInv`. Its part `HeardOf` says of every user, as long as the
nothing has `strayed`, where the panel's opinion is to be found: in the last word about that user on the wire or, when
the wire is silent, in the mailbox, the snapshot being installed, or the node's list. It is proved user by user, since
a delta and the snapshot it overtakes speak of different users; `Places` ties the mailbox's flags to the loop's place.

**Metering.** `IInv` is `TypeOK`, `Samples` (a sample is never ahead of its counter, and `lastSeen` differs from it only
for counters not yet compared with the running instance), `Progress` (the program counters of the two reports, what
they carry and what was booked) and `Phases` (which reports exist in which phase of the service). `Conservation` is
inductive beside it: it is an equation between sums, and each action moves an amount from one side of it to the other or
between two places of one side; without `Samples` the difference `counter - seen` could be negative when a
kernel instance ends. The refinement shows that the initial state maps to `LedgerInit` and each action to the ledger's
step of its kind or to a stutter. `AddressesAreKnown` rests on `AddressInv`:
the buffer always has the digest's addresses; every report that is not outdated, and the last message of a queue that is
not, carries them; and if neither is under way (`Coming`) and nothing was missed, the panel has them. A flush makes
everything older outdated (`RefillAges`) and sends what is new on its way, so the invariant needs no exception for
overlaps; an arrival either brings the newest addresses or is outdated.

**Connections.** `IInv` is `TypeOK`, `Records` (what a connection at each place of its way has been counted as),
`CountsAreExact`, `Owners` (a cell belongs to one address, whoever holds it), `CellsBounded` and `BucketIsShared`. Each
step of a connection has an `Effect`: the counted table changes by exactly what the connection's own record changes by
(`RefsFollow`), and a cell is given up, or new and empty, or changes with the connections that will take themselves out of it
(`CellsFollow`). That one fact per action, and a lemma on the cardinality of a set of which one member changed, give every
conjunct. `CellsNeverInvent` alone is not inductive: a connection that is about to subtract from a cell that was replaced
meanwhile must not count for the new one, which is what `Committed` in `CellsBounded` says.

**Certificates.** `IInv` is `ManagerInv` (material is a pair or none, the client fits the configuration, what the two
goroutines have yet to write are pairs), `KernelInv` (the kernel's material is a pair or none) and `WordOnItsWay`, which
is `KernelServesMaterial` with the phases in which the kernel is being set up. What `buildConfig` makes of a
specification plays no part in it.

**Configurations.** `SameWay` compares two lists of entries. `Same(a, b, c)`, that a connection c is taken by an entry
of a just when it is by one of b, and sent to the same place, is kept by concatenation (`SameConcat`) and so by
flattening (`FlattenSame`), by induction over the parts. Thus it suffices to compare the packages rule by rule:
`Sends(list, match, out)` says what one rule's entries do together, however the kernel groups its criteria. The list's
decision is the name of an outbound that exists (`OutsAvailable`, from the validation and `Plain`), and of the built outbounds
exactly one goes by each such name (`EachTagOnce`: validation compares the number of tags with that of
outbounds), and the two built lists have the same tags and sources in the same places (`OutboundsMade`, `Ingredients`).
The criteria differ where a domain is read as a whole or as a part; `GivenSame` shows that they are met by the same
connections among those of `WholeNames`. Induction over the numbers is not by the library's theorem but by least elements: a set of naturals that is not
empty has one (`LeastElement`), so one that has 0 and successors has all (`Induction`). The lists of rules and outbounds
may be any finite ones (`RulesAssumption` gives their types). `SameInbound` compares the builders' cases for the five
protocols both packages list.

`XrayFollows` rests on `XrayLists`: the lists of an xray are those of the specification and material it was started
with, which `Reload` compares.

**The process.** `InPlace` is what holds of an orchestrator whose goroutines have not raced. `Core`: what `startNode`
and `stopNode` have in hand fits the handles (`InHand`), a handle names a service of its node (`Handles`), a service that
lives has the handle or is being waited for (`Kept`), and the shared WebSocket's tables name the services that run
(`Routed`). `Course`: one goroutine rediscovers (`OneAtATime`), `stopAll` waits for every service (`AllListed`), and
there is none before the first node or after the last (`NoneAlive`). `Reachable` and `NoneLeftBehind` follow, and
`OneService`: of two services of a node each would have the handle or be the one waited for. `Process` is
`Rooted` (every root in use, on its way or in the channel was loaded from some file; the round's services are its root's)
and `Counted` (types; `errCh` never holds more errors than instances). `SeparateNodes` and `DirsAreKept` then are facts
about any accepted file: `HasCerts` that a certs directory is named by the file or derived from the section's own, and
`HasPlace` says that a section's directory is named by the file, or the base of the only
section, or that of its ID among several.

Only model-checked: liveness (`UsersReachInbound`, `EventuallyBilled`, `AddressesArrive`, `TakenSignalEnds`,
`RestartsComplete`, `NodesFollowPanel`), which is out of the prover's reach, as is whether fairness can be met. The
violations of section 4 are counterexamples TLC finds.

## 6. Not modelled

- *DNS providers*: adapters to external libraries, a name in a table each. Which names are known is a constant.
- *Logging, access log, monitoring, geo data*: diagnostics and downloads, on whose results nothing else decides.
- *`xbctl`*: an interactive tool that edits files and calls `systemctl`, outside the running node.
- *Decoding* of the panel's weakly typed JSON, the syntax of single values in rules and outbounds, each protocol's own
  inbound fields, and users in the built configuration: data that no modelled decision depends on.
- *sing-box's shadow-tls helpers*, *the status reports of a machine* and *the panel's view of a node's capabilities*.
- *The reconnect delay* of the WebSocket client, and a reader goroutine that outlives its connection.
- *Token buckets* themselves (`golang.org/x/time/rate`), `certmagic`, and the embedded kernels are external; the models
  take from them what the code in `src/` relies on.
- *Standalone nodes* run the same service without a panel; they have no module of their own.
- The modules are not composed into one: a node, its metering, its connections and its certificates share only the loop,
  and each module has the loop's steps that matter to it.
