------------------------------ MODULE Metering ------------------------------
(***************************************************************************)
(* From the kernel's counters to the panel's books (internal/tracker, the  *)
(* report handlers of internal/service, Report in internal/panel/client.go *)
(* and the write side of internal/panel/ws.go).                            *)
(*                                                                         *)
(* The loop samples the kernel (Tick) and starts reports; a report is sent *)
(* by a goroutine of its own, and the last one by the loop itself while it *)
(* shuts down.  Source addresses travel with reports and, apart from that, *)
(* over the WebSocket; both ways share one buffer and one digest.          *)
(***************************************************************************)
EXTENDS Integers, Sequences

CONSTANTS
  Counters,     \* one direction of one user
  Users, UserOf,
  Views,        \* sets of source addresses in use, as a whole
  NoView,       \* nobody is connected
  DigestOf,     \* calcAliveIPsHash
  IsXray,       \* the kernel: xray reads only listed users' counters
  WriteCap,     \* capacity of writeCh
  Budgets       \* how often the environment may act, by kind: the choices

Reporters == {"async", "sync"}   \* pushReportAsync's goroutine, pushReportSync
BudgetKinds == {"use", "view", "trouble"}

ASSUME UserAssumption == UserOf \in [Counters -> Users]
ASSUME ViewAssumption == NoView \in Views /\ "other" \notin Views /\ DOMAIN DigestOf = Views
ASSUME LimitAssumption == WriteCap \in Nat \ {0} /\ IsXray \in BOOLEAN
ASSUME BudgetAssumption == Budgets \subseteq [BudgetKinds -> Nat]

Amounts == [Counters -> Nat]
Digests == {DigestOf[v] : v \in Views}
Zero    == [c \in Counters |-> 0]
Plus(f, g) == [c \in Counters |-> f[c] + g[c]]

VARIABLES
  kernel,    \* running, its listed users, addresses now in use, instances so far
  counter,   \* cumulative traffic of the running instance
  lastSeen, pending,   \* the tracker
  alive,     \* its snapshot, lastAliveIPsHash and aliveIPsBuf
  report,    \* the reports under way
  service,   \* phase of the loop, and pushBackoff
  link,      \* the WebSocket: Run's place, and writeCh
  panel,     \* the addresses the panel was last told
  billed,    \* the traffic it has booked
  seen,      \* history: how much of `counter` went into pending, or was missed
  used, rebilled, lost,   \* history: moved; owed again though booked; never counted
  missed,    \* history: the addresses last flushed were lost, or older ones came after them
  budget

vars == <<kernel, counter, lastSeen, pending, alive, report, service, link, panel,
          billed, seen, used, rebilled, lost, missed, budget>>
traffic == <<counter, lastSeen, pending, billed, seen, used, rebilled, lost>>

Spend(kind) == budget[kind] > 0 /\ budget' = [budget EXCEPT ![kind] = @ - 1]

Running(phases) == service.phase \in phases

Idle == [pc |-> "idle", traffic |-> Zero, booked |-> FALSE, carries |-> FALSE,
         view |-> NoView, outdated |-> FALSE]

Init ==
  /\ kernel = [up |-> TRUE, listed |-> Users, view |-> NoView, epoch |-> 0]
  /\ counter = Zero /\ lastSeen = Zero /\ pending = Zero /\ billed = Zero
  /\ seen = Zero /\ used = Zero /\ rebilled = Zero /\ lost = Zero
  /\ alive = [live |-> NoView, digest |-> DigestOf[NoView], buf |-> NoView]
  /\ report = [r \in Reporters |-> Idle]
  /\ service = [phase |-> "run", skip |-> 0]
  /\ link = [pc |-> "down", queue |-> <<>>, outdated |-> FALSE]
  /\ panel = NoView
  /\ missed = FALSE
  /\ budget \in Budgets

----------------------------------------------------------------------------
(* The kernel.                                                             *)

\* A connection moves a unit of traffic.
Use(c) ==
  /\ kernel.up /\ Spend("use")
  /\ counter' = [counter EXCEPT ![c] = @ + 1]
  /\ used' = [used EXCEPT ![c] = @ + 1]
  /\ UNCHANGED <<kernel, lastSeen, pending, alive, report, service, link, panel, billed,
                 seen, rebilled, lost, missed>>

\* A connection of an instance that was replaced: nobody reads its counter.
UseDraining(c) ==
  /\ kernel.epoch > 0 /\ Spend("use")
  /\ used' = [used EXCEPT ![c] = @ + 1]
  /\ lost' = [lost EXCEPT ![c] = @ + 1]
  /\ UNCHANGED <<kernel, counter, lastSeen, pending, alive, report, service, link, panel,
                 billed, seen, rebilled, missed>>

Connections(v) ==
  /\ kernel.up /\ v # kernel.view /\ Spend("view")
  /\ kernel' = [kernel EXCEPT !.view = v]
  /\ UNCHANGED <<traffic, alive, report, service, link, panel, missed>>

\* Start builds a new instance with counters of its own, Stop ends the one there is.
RenewKernel(up) ==
  /\ Running({"run"}) /\ (kernel.up \/ up) /\ Spend("trouble")
  /\ kernel' = [kernel EXCEPT !.up = up, !.view = NoView, !.epoch = @ + 1]
  /\ counter' = Zero /\ seen' = Zero
  /\ lost' = [c \in Counters |-> lost[c] + (counter[c] - seen[c])]
  /\ UNCHANGED <<lastSeen, pending, alive, report, service, link, panel, billed, used,
                 rebilled, missed>>

EditUsers(listed) ==
  /\ Running({"run"}) /\ listed # kernel.listed /\ Spend("trouble")
  /\ kernel' = [kernel EXCEPT !.listed = listed]
  /\ UNCHANGED <<traffic, alive, report, service, link, panel, missed>>

\* A user whose counters are all zero is not in GetUserTraffic's answer.
Moved(c) == \E d \in Counters : UserOf[d] = UserOf[c] /\ counter[d] > 0

\* aggregateStats goes through the users of the last Start or user update.
Aggregated(c) == IsXray => UserOf[c] \in kernel.listed

Sampled == {c \in Counters : Moved(c) /\ Aggregated(c)}

----------------------------------------------------------------------------
(* The tracker.                                                            *)

\* A bug: the guard against counters that start again is missing.
UnguardedDelta(c) == counter[c] - lastSeen[c]

\* The traffic since the last sample; a counter that went back started from zero.
Delta(c) == IF counter[c] < lastSeen[c] THEN counter[c] ELSE counter[c] - lastSeen[c]

\* Process
Tick ==
  LET Sample(f, g) == [c \in Counters |-> IF c \in Sampled THEN g[c] ELSE f[c]]
  IN /\ Running({"run"}) /\ kernel.up
     /\ pending' = Sample(pending, [c \in Counters |-> pending[c] + Delta(c)])
     /\ lastSeen' = Sample(lastSeen, counter)
     /\ seen' = Sample(seen, counter)
     /\ lost' = Sample(lost, [c \in Counters |-> lost[c] + ((counter[c] - seen[c]) - Delta(c))])
     /\ alive' = [alive EXCEPT !.live = kernel.view]
     /\ UNCHANGED <<kernel, counter, report, service, link, panel, billed, used, rebilled,
                    missed, budget>>

\* FlushAliveIPs returns nil when the digest is the one of the last flush.
ViewChanged == DigestOf[alive.live] # alive.digest

\* A bug: the digest is not remembered.
ForgetfulFlush == [alive EXCEPT !.buf = alive.live]

\* The buffer is refilled: a report that reads it just then reads while it is written, and
\* one that has read it before carries older addresses.
FlushAlive == IF ViewChanged
                THEN [live |-> alive.live, digest |-> DigestOf[alive.live], buf |-> alive.live]
                ELSE alive

Disturbed == IF ViewChanged
               THEN [r \in Reporters |-> [report[r] EXCEPT !.outdated =
                                            @ \/ report[r].pc \in {"reading", "post"}]]
               ELSE report

\* Reports and messages whose addresses the panel has not seen.
Carrying(r) == report[r].carries /\ report[r].pc \in {"spawned", "reading", "post"}
Waiting     == {i \in DOMAIN link.queue : link.queue[i] # "other"}
InFlight    == (\E r \in Reporters : Carrying(r)) \/ Waiting # {}

\* The addresses last flushed are among them; no message of the channel is newer than its last.
Coming == \/ \E r \in Reporters : Carrying(r) /\ ~report[r].outdated
          \/ Waiting # {} /\ ~link.outdated

\* What happens here keeps the panel from the addresses last flushed, if no other report or
\* message brings them.
Astray(happens) == missed' = (missed \/ (happens /\ ~Coming'))

----------------------------------------------------------------------------
(* Reports.                                                                *)

\* A bug: FlushTraffic does not reset what it returns.
BeginKeepingPending(r) ==
  /\ report' = [Disturbed EXCEPT ![r] = [Idle EXCEPT !.pc = "spawned", !.traffic = pending,
                                                     !.carries = ViewChanged]]
  /\ pending' = pending
  /\ alive' = FlushAlive
  /\ link' = [link EXCEPT !.outdated = @ \/ ViewChanged]
  /\ missed' = (missed /\ ~ViewChanged)

\* Traffic and addresses leave the tracker for a report.
BeginReport(r) ==
  /\ report' = [Disturbed EXCEPT ![r] = [Idle EXCEPT !.pc = "spawned", !.traffic = pending,
                                                     !.carries = ViewChanged]]
  /\ pending' = Zero
  /\ alive' = FlushAlive
  /\ link' = [link EXCEPT !.outdated = @ \/ ViewChanged]
  /\ missed' = (missed /\ ~ViewChanged)

\* pushReportAsync: one at a time, and not while the backoff asks for patience.
ReportTick ==
  /\ Running({"run"}) /\ report["async"].pc = "idle"
  /\ IF service.skip > 0
       THEN /\ service' = [service EXCEPT !.skip = @ - 1]
            /\ UNCHANGED <<report, pending, alive, link, missed>>
       ELSE BeginReport("async") /\ UNCHANGED service
  /\ UNCHANGED <<kernel, counter, lastSeen, panel, billed, seen, used, rebilled, lost, budget>>

\* pushAccessAsync uses up the same backoff; what it sends is nothing of this module's.
AccessTick ==
  /\ Running({"run"}) /\ service.skip > 0
  /\ service' = [service EXCEPT !.skip = @ - 1]
  /\ UNCHANGED <<kernel, traffic, alive, report, link, panel, missed, budget>>

\* Shutdown: a last report, without a last sample.
Shutdown ==
  /\ Running({"run"}) /\ Spend("trouble")
  /\ service' = [service EXCEPT !.phase = "final"]
  /\ BeginReport("sync")
  /\ UNCHANGED <<kernel, counter, lastSeen, panel, billed, seen, used, rebilled, lost>>

Alive(r) == service.phase # "crashed" /\ report[r].pc # "idle"

At(r, pc) == Alive(r) /\ report[r].pc = pc

\* The addresses are read from the shared buffer: first the range begins, later it ends.
ReadBuffer(r) ==
  /\ At(r, "spawned")
  /\ report' = [report EXCEPT ![r].pc = IF report[r].carries THEN "reading" ELSE "post"]
  /\ UNCHANGED <<kernel, traffic, alive, service, link, panel, missed, budget>>

\* A read that raced with a refill may have seen anything.
BufferRead(r) ==
  /\ At(r, "reading")
  /\ \E v \in IF report[r].outdated THEN Views ELSE {alive.buf} :
       report' = [report EXCEPT ![r].pc = "post", ![r].view = v]
  /\ UNCHANGED <<kernel, traffic, alive, service, link, panel, missed, budget>>

\* The runtime aborts the process when it notices the race.
MapFault(r) ==
  /\ At(r, "reading") /\ report[r].outdated
  /\ service' = [service EXCEPT !.phase = "crashed"]
  /\ UNCHANGED <<kernel, traffic, alive, report, link, panel, missed, budget>>

\* The panel books the report.  An empty list of addresses is left out of the payload; a list
\* that is not empty replaces what the panel knew, be it newer or not.
Arrive(r) ==
  LET told == report[r].carries /\ report[r].view # NoView
  IN /\ At(r, "post")
     /\ report' = [report EXCEPT ![r].pc = "arrived", ![r].booked = TRUE]
     /\ billed' = Plus(billed, report[r].traffic)
     /\ panel' = IF told THEN report[r].view ELSE panel
     /\ UNCHANGED <<kernel, counter, lastSeen, pending, alive, service, link, seen, used,
                    rebilled, lost, budget>>
     /\ Astray(IF told THEN report[r].outdated ELSE Carrying(r) /\ ~report[r].outdated)

\* The request or its answer is lost.
Fail(r) ==
  /\ Alive(r) /\ report[r].pc \in {"post", "arrived"} /\ Spend("trouble")
  /\ report' = [report EXCEPT ![r].pc = "failed"]
  /\ UNCHANGED <<kernel, traffic, alive, service, link, panel>>
  /\ Astray(Carrying(r) /\ ~report[r].outdated)

\* The goroutine after an answer.
Succeed ==
  /\ At("async", "arrived")
  /\ report' = [report EXCEPT !["async"] = [Idle EXCEPT !.pc = "done"]]
  /\ service' = [service EXCEPT !.skip = 0]
  /\ UNCHANGED <<kernel, traffic, alive, link, panel, missed, budget>>

OnFailure(skip) == IF skip = 0 THEN 1 ELSE IF skip < 8 THEN 2 * skip ELSE skip

\* A bug: a failed report's traffic replaces what came in meanwhile.
RestoreOver ==
  /\ At("async", "failed")
  /\ pending' = report["async"].traffic
  /\ rebilled' = IF report["async"].booked THEN Plus(rebilled, report["async"].traffic)
                                           ELSE rebilled
  /\ report' = [report EXCEPT !["async"] = [Idle EXCEPT !.pc = "done"]]
  /\ service' = [service EXCEPT !.skip = OnFailure(service.skip)]
  /\ UNCHANGED <<kernel, counter, lastSeen, alive, link, panel, billed, seen, used, lost,
                 missed, budget>>

\* A bug: a failed report's traffic is dropped.
RestoreNothing ==
  /\ At("async", "failed")
  /\ pending' = pending
  /\ rebilled' = rebilled
  /\ report' = [report EXCEPT !["async"] = [Idle EXCEPT !.pc = "done"]]
  /\ service' = [service EXCEPT !.skip = OnFailure(service.skip)]
  /\ UNCHANGED <<kernel, counter, lastSeen, alive, link, panel, billed, seen, used, lost,
                 missed, budget>>

\* The goroutine after a failure.  RestoreAliveIPs merges the buffer into itself.
Restore ==
  /\ At("async", "failed")
  /\ pending' = Plus(pending, report["async"].traffic)
  /\ rebilled' = IF report["async"].booked THEN Plus(rebilled, report["async"].traffic)
                                           ELSE rebilled
  /\ report' = [report EXCEPT !["async"] = [Idle EXCEPT !.pc = "done"]]
  /\ service' = [service EXCEPT !.skip = OnFailure(service.skip)]
  /\ UNCHANGED <<kernel, counter, lastSeen, alive, link, panel, billed, seen, used, lost,
                 missed, budget>>

\* pushActive is released.
Release ==
  /\ At("async", "done")
  /\ report' = [report EXCEPT !["async"] = Idle]
  /\ UNCHANGED <<kernel, traffic, alive, service, link, panel, missed, budget>>

\* The last report is not restored, whatever became of it.
FinishShutdown ==
  /\ Alive("sync") /\ report["sync"].pc \in {"arrived", "failed"}
  /\ report' = [report EXCEPT !["sync"] = Idle]
  /\ service' = [service EXCEPT !.phase = "ended"]
  /\ lost' = IF report["sync"].booked THEN lost ELSE Plus(lost, report["sync"].traffic)
  /\ UNCHANGED <<kernel, counter, lastSeen, pending, alive, link, panel, billed, seen, used,
                 rebilled, missed, budget>>

----------------------------------------------------------------------------
(* Addresses over the WebSocket.                                           *)

\* connect: the panel accepted the node (connected is set), then the write channel exists.
LinkOpens ==
  /\ \/ link.pc = "down" /\ Spend("trouble") /\ link' = [link EXCEPT !.pc = "auth"]
     \/ link.pc = "auth" /\ link' = [link EXCEPT !.pc = "up"] /\ UNCHANGED budget
  /\ UNCHANGED <<kernel, traffic, alive, report, service, panel, missed>>

\* A read or a write failed: the channel is dropped with what waits in it, then Run clears
\* connected.
LinkCloses ==
  /\ \/ link.pc = "up" /\ link' = [link EXCEPT !.pc = "closing", !.queue = <<>>]
     \/ link.pc = "closing" /\ link' = [link EXCEPT !.pc = "down"]
  /\ UNCHANGED <<kernel, traffic, alive, report, service, panel, budget>>
  /\ Astray(Waiting # {} /\ ~link.outdated)

\* A send finds the channel there, with room; otherwise the message is dropped.
Fits == link.pc = "up" /\ Len(link.queue) < WriteCap

\* A pong or a status push takes a place in the channel, if there is one.
Clutter ==
  /\ Fits
  /\ link' = [link EXCEPT !.queue = Append(@, "other")]
  /\ UNCHANGED <<kernel, traffic, alive, report, service, panel, missed, budget>>

WriteMessage ==
  /\ link.pc = "up" /\ link.queue # <<>>
  /\ link' = [link EXCEPT !.queue = Tail(@)]
  /\ panel' = IF Head(link.queue) = "other" THEN panel ELSE Head(link.queue)
  /\ UNCHANGED <<kernel, traffic, alive, report, service, budget>>
  /\ Astray(Head(link.queue) # "other" /\ link.outdated)

\* The message with the addresses last flushed, if the channel takes it.
Send == link' = [link EXCEPT !.queue = IF Fits THEN Append(@, alive.live) ELSE @,
                             !.outdated = ~Fits]

\* A bug: the tracker is flushed before the connection is looked at.
DeviceTickUnconnected ==
  /\ Running({"run"}) /\ ViewChanged
  /\ alive' = FlushAlive
  /\ report' = Disturbed
  /\ Send
  /\ missed' = (link.pc # "down" /\ ~Coming')
  /\ UNCHANGED <<kernel, traffic, service, panel, budget>>

\* sendDeviceBatch: flushes only while connected; what the channel cannot take is dropped.
DeviceTick ==
  /\ Running({"run"}) /\ link.pc # "down" /\ ViewChanged
  /\ alive' = FlushAlive
  /\ report' = Disturbed
  /\ Send
  /\ missed' = ~Coming'
  /\ UNCHANGED <<kernel, traffic, service, panel, budget>>

----------------------------------------------------------------------------
World == \/ \E c \in Counters : Use(c) \/ UseDraining(c)
         \/ \E v \in Views : Connections(v)
         \/ \E up \in BOOLEAN : RenewKernel(up)
         \/ \E listed \in SUBSET Users : EditUsers(listed)

ReportStep(r) == ReadBuffer(r) \/ BufferRead(r) \/ MapFault(r) \/ Arrive(r) \/ Fail(r)

Next == \/ World
        \/ Tick \/ ReportTick \/ AccessTick \/ DeviceTick
        \/ Shutdown \/ FinishShutdown
        \/ \E r \in Reporters : ReportStep(r)
        \/ Succeed \/ Restore \/ Release
        \/ LinkOpens \/ LinkCloses \/ Clutter \/ WriteMessage

\* Tickers fire, and requests end; the panel's failures are bounded by the budget.
Fairness ==
  /\ WF_vars(Tick) /\ WF_vars(ReportTick)
  /\ WF_vars(ReadBuffer("async")) /\ WF_vars(BufferRead("async")) /\ WF_vars(Arrive("async"))
  /\ WF_vars(Succeed) /\ WF_vars(Restore) /\ WF_vars(Release) /\ WF_vars(WriteMessage)

Spec == Init /\ [][Next]_vars
FairSpec == Spec /\ Fairness

----------------------------------------------------------------------------
(* Properties.                                                             *)

ReportType == [pc : {"idle", "spawned", "reading", "post", "arrived", "failed", "done"},
               traffic : Amounts, booked : BOOLEAN, carries : BOOLEAN, view : Views,
               outdated : BOOLEAN]

\* Types; the write channel stays within its capacity; one backoff step is all there ever is.
TypeOK ==
  /\ kernel \in [up : BOOLEAN, listed : SUBSET Users, view : Views, epoch : Nat]
  /\ counter \in Amounts /\ lastSeen \in Amounts /\ pending \in Amounts
  /\ billed \in Amounts /\ seen \in Amounts /\ used \in Amounts
  /\ rebilled \in Amounts /\ lost \in Amounts
  /\ alive \in [live : Views, digest : Digests, buf : Views]
  /\ report \in [Reporters -> ReportType]
  /\ service \in [phase : {"run", "final", "ended", "crashed"}, skip : 0..1]
  /\ link \in [pc : {"down", "auth", "up", "closing"}, queue : Seq(Views \cup {"other"}),
               outdated : BOOLEAN]
  /\ Len(link.queue) <= WriteCap
  /\ panel \in Views
  /\ missed \in BOOLEAN
  /\ budget \in [BudgetKinds -> Nat]

\* Traffic in a report that has not been booked, and in one whose answer is awaited.
Unbooked(r, c) == IF report[r].booked THEN 0 ELSE report[r].traffic[c]
Unanswered(r, c) == IF report[r].booked THEN report[r].traffic[c] ELSE 0

\* Every unit a connection moved is in exactly one place: booked, in a report, pending, not yet
\* sampled, or lost with a kernel instance or the last report (tracker.go, pushReportAsync).
Conservation ==
  \A c \in Counters :
    used[c] + rebilled[c] = billed[c] + Unbooked("async", c) + Unbooked("sync", c) + pending[c]
                            + (counter[c] - seen[c]) + lost[c]

\* Once everything under way has arrived, the panel's addresses are those the tracker flushed
\* last, however reports and device ticks, which share one digest and one buffer, overlapped
\* and whatever was lost before that flush: unless the flushed addresses themselves were lost,
\* or the panel heard older or half read ones after them (FlushAliveIPs, sendDeviceBatch).
AddressesKnown == ~missed /\ ~InFlight => DigestOf[panel] = alive.digest

\* The promise of module Ledger: units leave the node's debt by being booked, and are
\* missed only when a kernel instance ends or is first compared with the one before.
L == INSTANCE Ledger WITH
       owed   <- [c \in Counters |-> pending[c] + (counter[c] - seen[c])
                                     + Unbooked("async", c) + Unbooked("sync", c)],
       unsure <- [c \in Counters |-> Unanswered("async", c) + Unanswered("sync", c)],
       dated  <- {c \in Counters : lastSeen[c] # seen[c]},
       epoch  <- kernel.epoch,
       closed <- service.phase \in {"ended", "crashed"}
KeepsLedger == L!LedgerSpec

\* Once traffic ends, a running node gets all of it booked, whatever reports failed, except
\* what xray counts for users it no longer lists.
EventuallyBilled ==
  <>[](\/ ~Running({"run"})
       \/ IsXray /\ kernel.listed # Users
       \/ \A c \in Counters : billed[c] + lost[c] >= used[c])

\* Once connections settle, the panel learns the addresses, unless the last flush of them was
\* lost or overtaken as above; that earlier ones were is no excuse.
AddressesArrive ==
  <>[](~Running({"run"}) \/ ~kernel.up \/ missed \/ DigestOf[panel] = DigestOf[kernel.view])
=============================================================================
