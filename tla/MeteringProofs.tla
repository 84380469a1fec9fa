--------------------------- MODULE MeteringProofs ---------------------------
(***************************************************************************)
(* Theorems about Metering: no unit of traffic is counted twice or nowhere *)
(* without a reason, and the node keeps the promise of module Ledger, for  *)
(* any users, counters and budgets.                                        *)
(***************************************************************************)
EXTENDS Metering, TLAPS

Pcs == {"idle", "spawned", "reading", "post", "arrived", "failed", "done"}

\* A counter was read at its last sample or not at all, or the instance is a new one.
Samples ==
  \A c \in Counters : seen[c] <= counter[c] /\ (lastSeen[c] = seen[c] \/ seen[c] = 0)

\* What a report has of its progress: an idle one carries nothing, and it is booked
\* between its arrival and the answer.
Progress ==
  \A r \in Reporters :
    /\ report[r].pc \in {"idle", "done"} => report[r].traffic = Zero
    /\ report[r].pc \in {"spawned", "reading", "post"} => ~report[r].booked
    /\ report[r].pc = "arrived" => report[r].booked

\* Only a service that shuts down has a last report, and one report is under way only
\* while nothing is skipped.
Phases ==
  /\ report["sync"].pc # "idle" => service.phase \in {"final", "crashed"}
  /\ report["async"].pc \notin {"idle", "done"} => service.skip = 0

IInv == TypeOK /\ Samples /\ Progress /\ Phases

----------------------------------------------------------------------------
(* Reports.                                                                *)

LEMMA ZeroType == Zero \in Amounts
BY DEF Zero, Amounts

LEMMA PlusType ==
  ASSUME NEW f \in Amounts, NEW g \in Amounts
  PROVE  Plus(f, g) \in Amounts /\ \A c \in Counters : Plus(f, g)[c] = f[c] + g[c]
BY DEF Plus, Amounts

LEMMA RaiseType ==
  ASSUME NEW f \in Amounts, NEW c \in Counters
  PROVE  /\ [f EXCEPT ![c] = @ + 1] \in Amounts
         /\ \A d \in Counters : /\ f[d] \in Nat
                               /\ [f EXCEPT ![c] = @ + 1][d] = IF d = c THEN f[d] + 1 ELSE f[d]
BY DEF Amounts

LEMMA IdleType == Idle \in ReportType
BY ZeroType, ViewAssumption DEF Idle, ReportType

\* A step of one report: its other fields and the other reports stay as they are.
LEMMA SetReport ==
  ASSUME report \in [Reporters -> ReportType], NEW r \in Reporters, NEW pc \in Pcs,
         NEW booked \in BOOLEAN, NEW view \in Views,
         report' = [report EXCEPT ![r].pc = pc, ![r].booked = booked, ![r].view = view]
  PROVE  /\ report' \in [Reporters -> ReportType]
         /\ report'[r].pc = pc /\ report'[r].booked = booked /\ report'[r].view = view
         /\ report'[r].traffic = report[r].traffic /\ report'[r].carries = report[r].carries
         /\ report'[r].outdated = report[r].outdated
         /\ \A q \in Reporters \ {r} : report'[q] = report[q]
BY ZenonT(30) DEF ReportType, Pcs

LEMMA SetPc ==
  ASSUME report \in [Reporters -> ReportType], NEW r \in Reporters, NEW pc \in Pcs,
         report' = [report EXCEPT ![r].pc = pc]
  PROVE  /\ report' \in [Reporters -> ReportType]
         /\ report'[r].pc = pc /\ report'[r].booked = report[r].booked
         /\ report'[r].traffic = report[r].traffic /\ report'[r].carries = report[r].carries
         /\ report'[r].outdated = report[r].outdated /\ report'[r].view = report[r].view
         /\ \A q \in Reporters \ {r} : report'[q] = report[q]
BY DEF ReportType, Pcs

\* A refilled buffer changes nothing of a report but whether its reading outdated.
LEMMA DisturbedType ==
  ASSUME report \in [Reporters -> ReportType]
  PROVE  /\ Disturbed \in [Reporters -> ReportType]
         /\ \A r \in Reporters :
              /\ Disturbed[r].pc = report[r].pc /\ Disturbed[r].booked = report[r].booked
              /\ Disturbed[r].traffic = report[r].traffic
              /\ Disturbed[r].carries = report[r].carries /\ Disturbed[r].view = report[r].view
              /\ Disturbed[r].outdated =
                   (report[r].outdated \/ (ViewChanged /\ report[r].pc \in {"reading", "post"}))
<1>1. CASE ViewChanged
  BY <1>1 DEF Disturbed, ReportType
<1>2. CASE ~ViewChanged
  BY <1>2 DEF Disturbed, ReportType
<1> QED BY <1>1, <1>2

LEMMA FlushType ==
  ASSUME TypeOK
  PROVE  FlushAlive \in [live : Views, digest : Digests, buf : Views]
BY DEF TypeOK, FlushAlive, Digests

\* What TypeOK says of the WebSocket, but for the length of the queue.
LinkType == [pc : {"down", "auth", "up", "closing"}, queue : Seq(Views \cup {"other"}),
             outdated : BOOLEAN]

\* Traffic and addresses leave the tracker together for one report.
LEMMA BeginReportOK ==
  ASSUME TypeOK, NEW r \in Reporters, BeginReport(r)
  PROVE  /\ report' \in [Reporters -> ReportType]
         /\ report'[r].pc = "spawned" /\ report'[r].traffic = pending /\ ~report'[r].booked
         /\ \A q \in Reporters \ {r} :
              /\ report'[q].pc = report[q].pc /\ report'[q].booked = report[q].booked
              /\ report'[q].traffic = report[q].traffic
         /\ pending' = Zero
         /\ alive' \in [live : Views, digest : Digests, buf : Views]
         /\ link' \in LinkType /\ link'.queue = link.queue
         /\ missed' \in BOOLEAN
<1> DEFINE new == [Idle EXCEPT !.pc = "spawned", !.traffic = pending, !.carries = ViewChanged]
<1>1. /\ new \in ReportType /\ new.pc = "spawned" /\ new.traffic = pending /\ ~new.booked
  BY IdleType DEF TypeOK, Idle, ReportType, ViewChanged
<1> HIDE DEF new
<1>2. report' = [Disturbed EXCEPT ![r] = new]
  BY DEF BeginReport, new
<1>3. report' \in [Reporters -> ReportType] /\ report'[r] = new
      /\ \A q \in Reporters \ {r} : report'[q] = Disturbed[q]
  BY <1>1, <1>2, DisturbedType DEF TypeOK
<1>4. link' \in LinkType /\ link'.queue = link.queue /\ missed' \in BOOLEAN
  BY DEF TypeOK, LinkType, BeginReport
<1> QED BY <1>1, <1>3, <1>4, DisturbedType, FlushType DEF TypeOK, BeginReport

LEMMA AstrayType ==
  ASSUME TypeOK, NEW happens, Astray(happens)
  PROVE  missed' \in BOOLEAN
BY DEF TypeOK, Astray

LEMMA SpendType ==
  ASSUME TypeOK, NEW kind \in BudgetKinds, Spend(kind)
  PROVE  budget' \in [BudgetKinds -> Nat]
BY DEF TypeOK, Spend

----------------------------------------------------------------------------
(* The invariant is inductive.                                             *)

LEMMA MeteringInit == Init => IInv
<1> SUFFICES ASSUME Init PROVE IInv
  OBVIOUS
<1>1. report \in [Reporters -> ReportType]
  BY IdleType DEF Init
<1>2. link.queue \in Seq(Views \cup {"other"}) /\ Len(link.queue) <= WriteCap
  BY LimitAssumption DEF Init
<1>a. /\ kernel \in [up : BOOLEAN, listed : SUBSET Users, view : Views, epoch : Nat]
      /\ service \in [phase : {"run", "final", "ended", "crashed"}, skip : 0..1]
  BY ViewAssumption DEF Init
<1>b. alive \in [live : Views, digest : Digests, buf : Views]
  BY ViewAssumption DEF Init, Digests
<1>c. link \in LinkType
  BY <1>2 DEF Init, LinkType
<1>d. budget \in [BudgetKinds -> Nat]
  BY BudgetAssumption DEF Init
<1>3. TypeOK
  BY <1>1, <1>2, <1>a, <1>b, <1>c, <1>d, ZeroType, ViewAssumption
  DEF Init, TypeOK, LinkType
<1>4. Samples /\ Progress /\ Phases
  BY DEF Init, Samples, Progress, Phases, Reporters, Idle, Zero
<1> QED BY <1>3, <1>4 DEF IInv

LEMMA WorldStep ==
  ASSUME IInv, World
  PROVE  IInv'
<1> USE DEF IInv
<1>1. ASSUME NEW c \in Counters, Use(c) PROVE IInv'
  <2>1. counter' \in Amounts /\ used' \in Amounts
    BY <1>1, RaiseType DEF Use, TypeOK
  <2>2. budget' \in [BudgetKinds -> Nat]
    BY <1>1, SpendType DEF Use, BudgetKinds
  <2>3. TypeOK'
    BY <1>1, <2>1, <2>2 DEF Use, TypeOK
  <2>4. \A d \in Counters : counter[d] <= counter'[d] /\ counter[d] \in Nat /\ seen[d] \in Nat
                            /\ counter'[d] \in Nat
    <3>1. counter' = [counter EXCEPT ![c] = @ + 1] /\ seen \in Amounts /\ counter \in Amounts
      BY <1>1 DEF Use, TypeOK
    <3>2. \A d \in Counters : /\ counter[d] \in Nat
                              /\ counter'[d] = IF d = c THEN counter[d] + 1 ELSE counter[d]
      BY <3>1, RaiseType
    <3>3. \A d \in Counters : seen[d] \in Nat
      BY <3>1 DEF Amounts
    <3> QED BY <3>2, <3>3
  <2>5. Samples'
    BY <1>1, <2>4 DEF Use, Samples
  <2> QED BY <1>1, <2>3, <2>5 DEF Use, Progress, Phases
<1>2. ASSUME NEW c \in Counters, UseDraining(c) PROVE IInv'
  <2>1. used' \in Amounts /\ lost' \in Amounts
    BY <1>2, RaiseType DEF UseDraining, TypeOK
  <2>2. budget' \in [BudgetKinds -> Nat]
    BY <1>2, SpendType DEF UseDraining, BudgetKinds
  <2>3. TypeOK'
    BY <1>2, <2>1, <2>2 DEF UseDraining, TypeOK
  <2> QED BY <1>2, <2>3 DEF UseDraining, Samples, Progress, Phases
<1>3. ASSUME NEW v \in Views, Connections(v) PROVE IInv'
  <2>1. TypeOK'
    BY <1>3, SpendType DEF Connections, TypeOK, BudgetKinds, traffic
  <2> QED BY <1>3, <2>1 DEF Connections, Samples, Progress, Phases, traffic
<1>4. ASSUME NEW up \in BOOLEAN, RenewKernel(up) PROVE IInv'
  <2>1. lost' \in Amounts
    BY <1>4 DEF RenewKernel, TypeOK, Amounts, Samples
  <2>2. kernel' \in [up : BOOLEAN, listed : SUBSET Users, view : Views, epoch : Nat]
    <3>1. kernel' = [up |-> up, listed |-> kernel.listed, view |-> NoView,
                     epoch |-> kernel.epoch + 1]
      BY <1>4 DEF RenewKernel, TypeOK
    <3> QED BY <3>1, ViewAssumption DEF TypeOK
  <2>3. budget' \in [BudgetKinds -> Nat]
    BY <1>4, SpendType DEF RenewKernel, BudgetKinds
  <2>4. TypeOK'
    BY <1>4, <2>1, <2>2, <2>3, ZeroType DEF RenewKernel, TypeOK
  <2>5. Samples'
    BY <1>4 DEF RenewKernel, Samples, Zero
  <2> QED BY <1>4, <2>4, <2>5 DEF RenewKernel, Progress, Phases
<1>5. ASSUME NEW listed \in SUBSET Users, EditUsers(listed) PROVE IInv'
  <2>1. TypeOK'
    BY <1>5, SpendType DEF EditUsers, TypeOK, BudgetKinds, traffic
  <2> QED BY <1>5, <2>1 DEF EditUsers, Samples, Progress, Phases, traffic
<1> QED BY <1>1, <1>2, <1>3, <1>4, <1>5 DEF World

\* What a sample does to one counter: nothing, or everything since the last sample is
\* pending now or missed for good.
LEMMA TickEffect ==
  ASSUME TypeOK, Samples, Tick, NEW c \in Counters
  PROVE  /\ pending'[c] \in Nat /\ lastSeen'[c] \in Nat /\ seen'[c] \in Nat /\ lost'[c] \in Nat
         /\ \/ /\ pending'[c] = pending[c] /\ lastSeen'[c] = lastSeen[c]
               /\ seen'[c] = seen[c] /\ lost'[c] = lost[c]
            \/ /\ lastSeen'[c] = counter[c] /\ seen'[c] = counter[c]
               /\ pending[c] <= pending'[c] /\ lost[c] <= lost'[c]
               /\ (pending'[c] - pending[c]) + (lost'[c] - lost[c]) = counter[c] - seen[c]
               /\ lost[c] < lost'[c] => lastSeen[c] # seen[c]
<1>1. /\ counter[c] \in Nat /\ lastSeen[c] \in Nat /\ seen[c] \in Nat /\ pending[c] \in Nat
      /\ lost[c] \in Nat
  BY DEF TypeOK, Amounts
<1>2. CASE c \notin Sampled
  <2>1. /\ pending'[c] = pending[c] /\ lastSeen'[c] = lastSeen[c]
        /\ seen'[c] = seen[c] /\ lost'[c] = lost[c]
    BY <1>2 DEF Tick
  <2> QED BY <1>1, <2>1
<1>3. CASE c \in Sampled
  <2>1. /\ pending'[c] = pending[c] + Delta(c) /\ lastSeen'[c] = counter[c]
        /\ seen'[c] = counter[c] /\ lost'[c] = lost[c] + ((counter[c] - seen[c]) - Delta(c))
    BY <1>3 DEF Tick
  <2>2. seen[c] <= counter[c] /\ (lastSeen[c] = seen[c] \/ seen[c] = 0)
    BY DEF Samples
  <2>3. /\ Delta(c) \in Nat /\ Delta(c) <= counter[c] - seen[c]
        /\ Delta(c) # counter[c] - seen[c] => lastSeen[c] # seen[c]
    BY <1>1, <2>2 DEF Delta
  <2> QED BY <1>1, <2>1, <2>2, <2>3
<1> QED BY <1>2, <1>3

LEMMA TickStep ==
  ASSUME IInv, Tick
  PROVE  IInv'
<1>1. TypeOK /\ Samples
  BY DEF IInv
<1>2. \A c \in Counters : /\ pending'[c] \in Nat /\ lastSeen'[c] \in Nat /\ seen'[c] \in Nat
                          /\ lost'[c] \in Nat
  BY <1>1, TickEffect
<1>3. /\ DOMAIN pending' = Counters /\ DOMAIN lastSeen' = Counters
      /\ DOMAIN seen' = Counters /\ DOMAIN lost' = Counters
      /\ pending' = [c \in Counters |-> pending'[c]] /\ lastSeen' = [c \in Counters |-> lastSeen'[c]]
      /\ seen' = [c \in Counters |-> seen'[c]] /\ lost' = [c \in Counters |-> lost'[c]]
  BY DEF Tick
<1>4. pending' \in Amounts /\ lastSeen' \in Amounts /\ seen' \in Amounts /\ lost' \in Amounts
  BY <1>2, <1>3 DEF Amounts
<1>5. alive' \in [live : Views, digest : Digests, buf : Views]
  BY <1>1 DEF Tick, TypeOK
<1>6. TypeOK'
  BY <1>1, <1>4, <1>5 DEF Tick, TypeOK
<1>7. ASSUME NEW c \in Counters
      PROVE  seen'[c] <= counter'[c] /\ (lastSeen'[c] = seen'[c] \/ seen'[c] = 0)
  <2>1. counter'[c] = counter[c] /\ counter[c] \in Nat
    BY <1>1 DEF Tick, TypeOK, Amounts
  <2> QED BY <1>1, <2>1, TickEffect DEF Samples
<1> QED BY <1>6, <1>7 DEF IInv, Samples, Progress, Phases, Tick

LEMMA ReportersAre == Reporters = {"async", "sync"}
BY DEF Reporters

LEMMA StartReportStep ==
  ASSUME IInv, ReportTick \/ Shutdown
  PROVE  IInv'
<1> USE DEF IInv
<1>1. CASE ReportTick /\ service.skip > 0
  <2>1. service' = [phase |-> service.phase, skip |-> service.skip - 1]
        /\ service.skip \in 0 .. 1
    BY <1>1 DEF ReportTick, TypeOK
  <2>2. TypeOK'
    BY <1>1, <2>1 DEF ReportTick, TypeOK
  <2> QED BY <1>1, <2>1, <2>2 DEF ReportTick, Samples, Progress, Phases
<1>2. CASE ReportTick /\ ~(service.skip > 0)
  <2>1. BeginReport("async") /\ UNCHANGED service /\ service.skip = 0 /\ service.phase = "run"
    BY <1>2 DEF ReportTick, TypeOK, Running
  <2>2. TypeOK'
    BY <1>2, <2>1, BeginReportOK, ReportersAre, ZeroType DEF ReportTick, TypeOK, LinkType
  <2>3. Progress'
    BY <2>1, BeginReportOK, ReportersAre DEF Progress
  <2>4. Phases'
    BY <2>1, BeginReportOK, ReportersAre DEF Phases
  <2> QED BY <1>2, <2>2, <2>3, <2>4 DEF ReportTick, Samples
<1>3. CASE Shutdown
  <2>1. BeginReport("sync") /\ service' = [phase |-> "final", skip |-> service.skip]
    BY <1>3 DEF Shutdown, TypeOK
  <2>2. budget' \in [BudgetKinds -> Nat]
    BY <1>3, SpendType DEF Shutdown, BudgetKinds
  <2>3. TypeOK'
    BY <1>3, <2>1, <2>2, BeginReportOK, ReportersAre, ZeroType, ZenonT(30)
    DEF Shutdown, TypeOK, LinkType
  <2>4. Progress'
    BY <2>1, BeginReportOK, ReportersAre DEF Progress
  <2>5. Phases'
    BY <2>1, BeginReportOK, ReportersAre DEF Phases
  <2> QED BY <1>3, <2>3, <2>4, <2>5 DEF Shutdown, Samples
<1> QED BY <1>1, <1>2, <1>3

LEMMA ReportStepStep ==
  ASSUME IInv, NEW r \in Reporters, ReportStep(r)
  PROVE  IInv'
<1> USE DEF IInv
<1>1. report \in [Reporters -> ReportType]
  BY DEF TypeOK
<1>2. CASE ReadBuffer(r)
  <2>1. PICK pc \in {"reading", "post"} : report' = [report EXCEPT ![r].pc = pc]
    BY <1>2 DEF ReadBuffer
  <2>2. pc \in Pcs
    BY DEF Pcs
  <2>3. report[r].pc = "spawned"
    BY <1>2 DEF ReadBuffer, At
  <2>4. TypeOK'
    BY <1>1, <1>2, <2>1, <2>2, SetPc DEF ReadBuffer, TypeOK, traffic
  <2>5. Progress'
    BY <1>1, <2>1, <2>2, <2>3, SetPc DEF Progress
  <2>6. Phases'
    BY <1>1, <1>2, <2>1, <2>2, <2>3, SetPc, ReportersAre DEF Phases, ReadBuffer
  <2> QED BY <1>2, <2>4, <2>5, <2>6 DEF ReadBuffer, Samples, traffic
<1>3. CASE BufferRead(r)
  <2>1. PICK v \in Views : report' = [report EXCEPT ![r].pc = "post", ![r].view = v]
    BY <1>3 DEF BufferRead, TypeOK
  <2>2. report[r].pc = "reading"
    BY <1>3 DEF BufferRead, At
  <2>3. /\ report' \in [Reporters -> ReportType]
        /\ report'[r].pc = "post" /\ report'[r].booked = report[r].booked
        /\ report'[r].traffic = report[r].traffic
        /\ \A q \in Reporters \ {r} : report'[q] = report[q]
    BY <1>1, <2>1 DEF ReportType
  <2>4. missed' \in BOOLEAN
    BY <1>3 DEF BufferRead, TypeOK
  <2>5. TypeOK'
    BY <1>3, <2>3, <2>4 DEF BufferRead, TypeOK, traffic
  <2>6. Progress'
    BY <2>2, <2>3 DEF Progress
  <2>7. Phases'
    BY <1>3, <2>2, <2>3, ReportersAre DEF Phases, BufferRead
  <2> QED BY <1>3, <2>5, <2>6, <2>7 DEF BufferRead, Samples, traffic
<1>4. CASE MapFault(r)
  <2>1. service' = [phase |-> "crashed", skip |-> service.skip]
    BY <1>4 DEF MapFault, TypeOK
  <2>2. TypeOK'
    BY <1>4, <2>1 DEF MapFault, TypeOK, traffic
  <2> QED BY <1>4, <2>1, <2>2 DEF MapFault, Samples, Progress, Phases, traffic
<1>5. CASE Arrive(r)
  <2>1. report' = [report EXCEPT ![r].pc = "arrived", ![r].booked = TRUE]
        /\ report[r].pc = "post"
    BY <1>5 DEF Arrive, At
  <2>2. /\ report' \in [Reporters -> ReportType]
        /\ report'[r].pc = "arrived" /\ report'[r].booked
        /\ \A q \in Reporters \ {r} : report'[q] = report[q]
    BY <1>1, <2>1, ZenonT(30) DEF ReportType
  <2>3. billed' \in Amounts
    BY <1>1, <1>5, PlusType DEF Arrive, TypeOK, ReportType
  <2>4. panel' \in Views /\ missed' \in BOOLEAN
    <3>1. missed \in BOOLEAN /\ panel \in Views /\ report[r].view \in Views
      BY <1>1 DEF TypeOK, ReportType
    <3>2. PICK happens : missed' = (missed \/ (happens /\ ~Coming'))
      BY <1>5 DEF Arrive, Astray
    <3>3. missed' \in BOOLEAN
      BY <3>1, <3>2
    <3> QED BY <1>5, <3>1, <3>3 DEF Arrive
  <2>5. TypeOK'
    BY <1>5, <2>2, <2>3, <2>4 DEF Arrive, TypeOK
  <2>6. Progress'
    BY <2>2 DEF Progress
  <2>7. Phases'
    BY <1>5, <2>1, <2>2, ReportersAre DEF Phases, Arrive
  <2> QED BY <1>5, <2>5, <2>6, <2>7 DEF Arrive, Samples
<1>6. CASE Fail(r)
  <2>1. report' = [report EXCEPT ![r].pc = "failed"] /\ report[r].pc \in {"post", "arrived"}
    BY <1>6 DEF Fail
  <2>2. "failed" \in Pcs
    BY DEF Pcs
  <2>3. budget' \in [BudgetKinds -> Nat] /\ missed' \in BOOLEAN
    BY <1>6, SpendType, AstrayType DEF Fail, BudgetKinds
  <2>4. TypeOK'
    BY <1>1, <1>6, <2>1, <2>2, <2>3, SetPc DEF Fail, TypeOK, traffic
  <2>5. Progress'
    BY <1>1, <2>1, <2>2, SetPc DEF Progress
  <2>6. Phases'
    BY <1>1, <1>6, <2>1, <2>2, SetPc, ReportersAre DEF Phases, Fail
  <2> QED BY <1>6, <2>4, <2>5, <2>6 DEF Fail, Samples, traffic
<1> QED BY <1>2, <1>3, <1>4, <1>5, <1>6 DEF ReportStep

LEMMA DoneType ==
  /\ [Idle EXCEPT !.pc = "done"] \in ReportType
  /\ [Idle EXCEPT !.pc = "done"].pc = "done" /\ [Idle EXCEPT !.pc = "done"].traffic = Zero
  /\ [Idle EXCEPT !.pc = "done"].booked = FALSE
BY ZeroType, ViewAssumption DEF Idle, ReportType

\* A report that is over, and the others as they were.
LEMMA Replaced ==
  ASSUME report \in [Reporters -> ReportType], NEW r \in Reporters, NEW new \in ReportType,
         report' = [report EXCEPT ![r] = new]
  PROVE  /\ report' \in [Reporters -> ReportType] /\ report'[r] = new
         /\ \A q \in Reporters \ {r} : report'[q] = report[q]
OBVIOUS

LEMMA EndReportStep ==
  ASSUME IInv, Succeed \/ Restore \/ Release \/ FinishShutdown
  PROVE  IInv'
<1> USE DEF IInv
<1>1. report \in [Reporters -> ReportType]
  BY DEF TypeOK
<1> DEFINE done == [Idle EXCEPT !.pc = "done"]
<1>2. done \in ReportType /\ done.pc = "done" /\ done.traffic = Zero /\ done.booked = FALSE
  BY DoneType
<1>3. Idle.pc = "idle" /\ Idle.traffic = Zero /\ Idle.booked = FALSE
  BY DEF Idle
<1> HIDE DEF done
<1>4. CASE Succeed
  <2>1. report' = [report EXCEPT !["async"] = done]
        /\ service' = [phase |-> service.phase, skip |-> 0]
    BY <1>4 DEF Succeed, done, TypeOK
  <2>2. /\ report' \in [Reporters -> ReportType] /\ report'["async"] = done
        /\ report'["sync"] = report["sync"]
    BY <1>1, <1>2, <2>1, Replaced, ReportersAre
  <2>a. service' \in [phase : {"run", "final", "ended", "crashed"}, skip : 0..1]
    BY <2>1 DEF TypeOK
  <2>3. TypeOK'
    BY <1>4, <2>2, <2>a DEF Succeed, TypeOK, traffic
  <2>4. Progress' /\ Phases'
    BY <1>2, <2>1, <2>2, ReportersAre DEF Progress, Phases
  <2> QED BY <1>4, <2>3, <2>4 DEF Succeed, Samples, traffic
<1>5. CASE Restore
  <2>1. report["async"].pc = "failed" /\ service.skip = 0
    BY <1>5 DEF Restore, At, Phases
  <2>2. report' = [report EXCEPT !["async"] = done]
        /\ service' = [phase |-> service.phase, skip |-> 1]
    BY <1>5, <2>1 DEF Restore, done, TypeOK, OnFailure
  <2>3. /\ report' \in [Reporters -> ReportType] /\ report'["async"] = done
        /\ report'["sync"] = report["sync"]
    BY <1>1, <1>2, <2>2, Replaced, ReportersAre
  <2>4. report["async"].traffic \in Amounts /\ pending \in Amounts /\ rebilled \in Amounts
    BY <1>1, ReportersAre DEF TypeOK, ReportType
  <2>5. pending' \in Amounts /\ rebilled' \in Amounts
    BY <1>5, <2>4, PlusType DEF Restore
  <2>6. TypeOK'
    BY <1>5, <2>2, <2>3, <2>5 DEF Restore, TypeOK
  <2>7. Progress' /\ Phases'
    BY <1>2, <2>2, <2>3, ReportersAre DEF Progress, Phases
  <2> QED BY <1>5, <2>6, <2>7 DEF Restore, Samples
<1>6. CASE Release
  <2>1. report' = [report EXCEPT !["async"] = Idle]
    BY <1>6 DEF Release
  <2>2. /\ report' \in [Reporters -> ReportType] /\ report'["async"] = Idle
        /\ report'["sync"] = report["sync"]
    BY <1>1, <2>1, IdleType, Replaced, ReportersAre
  <2>3. TypeOK'
    BY <1>6, <2>2 DEF Release, TypeOK, traffic
  <2>4. Progress' /\ Phases'
    BY <1>3, <1>6, <2>2, ReportersAre DEF Progress, Phases, Release
  <2> QED BY <1>6, <2>3, <2>4 DEF Release, Samples, traffic
<1>7. CASE FinishShutdown
  <2>1. report' = [report EXCEPT !["sync"] = Idle]
        /\ service' = [phase |-> "ended", skip |-> service.skip]
    BY <1>7 DEF FinishShutdown, TypeOK
  <2>2. /\ report' \in [Reporters -> ReportType] /\ report'["sync"] = Idle
        /\ report'["async"] = report["async"]
    BY <1>1, <2>1, IdleType, Replaced, ReportersAre
  <2>3. report["sync"].traffic \in Amounts /\ lost \in Amounts
    BY <1>1, ReportersAre DEF TypeOK, ReportType
  <2>4. lost' \in Amounts
    BY <1>7, <2>3, PlusType DEF FinishShutdown
  <2>5. TypeOK'
    BY <1>7, <2>1, <2>2, <2>4 DEF FinishShutdown, TypeOK
  <2>6. Progress' /\ Phases'
    BY <1>3, <2>1, <2>2, ReportersAre DEF Progress, Phases
  <2> QED BY <1>7, <2>5, <2>6 DEF FinishShutdown, Samples
<1> QED BY <1>4, <1>5, <1>6, <1>7

LEMMA SetQueue ==
  ASSUME link \in LinkType, NEW q \in Seq(Views \cup {"other"})
  PROVE  /\ [link EXCEPT !.queue = q] = [pc |-> link.pc, queue |-> q, outdated |-> link.outdated]
         /\ [link EXCEPT !.queue = q] \in LinkType
<1> DEFINE Q == Seq(Views \cup {"other"})
<1>1. link \in [pc : {"down", "auth", "up", "closing"}, queue : Q, outdated : BOOLEAN]
  BY DEF LinkType
<1>2. q \in Q
  OBVIOUS
<1>3. LinkType = [pc : {"down", "auth", "up", "closing"}, queue : Q, outdated : BOOLEAN]
  BY DEF LinkType
<1> HIDE DEF Q
<1> QED BY <1>1, <1>2, <1>3

LEMMA AppendFits ==
  ASSUME TypeOK, Fits, NEW x \in Views \cup {"other"}
  PROVE  /\ [link EXCEPT !.queue = Append(@, x)] \in LinkType
         /\ Len([link EXCEPT !.queue = Append(@, x)].queue) <= WriteCap
<1>1. link \in LinkType /\ link.queue \in Seq(Views \cup {"other"}) /\ Len(link.queue) < WriteCap
  BY DEF TypeOK, Fits, LinkType
<1>2. Append(link.queue, x) \in Seq(Views \cup {"other"})
      /\ Len(Append(link.queue, x)) = Len(link.queue) + 1
  BY <1>1
<1> DEFINE s == Append(link.queue, x)
<1>3. s \in Seq(Views \cup {"other"}) /\ Len(s) = Len(link.queue) + 1
  BY <1>2
<1>4. Len(link.queue) \in Nat
  BY <1>1
<1> HIDE DEF s
<1>5. [link EXCEPT !.queue = s] \in LinkType /\ [link EXCEPT !.queue = s].queue = s
  BY <1>1, <1>3, SetQueue
<1>6. Len([link EXCEPT !.queue = s].queue) <= WriteCap
  BY <1>1, <1>3, <1>4, <1>5, LimitAssumption
<1> QED BY <1>5, <1>6 DEF s

LEMMA LinkStep ==
  ASSUME IInv, LinkOpens \/ LinkCloses \/ Clutter \/ WriteMessage \/ DeviceTick \/ AccessTick
  PROVE  IInv'
<1> USE DEF IInv
<1>1. CASE LinkOpens
  <2>1. \E pc \in {"auth", "up"} :
          link' = [pc |-> pc, queue |-> link.queue, outdated |-> link.outdated]
    BY <1>1 DEF LinkOpens, TypeOK
  <2>2. budget' \in [BudgetKinds -> Nat]
    BY <1>1, SpendType DEF LinkOpens, BudgetKinds, TypeOK
  <2>3. TypeOK'
    BY <1>1, <2>1, <2>2 DEF LinkOpens, TypeOK, traffic
  <2> QED BY <1>1, <2>3 DEF LinkOpens, Samples, Progress, Phases, traffic
<1>2. CASE LinkCloses
  <2>1. \/ link' = [pc |-> "closing", queue |-> <<>>, outdated |-> link.outdated]
        \/ link' = [pc |-> "down", queue |-> link.queue, outdated |-> link.outdated]
    BY <1>2 DEF LinkCloses, TypeOK
  <2>2. link' \in LinkType /\ Len(link'.queue) <= WriteCap
    <3>1. CASE link' = [pc |-> "closing", queue |-> <<>>, outdated |-> link.outdated]
      BY <3>1, LimitAssumption DEF TypeOK, LinkType
    <3>2. CASE link' = [pc |-> "down", queue |-> link.queue, outdated |-> link.outdated]
      BY <3>2 DEF TypeOK, LinkType
    <3> QED BY <2>1, <3>1, <3>2
  <2>3. TypeOK'
    BY <1>2, <2>2, AstrayType DEF LinkCloses, TypeOK, LinkType, traffic
  <2> QED BY <1>2, <2>3 DEF LinkCloses, Samples, Progress, Phases, traffic
<1>3. CASE Clutter
  <2>1. TypeOK'
    BY <1>3, AppendFits DEF Clutter, TypeOK, LinkType, traffic
  <2> QED BY <1>3, <2>1 DEF Clutter, Samples, Progress, Phases, traffic
<1>4. CASE WriteMessage
  <2>1. link' = [pc |-> link.pc, queue |-> Tail(link.queue), outdated |-> link.outdated]
    BY <1>4 DEF WriteMessage, TypeOK
  <2>2. link.queue \in Seq(Views \cup {"other"}) /\ link.queue # <<>>
    BY <1>4 DEF WriteMessage, TypeOK
  <2>3. /\ Head(link.queue) \in Views \cup {"other"}
        /\ Tail(link.queue) \in Seq(Views \cup {"other"})
        /\ Len(Tail(link.queue)) = Len(link.queue) - 1
    BY <2>2
  <2>4. panel' \in Views
    BY <1>4, <2>3 DEF WriteMessage, TypeOK
  <2>5. Len(link'.queue) <= WriteCap
    BY <2>1, <2>3, LimitAssumption DEF TypeOK
  <2>6. TypeOK'
    BY <1>4, <2>1, <2>3, <2>4, <2>5, AstrayType DEF WriteMessage, TypeOK, traffic
  <2> QED BY <1>4, <2>6 DEF WriteMessage, Samples, Progress, Phases, traffic
<1>5. CASE DeviceTick
  <2>1. /\ alive' = FlushAlive /\ report' = Disturbed
        /\ Send /\ missed' \in BOOLEAN
    BY <1>5 DEF DeviceTick
  <2>2. link' \in LinkType /\ Len(link'.queue) <= WriteCap
    <3>1. alive.live \in Views /\ link \in LinkType /\ Len(link.queue) <= WriteCap
      BY DEF TypeOK, LinkType
    <3>2. CASE Fits
      <4>1. link' = [[link EXCEPT !.queue = Append(@, alive.live)] EXCEPT !.outdated = FALSE]
        BY <2>1, <3>2 DEF Send, TypeOK
      <4>2. /\ [link EXCEPT !.queue = Append(@, alive.live)] \in LinkType
            /\ Len([link EXCEPT !.queue = Append(@, alive.live)].queue) <= WriteCap
        BY <3>1, <3>2, AppendFits
      <4> QED BY <4>1, <4>2 DEF LinkType
    <3>3. CASE ~Fits
      BY <2>1, <3>1, <3>3 DEF Send, LinkType
    <3> QED BY <3>2, <3>3
  <2>3. TypeOK'
    BY <1>5, <2>1, <2>2, FlushType, DisturbedType DEF DeviceTick, TypeOK, LinkType, traffic
  <2>4. Progress' /\ Phases'
    BY <1>5, <2>1, DisturbedType, ReportersAre DEF DeviceTick, Progress, Phases, TypeOK
  <2> QED BY <1>5, <2>3, <2>4 DEF DeviceTick, Samples, traffic
<1>6. CASE AccessTick
  <2>1. service' = [phase |-> service.phase, skip |-> service.skip - 1] /\ service.skip > 0
        /\ service.skip \in 0 .. 1
    BY <1>6 DEF AccessTick, TypeOK
  <2>2. TypeOK'
    BY <1>6, <2>1 DEF AccessTick, TypeOK, traffic
  <2> QED BY <1>6, <2>1, <2>2 DEF AccessTick, Samples, Progress, Phases, traffic
<1> QED BY <1>1, <1>2, <1>3, <1>4, <1>5, <1>6

LEMMA MeteringStep == IInv /\ [Next]_vars => IInv'
<1>1. ASSUME IInv, UNCHANGED vars PROVE IInv'
  BY <1>1 DEF vars, IInv, TypeOK, Samples, Progress, Phases
<1> QED BY <1>1, WorldStep, TickStep, StartReportStep, ReportStepStep, EndReportStep, LinkStep
        DEF Next

\* The samples, the reports under way and the phases of every reachable state fit together
\* as the inductive invariant says (Process, FlushTraffic, pushReportAsync, pushReportSync).
THEOREM MeteringInvariant == Spec => []IInv
BY MeteringInit, MeteringStep, PTL DEF Spec

\* Every variable has its type, and the write channel stays within its capacity.
THEOREM MeteringTypeCorrect == Spec => []TypeOK
BY MeteringInvariant, PTL DEF IInv

----------------------------------------------------------------------------
(* What every step does to the traffic of one counter.                     *)

Owed(c)   == pending[c] + (counter[c] - seen[c]) + Unbooked("async", c) + Unbooked("sync", c)
Unsure(c) == Unanswered("async", c) + Unanswered("sync", c)

LEMMA Numbers ==
  ASSUME IInv, NEW c \in Counters
  PROVE  /\ counter[c] \in Nat /\ seen[c] \in Nat /\ seen[c] <= counter[c] /\ pending[c] \in Nat
         /\ lastSeen[c] \in Nat /\ billed[c] \in Nat /\ used[c] \in Nat /\ rebilled[c] \in Nat
         /\ lost[c] \in Nat
         /\ \A r \in Reporters : /\ report[r].traffic[c] \in Nat /\ report[r].booked \in BOOLEAN
                                 /\ Unbooked(r, c) \in Nat /\ Unanswered(r, c) \in Nat
         /\ Owed(c) \in Nat /\ Unsure(c) \in Nat
<1>1. /\ counter[c] \in Nat /\ seen[c] \in Nat /\ seen[c] <= counter[c] /\ pending[c] \in Nat
      /\ lastSeen[c] \in Nat /\ billed[c] \in Nat /\ used[c] \in Nat /\ rebilled[c] \in Nat
      /\ lost[c] \in Nat
  BY DEF IInv, TypeOK, Samples, Amounts
<1>2. ASSUME NEW r \in Reporters
      PROVE  /\ report[r].traffic[c] \in Nat /\ report[r].booked \in BOOLEAN
             /\ Unbooked(r, c) \in Nat /\ Unanswered(r, c) \in Nat
  BY DEF IInv, TypeOK, ReportType, Amounts, Unbooked, Unanswered
<1>3. Owed(c) \in Nat /\ Unsure(c) \in Nat
  BY <1>1, <1>2, ReportersAre DEF Owed, Unsure
<1> QED BY <1>1, <1>2, <1>3

\* A step on the counters, the tracker and the reports that nobody's traffic notices.
Still ==
  \A c \in Counters :
    /\ Owed(c)' = Owed(c) /\ Unsure(c)' = Unsure(c) /\ billed'[c] = billed[c]
    /\ used'[c] = used[c] /\ rebilled'[c] = rebilled[c] /\ lost'[c] = lost[c]

\* A report whose traffic and booking a step leaves alone.
Kept(r) == report'[r].traffic = report[r].traffic /\ report'[r].booked = report[r].booked

LEMMA KeptStill ==
  ASSUME UNCHANGED traffic, \A r \in Reporters : Kept(r)
  PROVE  Still
BY ReportersAre DEF Still, Kept, Owed, Unsure, Unbooked, Unanswered, traffic

LEMMA QuietStep ==
  ASSUME IInv,
         \/ \E v \in Views : Connections(v)
         \/ \E listed \in SUBSET Users : EditUsers(listed)
         \/ ReportTick /\ service.skip > 0
         \/ AccessTick \/ DeviceTick \/ LinkOpens \/ LinkCloses \/ Clutter \/ WriteMessage
         \/ \E r \in Reporters : ReadBuffer(r) \/ BufferRead(r) \/ MapFault(r) \/ Fail(r)
  PROVE  UNCHANGED traffic /\ kernel'.epoch = kernel.epoch /\ Still
<1>1. report \in [Reporters -> ReportType]
  BY DEF IInv, TypeOK
<1>2. ASSUME NEW r \in Reporters, ReadBuffer(r) \/ BufferRead(r) \/ MapFault(r) \/ Fail(r)
      PROVE  UNCHANGED traffic /\ kernel'.epoch = kernel.epoch /\ \A q \in Reporters : Kept(q)
  <2>1. CASE ReadBuffer(r)
    BY <1>1, <2>1 DEF ReadBuffer, Kept, ReportType
  <2>2. CASE BufferRead(r)
    BY <1>1, <2>2 DEF BufferRead, Kept, ReportType
  <2>3. CASE MapFault(r)
    BY <2>3 DEF MapFault, Kept
  <2>4. CASE Fail(r)
    BY <1>1, <2>4 DEF Fail, Kept, ReportType
  <2> QED BY <1>2, <2>1, <2>2, <2>3, <2>4
<1>3. ASSUME NEW v \in Views, Connections(v)
      PROVE  UNCHANGED traffic /\ kernel'.epoch = kernel.epoch /\ \A q \in Reporters : Kept(q)
  BY <1>3 DEF Connections, Kept, IInv, TypeOK
<1>4. ASSUME NEW listed \in SUBSET Users, EditUsers(listed)
      PROVE  UNCHANGED traffic /\ kernel'.epoch = kernel.epoch /\ \A q \in Reporters : Kept(q)
  BY <1>4 DEF EditUsers, Kept, IInv, TypeOK
<1>5. ASSUME ReportTick /\ service.skip > 0
      PROVE  UNCHANGED traffic /\ kernel'.epoch = kernel.epoch /\ \A q \in Reporters : Kept(q)
  BY <1>5 DEF ReportTick, Kept, traffic
<1>6. ASSUME DeviceTick
      PROVE  UNCHANGED traffic /\ kernel'.epoch = kernel.epoch /\ \A q \in Reporters : Kept(q)
  BY <1>1, <1>6, DisturbedType DEF DeviceTick, Kept
<1>7. ASSUME AccessTick \/ LinkOpens \/ LinkCloses \/ Clutter \/ WriteMessage
      PROVE  UNCHANGED traffic /\ kernel'.epoch = kernel.epoch /\ \A q \in Reporters : Kept(q)
  BY <1>7 DEF AccessTick, LinkOpens, LinkCloses, Clutter, WriteMessage, Kept
<1>8. UNCHANGED traffic /\ kernel'.epoch = kernel.epoch /\ \A q \in Reporters : Kept(q)
  BY <1>2, <1>3, <1>4, <1>5, <1>6, <1>7
<1> QED BY <1>8, KeptStill

\* A report that begins takes over what is pending.
LEMMA BeginStill ==
  ASSUME IInv, (ReportTick /\ ~(service.skip > 0)) \/ Shutdown
  PROVE  Still /\ UNCHANGED <<kernel, counter, lastSeen, seen>>
<1>1. PICK r \in Reporters :
        /\ BeginReport(r) /\ report[r].pc = "idle"
        /\ UNCHANGED <<kernel, counter, lastSeen, seen, billed, used, rebilled, lost>>
  <2>1. CASE ReportTick /\ ~(service.skip > 0)
    BY <2>1, ReportersAre DEF ReportTick
  <2>2. CASE Shutdown
    <3>1. report["sync"].pc = "idle"
      BY <2>2 DEF Shutdown, Running, IInv, Phases
    <3> QED BY <2>2, <3>1, ReportersAre DEF Shutdown
  <2> QED BY <2>1, <2>2
<1>2. /\ report'[r].traffic = pending /\ ~report'[r].booked /\ pending' = Zero
      /\ \A q \in Reporters \ {r} : Kept(q)
  BY <1>1, BeginReportOK DEF IInv, Kept
<1>3. report[r].traffic = Zero
  BY <1>1 DEF IInv, Progress
<1>4. ASSUME NEW c \in Counters
      PROVE  /\ Unbooked(r, c) = 0 /\ Unanswered(r, c) = 0 /\ pending'[c] = 0
             /\ Unbooked(r, c)' = pending[c] /\ Unanswered(r, c)' = 0
             /\ \A q \in Reporters \ {r} : Unbooked(q, c)' = Unbooked(q, c)
                                           /\ Unanswered(q, c)' = Unanswered(q, c)
  BY <1>2, <1>3 DEF Unbooked, Unanswered, Zero, Kept
<1>5. ASSUME NEW c \in Counters
      PROVE  Owed(c)' = Owed(c) /\ Unsure(c)' = Unsure(c)
  BY <1>1, <1>4, Numbers, ReportersAre DEF Owed, Unsure
<1> QED BY <1>1, <1>5 DEF Still

LEMMA ReleaseStill ==
  ASSUME IInv, Release
  PROVE  Still /\ UNCHANGED <<kernel, traffic>>
<1>1. /\ report["async"].traffic = Zero /\ report' = [report EXCEPT !["async"] = Idle]
      /\ UNCHANGED <<kernel, traffic>>
  BY ReportersAre DEF Release, At, IInv, Progress
<1>2. report'["async"] = Idle /\ report'["sync"] = report["sync"]
  BY <1>1, ReportersAre, Replaced, IdleType DEF IInv, TypeOK
<1>3. ASSUME NEW c \in Counters
      PROVE  /\ Unbooked("async", c) = 0 /\ Unanswered("async", c) = 0
             /\ Unbooked("async", c)' = 0 /\ Unanswered("async", c)' = 0
             /\ Unbooked("sync", c)' = Unbooked("sync", c)
             /\ Unanswered("sync", c)' = Unanswered("sync", c)
  BY <1>1, <1>2 DEF Unbooked, Unanswered, Zero, Idle
<1> QED BY <1>1, <1>3 DEF Still, Owed, Unsure, traffic

\* The goroutine learns that its report was booked.
LEMMA SucceedEffect ==
  ASSUME IInv, Succeed
  PROVE  /\ UNCHANGED <<kernel, traffic>>
         /\ \A c \in Counters : Owed(c)' = Owed(c) /\ Unsure(c)' <= Unsure(c)
<1>1. /\ report["async"].booked /\ report' = [report EXCEPT !["async"] = [Idle EXCEPT !.pc = "done"]]
      /\ UNCHANGED <<kernel, traffic>>
  BY ReportersAre DEF Succeed, At, IInv, Progress
<1>2. /\ report'["async"].traffic = Zero /\ report'["async"].booked = FALSE
      /\ report'["sync"] = report["sync"]
  BY <1>1, ReportersAre, Replaced, DoneType DEF IInv, TypeOK
<1>3. ASSUME NEW c \in Counters
      PROVE  /\ Unbooked("async", c) = 0 /\ Unbooked("async", c)' = 0 /\ Unanswered("async", c)' = 0
             /\ Unbooked("sync", c)' = Unbooked("sync", c)
             /\ Unanswered("sync", c)' = Unanswered("sync", c)
  BY <1>1, <1>2 DEF Unbooked, Unanswered, Zero
<1>4. ASSUME NEW c \in Counters
      PROVE  Owed(c)' = Owed(c) /\ Unsure(c)' <= Unsure(c)
  BY <1>1, <1>3, Numbers, ReportersAre DEF Owed, Unsure, traffic
<1> QED BY <1>1, <1>4

\* A failed report's traffic is pending again; what the panel had booked of it is owed twice.
LEMMA RestoreEffect ==
  ASSUME IInv, Restore
  PROVE  /\ UNCHANGED <<kernel, counter, lastSeen, seen, billed, used, lost>>
         /\ \A c \in Counters :
              /\ Unsure(c)' <= Unsure(c) /\ Owed(c)' = Owed(c) + (Unsure(c) - Unsure(c)')
              /\ rebilled'[c] = rebilled[c] + (Owed(c)' - Owed(c))
<1> DEFINE old == report["async"]
<1>1. /\ report' = [report EXCEPT !["async"] = [Idle EXCEPT !.pc = "done"]]
      /\ pending' = Plus(pending, old.traffic)
      /\ rebilled' = IF old.booked THEN Plus(rebilled, old.traffic) ELSE rebilled
      /\ UNCHANGED <<kernel, counter, lastSeen, seen, billed, used, lost>>
  BY DEF Restore
<1>2. /\ report'["async"].traffic = Zero /\ report'["async"].booked = FALSE
      /\ report'["sync"] = report["sync"]
  BY <1>1, ReportersAre, Replaced, DoneType DEF IInv, TypeOK
<1>3. old.traffic \in Amounts /\ pending \in Amounts /\ rebilled \in Amounts
  BY ReportersAre DEF IInv, TypeOK, ReportType
<1>4. ASSUME NEW c \in Counters
      PROVE  /\ Unsure(c)' <= Unsure(c) /\ Owed(c)' = Owed(c) + (Unsure(c) - Unsure(c)')
             /\ rebilled'[c] = rebilled[c] + (Owed(c)' - Owed(c))
  <2>1. /\ Unbooked("async", c)' = 0 /\ Unanswered("async", c)' = 0
        /\ Unbooked("sync", c)' = Unbooked("sync", c)
        /\ Unanswered("sync", c)' = Unanswered("sync", c)
    BY <1>2 DEF Unbooked, Unanswered, Zero
  <2>2. /\ pending'[c] = pending[c] + old.traffic[c]
        /\ rebilled'[c] = IF old.booked THEN rebilled[c] + old.traffic[c] ELSE rebilled[c]
    BY <1>1, <1>3, PlusType
  <2>3. /\ Unbooked("async", c) = IF old.booked THEN 0 ELSE old.traffic[c]
        /\ Unanswered("async", c) = IF old.booked THEN old.traffic[c] ELSE 0
    BY DEF Unbooked, Unanswered
  <2> QED BY <1>1, <2>1, <2>2, <2>3, Numbers, ReportersAre DEF Owed, Unsure
<1> QED BY <1>1, <1>4

\* The panel books what a report carries.
LEMMA ArriveEffect ==
  ASSUME IInv, NEW r \in Reporters, Arrive(r)
  PROVE  /\ UNCHANGED <<kernel, service, counter, lastSeen, seen, pending, used, rebilled, lost>>
         /\ billed' \in Amounts
         /\ \A c \in Counters :
              /\ Owed(c)' <= Owed(c) /\ billed'[c] = billed[c] + (Owed(c) - Owed(c)')
              /\ Unsure(c)' = Unsure(c) + (Owed(c) - Owed(c)')
<1>1. /\ report' = [report EXCEPT ![r].pc = "arrived", ![r].booked = TRUE]
      /\ billed' = Plus(billed, report[r].traffic)
      /\ UNCHANGED <<kernel, service, counter, lastSeen, seen, pending, used, rebilled, lost>>
  BY DEF Arrive
<1>2. ~report[r].booked /\ report \in [Reporters -> ReportType]
  BY DEF Arrive, At, IInv, Progress, TypeOK
<1>3. /\ report'[r].traffic = report[r].traffic /\ report'[r].booked
      /\ \A q \in Reporters \ {r} : report'[q] = report[q]
  BY <1>1, <1>2 DEF ReportType
<1>4. report[r].traffic \in Amounts /\ billed \in Amounts
  BY DEF IInv, TypeOK, ReportType
<1>5. billed' \in Amounts
  BY <1>1, <1>4, PlusType
<1>6. ASSUME NEW c \in Counters
      PROVE  /\ Owed(c)' <= Owed(c) /\ billed'[c] = billed[c] + (Owed(c) - Owed(c)')
             /\ Unsure(c)' = Unsure(c) + (Owed(c) - Owed(c)')
  <2>1. /\ Unbooked(r, c) = report[r].traffic[c] /\ Unanswered(r, c) = 0
        /\ Unbooked(r, c)' = 0 /\ Unanswered(r, c)' = report[r].traffic[c]
        /\ \A q \in Reporters \ {r} : Unbooked(q, c)' = Unbooked(q, c)
                                      /\ Unanswered(q, c)' = Unanswered(q, c)
    BY <1>2, <1>3 DEF Unbooked, Unanswered
  <2>2. billed'[c] = billed[c] + report[r].traffic[c]
    BY <1>1, <1>4, PlusType
  <2> QED BY <1>1, <2>1, <2>2, Numbers, ReportersAre DEF Owed, Unsure
<1> QED BY <1>1, <1>5, <1>6

\* The last report is over: what the panel did not book of it is lost.
LEMMA FinishEffect ==
  ASSUME IInv, FinishShutdown
  PROVE  /\ UNCHANGED <<kernel, counter, lastSeen, seen, billed, used, rebilled>>
         /\ \A c \in Counters :
              /\ Owed(c)' <= Owed(c) /\ Unsure(c)' <= Unsure(c)
              /\ lost'[c] = lost[c] + (Owed(c) - Owed(c)')
<1> DEFINE old == report["sync"]
<1>1. /\ report' = [report EXCEPT !["sync"] = Idle]
      /\ lost' = IF old.booked THEN lost ELSE Plus(lost, old.traffic)
      /\ UNCHANGED <<kernel, counter, lastSeen, seen, pending, billed, used, rebilled>>
  BY DEF FinishShutdown
<1>2. report'["sync"] = Idle /\ report'["async"] = report["async"]
  BY <1>1, ReportersAre, Replaced, IdleType DEF IInv, TypeOK
<1>3. old.traffic \in Amounts /\ lost \in Amounts
  BY ReportersAre DEF IInv, TypeOK, ReportType
<1>4. ASSUME NEW c \in Counters
      PROVE  /\ Owed(c)' <= Owed(c) /\ Unsure(c)' <= Unsure(c)
             /\ lost'[c] = lost[c] + (Owed(c) - Owed(c)')
  <2>1. /\ Unbooked("sync", c)' = 0 /\ Unanswered("sync", c)' = 0
        /\ Unbooked("async", c)' = Unbooked("async", c)
        /\ Unanswered("async", c)' = Unanswered("async", c)
    BY <1>2 DEF Unbooked, Unanswered, Idle, Zero
  <2>2. lost'[c] = IF old.booked THEN lost[c] ELSE lost[c] + old.traffic[c]
    BY <1>1, <1>3, PlusType
  <2>3. Unbooked("sync", c) = IF old.booked THEN 0 ELSE old.traffic[c]
    BY DEF Unbooked
  <2> QED BY <1>1, <2>1, <2>2, <2>3, Numbers, ReportersAre DEF Owed, Unsure
<1> QED BY <1>1, <1>4

LEMMA UseEffect ==
  ASSUME IInv, NEW d \in Counters, Use(d)
  PROVE  /\ UNCHANGED <<kernel, service, lastSeen, seen, billed, rebilled, lost>>
         /\ \A c \in Counters :
              /\ Owed(c)' = IF c = d THEN Owed(c) + 1 ELSE Owed(c)
              /\ used'[c] = IF c = d THEN used[c] + 1 ELSE used[c]
              /\ Unsure(c)' = Unsure(c)
<1>1. /\ counter' = [counter EXCEPT ![d] = @ + 1] /\ used' = [used EXCEPT ![d] = @ + 1]
      /\ UNCHANGED <<kernel, service, lastSeen, seen, pending, report, billed, rebilled, lost>>
  BY DEF Use
<1>2. counter \in Amounts /\ used \in Amounts
  BY DEF IInv, TypeOK
<1>3. ASSUME NEW c \in Counters
      PROVE  /\ Owed(c)' = IF c = d THEN Owed(c) + 1 ELSE Owed(c)
             /\ used'[c] = IF c = d THEN used[c] + 1 ELSE used[c]
             /\ Unsure(c)' = Unsure(c)
  <2>1. /\ counter'[c] = IF c = d THEN counter[c] + 1 ELSE counter[c]
        /\ used'[c] = IF c = d THEN used[c] + 1 ELSE used[c]
    BY <1>1, <1>2, RaiseType
  <2>2. \A r \in Reporters : Unbooked(r, c)' = Unbooked(r, c) /\ Unanswered(r, c)' = Unanswered(r, c)
    BY <1>1 DEF Unbooked, Unanswered
  <2>3. Unsure(c)' = Unsure(c)
    BY <2>2, ReportersAre DEF Unsure
  <2>4. CASE c = d
    <3>1. counter'[c] = counter[c] + 1
      BY <2>1, <2>4
    <3>2. Owed(c)' = Owed(c) + 1
      BY <1>1, <2>2, <3>1, Numbers, ReportersAre DEF Owed
    <3> QED BY <2>1, <2>3, <2>4, <3>2
  <2>5. CASE c # d
    <3>1. Owed(c)' = Owed(c)
      BY <1>1, <2>1, <2>2, <2>5, ReportersAre DEF Owed
    <3> QED BY <2>1, <2>3, <2>5, <3>1
  <2> QED BY <2>4, <2>5
<1> QED BY <1>1, <1>3

LEMMA DrainingEffect ==
  ASSUME IInv, NEW d \in Counters, UseDraining(d)
  PROVE  /\ UNCHANGED <<kernel, service, counter, lastSeen, seen, billed, rebilled>>
         /\ \A c \in Counters :
              /\ Owed(c)' = Owed(c) /\ Unsure(c)' = Unsure(c)
              /\ used'[c] + lost[c] = used[c] + lost'[c]
<1>1. /\ used' = [used EXCEPT ![d] = @ + 1] /\ lost' = [lost EXCEPT ![d] = @ + 1]
      /\ UNCHANGED <<kernel, service, counter, lastSeen, seen, pending, report, billed, rebilled>>
  BY DEF UseDraining
<1>2. used \in Amounts /\ lost \in Amounts
  BY DEF IInv, TypeOK
<1>3. ASSUME NEW c \in Counters
      PROVE  used'[c] + lost[c] = used[c] + lost'[c]
  BY <1>1, <1>2, RaiseType
<1>4. ASSUME NEW c \in Counters
      PROVE  Owed(c)' = Owed(c) /\ Unsure(c)' = Unsure(c)
  BY <1>1 DEF Owed, Unsure, Unbooked, Unanswered
<1> QED BY <1>1, <1>3, <1>4

\* An instance ends with what was not sampled of it.
LEMMA RenewEffect ==
  ASSUME IInv, NEW up \in BOOLEAN, RenewKernel(up)
  PROVE  /\ UNCHANGED <<service, billed, used, rebilled>> /\ kernel'.epoch = kernel.epoch + 1
         /\ \A c \in Counters :
              /\ Owed(c)' <= Owed(c) /\ Unsure(c)' = Unsure(c)
              /\ lost'[c] = lost[c] + (Owed(c) - Owed(c)')
<1>1. /\ UNCHANGED <<service, pending, report, billed, used, rebilled>>
      /\ kernel'.epoch = kernel.epoch + 1 /\ counter' = Zero /\ seen' = Zero
  BY DEF RenewKernel, IInv, TypeOK
<1>2. ASSUME NEW c \in Counters
      PROVE  /\ Owed(c)' <= Owed(c) /\ Unsure(c)' = Unsure(c)
             /\ lost'[c] = lost[c] + (Owed(c) - Owed(c)')
  <2>1. lost'[c] = lost[c] + (counter[c] - seen[c]) /\ counter'[c] = 0 /\ seen'[c] = 0
    BY <1>1 DEF RenewKernel, Zero
  <2>2. \A r \in Reporters : Unbooked(r, c)' = Unbooked(r, c) /\ Unanswered(r, c)' = Unanswered(r, c)
    BY <1>1 DEF Unbooked, Unanswered
  <2> QED BY <1>1, <2>1, <2>2, Numbers, ReportersAre DEF Owed, Unsure
<1> QED BY <1>1, <1>2

\* A sample misses traffic only of counters compared with another instance's value.
LEMMA SampleEffect ==
  ASSUME IInv, Tick
  PROVE  /\ UNCHANGED <<kernel, service, billed, used, rebilled>>
         /\ \A c \in Counters :
              /\ Owed(c)' <= Owed(c) /\ Unsure(c)' = Unsure(c)
              /\ lost'[c] = lost[c] + (Owed(c) - Owed(c)')
              /\ Owed(c)' < Owed(c) => lastSeen[c] # seen[c] /\ lastSeen'[c] = seen'[c]
              /\ lastSeen'[c] # seen'[c] => lastSeen[c] # seen[c]
<1>1. UNCHANGED <<kernel, service, counter, report, billed, used, rebilled>> /\ TypeOK /\ Samples
  BY DEF Tick, IInv
<1>2. ASSUME NEW c \in Counters
      PROVE  /\ Owed(c)' <= Owed(c) /\ Unsure(c)' = Unsure(c)
             /\ lost'[c] = lost[c] + (Owed(c) - Owed(c)')
             /\ Owed(c)' < Owed(c) => lastSeen[c] # seen[c] /\ lastSeen'[c] = seen'[c]
             /\ lastSeen'[c] # seen'[c] => lastSeen[c] # seen[c]
  <2>1. \A r \in Reporters : Unbooked(r, c)' = Unbooked(r, c) /\ Unanswered(r, c)' = Unanswered(r, c)
    BY <1>1 DEF Unbooked, Unanswered
  <2>2. /\ Owed(c)' - Owed(c)
             = (pending'[c] - pending[c]) + ((counter'[c] - seen'[c]) - (counter[c] - seen[c]))
        /\ Unsure(c)' = Unsure(c)
    <3>1. pending'[c] \in Nat /\ seen'[c] \in Nat /\ counter'[c] = counter[c]
      BY <1>1, TickEffect
    <3> QED BY <2>1, <3>1, Numbers, ReportersAre DEF Owed, Unsure
  <2>3. Owed(c)' \in Int
    BY <1>1, <2>1, TickEffect, Numbers, ReportersAre DEF Owed
  <2> HIDE DEF Owed
  <2> QED BY <1>1, <2>2, <2>3, TickEffect, Numbers
<1> QED BY <1>1, <1>2

----------------------------------------------------------------------------
(* No unit is counted twice or nowhere without a reason.                   *)

Balance ==
  \A c \in Counters : used[c] + rebilled[c] = billed[c] + Owed(c) + lost[c]

Counted ==
  \A c \in Counters : /\ billed[c] \in Nat /\ used[c] \in Nat /\ rebilled[c] \in Nat
                      /\ lost[c] \in Nat /\ Owed(c) \in Nat /\ Unsure(c) \in Nat

LEMMA AllCounted == IInv => Counted
BY Numbers DEF Counted

LEMMA CountedNext == IInv /\ [Next]_vars => Counted'
<1>1. IInv' => Counted'
  BY AllCounted, PTL
<1> QED BY <1>1, MeteringStep

\* What a step can be, as far as traffic goes.
LEMMA Moves ==
  ASSUME IInv, [Next]_vars
  PROVE  \/ Still
         \/ Tick \/ FinishShutdown \/ Restore \/ Succeed
         \/ \E r \in Reporters : Arrive(r)
         \/ \E c \in Counters : Use(c) \/ UseDraining(c)
         \/ \E up \in BOOLEAN : RenewKernel(up)
<1>1. CASE UNCHANGED vars
  BY <1>1 DEF vars, Still, Owed, Unsure, Unbooked, Unanswered
<1>2. CASE Next
  <2>1. CASE Release
    BY <2>1, ReleaseStill
  <2>2. CASE Shutdown
    BY <2>2, BeginStill
  <2>3. CASE ReportTick
    BY <2>3, BeginStill, QuietStep
  <2>4. CASE AccessTick \/ DeviceTick \/ LinkOpens \/ LinkCloses \/ Clutter \/ WriteMessage
    BY <2>4, QuietStep
  <2>5. CASE World
    BY <2>5, QuietStep DEF World
  <2>6. CASE \E r \in Reporters : ReportStep(r)
    BY <2>6, QuietStep DEF ReportStep
  <2> QED BY <1>2, <2>1, <2>2, <2>3, <2>4, <2>5, <2>6 DEF Next
<1> QED BY <1>1, <1>2

LEMMA BalanceInit == Init => Balance
<1> SUFFICES ASSUME Init, NEW c \in Counters
             PROVE  used[c] + rebilled[c] = billed[c] + Owed(c) + lost[c]
  BY DEF Balance
<1>1. /\ used[c] = 0 /\ rebilled[c] = 0 /\ billed[c] = 0 /\ lost[c] = 0 /\ pending[c] = 0
      /\ counter[c] = 0 /\ seen[c] = 0
  BY DEF Init, Zero
<1>2. \A r \in Reporters : Unbooked(r, c) = 0
  BY DEF Init, Unbooked, Idle, Zero
<1> QED BY <1>1, <1>2, ReportersAre DEF Owed

LEMMA BalanceStep == IInv /\ Balance /\ [Next]_vars => Balance'
<1> SUFFICES ASSUME IInv, Balance, [Next]_vars, NEW c \in Counters
             PROVE  used'[c] + rebilled'[c] = billed'[c] + Owed(c)' + lost'[c]
  BY DEF Balance
<1>1. /\ billed[c] \in Nat /\ used[c] \in Nat /\ rebilled[c] \in Nat /\ lost[c] \in Nat
      /\ Owed(c) \in Nat /\ Unsure(c) \in Nat
  BY AllCounted DEF Counted
<1>2. /\ billed'[c] \in Nat /\ used'[c] \in Nat /\ rebilled'[c] \in Nat /\ lost'[c] \in Nat
      /\ Owed(c)' \in Nat /\ Unsure(c)' \in Nat
  BY CountedNext DEF Counted
<1>3. used[c] + rebilled[c] = billed[c] + Owed(c) + lost[c]
  BY DEF Balance
<1> HIDE DEF Owed, Unsure, Balance
<1>4. CASE Still
  BY <1>1, <1>2, <1>3, <1>4 DEF Still
<1>5. CASE Tick
  BY <1>1, <1>2, <1>3, <1>5, SampleEffect
<1>6. CASE \E r \in Reporters : Arrive(r)
  BY <1>1, <1>2, <1>3, <1>6, ArriveEffect
<1>7. CASE FinishShutdown
  BY <1>1, <1>2, <1>3, <1>7, FinishEffect
<1>8. CASE Restore
  BY <1>1, <1>2, <1>3, <1>8, RestoreEffect
<1>9. CASE Succeed
  BY <1>1, <1>2, <1>3, <1>9, SucceedEffect DEF traffic
<1>10. ASSUME NEW d \in Counters, Use(d)
       PROVE  used'[c] + rebilled'[c] = billed'[c] + Owed(c)' + lost'[c]
  BY <1>1, <1>2, <1>3, <1>10, UseEffect
<1>11. ASSUME NEW d \in Counters, UseDraining(d)
       PROVE  used'[c] + rebilled'[c] = billed'[c] + Owed(c)' + lost'[c]
  BY <1>1, <1>2, <1>3, <1>11, DrainingEffect
<1>12. ASSUME NEW up \in BOOLEAN, RenewKernel(up)
       PROVE  used'[c] + rebilled'[c] = billed'[c] + Owed(c)' + lost'[c]
  BY <1>1, <1>2, <1>3, <1>12, RenewEffect
<1> QED BY <1>4, <1>5, <1>6, <1>7, <1>8, <1>9, <1>10, <1>11, <1>12, Moves

\* Every unit a connection moved is booked, in a report, pending, not yet sampled, or lost with a
\* kernel instance or the last report; what a failed report had booked is owed a second time.
THEOREM TrafficIsConserved == Spec => []Conservation
<1>1. IInv /\ Balance => Conservation
  <2> SUFFICES ASSUME IInv, Balance, NEW c \in Counters
               PROVE  used[c] + rebilled[c]
                        = billed[c] + Unbooked("async", c) + Unbooked("sync", c) + pending[c]
                          + (counter[c] - seen[c]) + lost[c]
    BY DEF Conservation
  <2>1. used[c] + rebilled[c] = billed[c] + Owed(c) + lost[c]
    BY DEF Balance
  <2> QED BY <2>1, Numbers, ReportersAre DEF Owed
<1>2. Spec => []Balance
  BY BalanceInit, BalanceStep, MeteringInvariant, PTL DEF Spec
<1> QED BY <1>1, <1>2, MeteringInvariant, PTL

----------------------------------------------------------------------------
(* The node keeps the ledger's promise.                                    *)


OwedNow   == [c \in Counters |-> Owed(c)]
UnsureNow == [c \in Counters |-> Unsure(c)]
DatedNow  == {c \in Counters : lastSeen[c] # seen[c]}
ClosedNow == service.phase \in {"ended", "crashed"}

LEMMA IncurIs ==
  ASSUME NEW d \in Counters, OwedNow' = [OwedNow EXCEPT ![d] = @ + 1],
         UNCHANGED <<billed, UnsureNow, DatedNow, kernel.epoch, ClosedNow>>
  PROVE  L!LedgerNext
BY DEF L!LedgerNext, L!Incur, OwedNow, UnsureNow, DatedNow, ClosedNow, Owed, Unsure

LEMMA BookIs ==
  ASSUME \A c \in Counters : OwedNow'[c] <= OwedNow[c],
         billed' = [c \in Counters |-> billed[c] + (OwedNow[c] - OwedNow'[c])],
         UnsureNow' = [c \in Counters |-> UnsureNow[c] + (OwedNow[c] - OwedNow'[c])],
         UNCHANGED <<DatedNow, kernel.epoch, ClosedNow>>
  PROVE  L!LedgerNext
BY DEF L!LedgerNext, L!Book, L!Less, OwedNow, UnsureNow, DatedNow, ClosedNow, Owed, Unsure

LEMMA ConfirmIs ==
  ASSUME \A c \in Counters : UnsureNow'[c] <= UnsureNow[c],
         UNCHANGED <<billed, OwedNow, DatedNow, kernel.epoch, ClosedNow>>
  PROVE  L!LedgerNext
BY DEF L!LedgerNext, L!Confirm, L!Less, OwedNow, UnsureNow, DatedNow, ClosedNow, Owed, Unsure

LEMMA DisputeIs ==
  ASSUME \A c \in Counters : UnsureNow'[c] <= UnsureNow[c],
         OwedNow' = [c \in Counters |-> OwedNow[c] + (UnsureNow[c] - UnsureNow'[c])],
         UNCHANGED <<billed, DatedNow, kernel.epoch, ClosedNow>>
  PROVE  L!LedgerNext
BY DEF L!LedgerNext, L!Dispute, L!Less, OwedNow, UnsureNow, DatedNow, ClosedNow, Owed, Unsure

LEMMA RenewIs ==
  ASSUME \A c \in Counters : OwedNow'[c] <= OwedNow[c],
         kernel'.epoch = kernel.epoch + 1, ~ClosedNow,
         UNCHANGED <<billed, UnsureNow, ClosedNow>>
  PROVE  L!LedgerNext
BY DEF L!LedgerNext, L!Renew, L!Less, OwedNow, UnsureNow, ClosedNow, Owed, Unsure

LEMMA ReadIs ==
  ASSUME \A c \in Counters : OwedNow'[c] <= OwedNow[c],
         \A c \in Counters : OwedNow'[c] < OwedNow[c] => c \in DatedNow /\ c \notin DatedNow',
         DatedNow' \subseteq DatedNow, ~ClosedNow,
         UNCHANGED <<billed, UnsureNow, kernel.epoch, ClosedNow>>
  PROVE  L!LedgerNext
BY DEF L!LedgerNext, L!Read, L!Less, OwedNow, UnsureNow, DatedNow, ClosedNow, Owed, Unsure

LEMMA CloseIs ==
  ASSUME ~ClosedNow, ClosedNow',
         \A c \in Counters : OwedNow'[c] <= OwedNow[c],
         \A c \in Counters : UnsureNow'[c] <= UnsureNow[c],
         UNCHANGED <<billed, DatedNow, kernel.epoch>>
  PROVE  L!LedgerNext
BY DEF L!LedgerNext, L!Close, L!Less, OwedNow, UnsureNow, DatedNow, ClosedNow, Owed, Unsure

LEMMA StutterIs ==
  ASSUME UNCHANGED <<billed, OwedNow, UnsureNow, DatedNow, kernel.epoch, ClosedNow>>
  PROVE  UNCHANGED L!ledgerVars
BY DEF L!ledgerVars, OwedNow, UnsureNow, DatedNow, ClosedNow, Owed, Unsure

LEMMA StillIs == Still => UNCHANGED <<OwedNow, UnsureNow>>
BY DEF Still, OwedNow, UnsureNow

LEMMA RunningIs == Running({"run"}) => ~ClosedNow
BY DEF Running, ClosedNow

\* Steps that concern neither traffic nor the node's end.
LEMMA StutterStep ==
  ASSUME IInv,
         \/ UNCHANGED vars
         \/ \E v \in Views : Connections(v)
         \/ \E listed \in SUBSET Users : EditUsers(listed)
         \/ ReportTick \/ Shutdown \/ Release
         \/ AccessTick \/ DeviceTick \/ LinkOpens \/ LinkCloses \/ Clutter \/ WriteMessage
         \/ \E r \in Reporters : ReadBuffer(r) \/ BufferRead(r) \/ Fail(r)
  PROVE  UNCHANGED L!ledgerVars
<1>1. CASE UNCHANGED vars
  BY <1>1, StutterIs
     DEF vars, OwedNow, UnsureNow, DatedNow, ClosedNow, Owed, Unsure, Unbooked, Unanswered
<1>2. CASE (ReportTick /\ ~(service.skip > 0)) \/ Shutdown
  <2>1. Still /\ UNCHANGED <<kernel, lastSeen, seen, billed>>
    BY <1>2, BeginStill DEF ReportTick, Shutdown
  <2>2. UNCHANGED ClosedNow
    BY <1>2 DEF ReportTick, Shutdown, Running, ClosedNow, IInv, TypeOK
  <2> QED BY <2>1, <2>2, StillIs, StutterIs DEF DatedNow
<1>3. CASE Release
  <2>1. Still /\ UNCHANGED <<kernel, traffic, service>>
    BY <1>3, ReleaseStill DEF Release
  <2> QED BY <2>1, StillIs, StutterIs DEF DatedNow, ClosedNow, traffic
<1>4. CASE \/ \E v \in Views : Connections(v)
           \/ \E listed \in SUBSET Users : EditUsers(listed)
           \/ ReportTick /\ service.skip > 0
           \/ AccessTick \/ DeviceTick \/ LinkOpens \/ LinkCloses \/ Clutter \/ WriteMessage
           \/ \E r \in Reporters : ReadBuffer(r) \/ BufferRead(r) \/ Fail(r)
  <2>1. Still /\ UNCHANGED <<traffic, kernel.epoch>>
    BY <1>4, QuietStep
  <2>2. UNCHANGED ClosedNow
    BY <1>4 DEF Connections, EditUsers, ReportTick, AccessTick, DeviceTick, LinkOpens, LinkCloses,
                Clutter, WriteMessage, ReadBuffer, BufferRead, Fail, ClosedNow, IInv, TypeOK
  <2> QED BY <2>1, <2>2, StillIs, StutterIs DEF DatedNow, traffic
<1> QED BY <1>1, <1>2, <1>3, <1>4

LEMMA LedgerStep == IInv /\ [Next]_vars => [L!LedgerNext]_(L!ledgerVars)
<1> SUFFICES ASSUME IInv, [Next]_vars
             PROVE  L!LedgerNext \/ UNCHANGED L!ledgerVars
  OBVIOUS
<1>1. \A c \in Counters : OwedNow[c] = Owed(c) /\ UnsureNow[c] = Unsure(c)
                          /\ OwedNow'[c] = Owed(c)' /\ UnsureNow'[c] = Unsure(c)'
  BY DEF OwedNow, UnsureNow
<1>2. ASSUME NEW d \in Counters, Use(d)
      PROVE  L!LedgerNext
  <2>1. UNCHANGED <<kernel.epoch, DatedNow, ClosedNow, billed>>
    BY <1>2, UseEffect DEF DatedNow, ClosedNow
  <2>2. OwedNow' = [OwedNow EXCEPT ![d] = @ + 1] /\ UNCHANGED UnsureNow
    BY <1>2, UseEffect DEF OwedNow, UnsureNow
  <2> QED BY <2>1, <2>2, IncurIs
<1>3. ASSUME NEW d \in Counters, UseDraining(d)
      PROVE  UNCHANGED L!ledgerVars
  <2>1. UNCHANGED <<kernel.epoch, DatedNow, ClosedNow, billed>>
    BY <1>3, DrainingEffect DEF DatedNow, ClosedNow
  <2>2. UNCHANGED <<OwedNow, UnsureNow>>
    BY <1>3, DrainingEffect DEF OwedNow, UnsureNow
  <2> QED BY <2>1, <2>2, StutterIs
<1>4. ASSUME NEW up \in BOOLEAN, RenewKernel(up)
      PROVE  L!LedgerNext
  <2>1. kernel'.epoch = kernel.epoch + 1 /\ ~ClosedNow /\ UNCHANGED <<ClosedNow, billed>>
    BY <1>4, RenewEffect, RunningIs DEF RenewKernel, ClosedNow
  <2>2. (\A c \in Counters : OwedNow'[c] <= OwedNow[c]) /\ UNCHANGED UnsureNow
    BY <1>1, <1>4, RenewEffect DEF UnsureNow
  <2> QED BY <2>1, <2>2, RenewIs
<1>5. CASE Tick
  <2>1. ~ClosedNow /\ UNCHANGED <<kernel.epoch, ClosedNow, billed>>
    BY <1>5, SampleEffect, RunningIs DEF Tick, ClosedNow
  <2>2. (\A c \in Counters : OwedNow'[c] <= OwedNow[c]) /\ UNCHANGED UnsureNow
    BY <1>1, <1>5, SampleEffect DEF UnsureNow
  <2>3. \A c \in Counters : OwedNow'[c] < OwedNow[c] => c \in DatedNow /\ c \notin DatedNow'
    BY <1>1, <1>5, SampleEffect DEF DatedNow
  <2>4. DatedNow' \subseteq DatedNow
    BY <1>5, SampleEffect DEF DatedNow
  <2> QED BY <2>1, <2>2, <2>3, <2>4, ReadIs
<1>6. ASSUME NEW r \in Reporters, Arrive(r)
      PROVE  L!LedgerNext
  <2>1. UNCHANGED <<kernel.epoch, DatedNow, ClosedNow>>
    BY <1>6, ArriveEffect DEF DatedNow, ClosedNow
  <2>2. \A c \in Counters : OwedNow'[c] <= OwedNow[c]
    BY <1>1, <1>6, ArriveEffect
  <2>3. billed' = [c \in Counters |-> billed[c] + (OwedNow[c] - OwedNow'[c])]
    <3>1. billed' = [c \in Counters |-> billed'[c]]
      BY <1>6, ArriveEffect DEF Amounts
    <3>2. \A c \in Counters : billed'[c] = billed[c] + (OwedNow[c] - OwedNow'[c])
      BY <1>1, <1>6, ArriveEffect
    <3> QED BY <3>1, <3>2
  <2>4. UnsureNow' = [c \in Counters |-> UnsureNow[c] + (OwedNow[c] - OwedNow'[c])]
    BY <1>1, <1>6, ArriveEffect DEF UnsureNow
  <2> QED BY <2>1, <2>2, <2>3, <2>4, BookIs
<1>7. CASE Succeed
  <2>1. UNCHANGED <<kernel.epoch, DatedNow, ClosedNow, billed>>
    BY <1>7, SucceedEffect DEF DatedNow, ClosedNow, Succeed, traffic, IInv, TypeOK
  <2>2. UNCHANGED OwedNow /\ \A c \in Counters : UnsureNow'[c] <= UnsureNow[c]
    BY <1>1, <1>7, SucceedEffect DEF OwedNow
  <2> QED BY <2>1, <2>2, ConfirmIs
<1>8. CASE Restore
  <2>1. UNCHANGED <<kernel.epoch, DatedNow, ClosedNow, billed>>
    BY <1>8, RestoreEffect DEF DatedNow, ClosedNow, Restore, IInv, TypeOK
  <2>2. \A c \in Counters : UnsureNow'[c] <= UnsureNow[c]
    BY <1>1, <1>8, RestoreEffect
  <2>3. OwedNow' = [c \in Counters |-> OwedNow[c] + (UnsureNow[c] - UnsureNow'[c])]
    BY <1>1, <1>8, RestoreEffect DEF OwedNow
  <2> QED BY <2>1, <2>2, <2>3, DisputeIs
<1>9. CASE FinishShutdown
  <2>1. ~ClosedNow /\ ClosedNow'
    BY <1>9 DEF FinishShutdown, Alive, ClosedNow, IInv, Phases, TypeOK
  <2>2. UNCHANGED <<kernel.epoch, DatedNow, billed>>
    BY <1>9, FinishEffect DEF DatedNow
  <2>3. \A c \in Counters : OwedNow'[c] <= OwedNow[c] /\ UnsureNow'[c] <= UnsureNow[c]
    BY <1>1, <1>9, FinishEffect
  <2> QED BY <2>1, <2>2, <2>3, CloseIs
<1>10. ASSUME NEW r \in Reporters, MapFault(r)
       PROVE  L!LedgerNext \/ UNCHANGED L!ledgerVars
  <2>1. Still /\ UNCHANGED <<traffic, kernel.epoch>>
    BY <1>10, QuietStep
  <2>2. ClosedNow' /\ UNCHANGED <<billed, OwedNow, UnsureNow, DatedNow, kernel.epoch>>
    BY <1>10, <2>1, StillIs DEF MapFault, ClosedNow, DatedNow, traffic, IInv, TypeOK
  <2>3. CASE ClosedNow
    BY <2>2, <2>3, StutterIs DEF ClosedNow
  <2>4. CASE ~ClosedNow
    <3>1. \A c \in Counters : OwedNow'[c] <= OwedNow[c] /\ UnsureNow'[c] <= UnsureNow[c]
      BY <1>1, <2>2, AllCounted DEF Counted
    <3> QED BY <2>2, <2>4, <3>1, CloseIs
  <2> QED BY <2>3, <2>4
<1>11. CASE UNCHANGED vars
  BY <1>11, StutterStep
<1>12. CASE Next
  <2>1. CASE World
    BY <2>1, <1>2, <1>3, <1>4, StutterStep DEF World
  <2>2. CASE \E r \in Reporters : ReportStep(r)
    BY <2>2, <1>6, <1>10, StutterStep DEF ReportStep
  <2>3. CASE ReportTick \/ AccessTick \/ DeviceTick \/ Shutdown \/ Release
             \/ LinkOpens \/ LinkCloses \/ Clutter \/ WriteMessage
    BY <2>3, StutterStep
  <2> QED BY <1>12, <2>1, <2>2, <2>3, <1>5, <1>7, <1>8, <1>9 DEF Next
<1> QED BY <1>11, <1>12

LEMMA LedgerStart == Init => L!LedgerInit
<1> SUFFICES ASSUME Init PROVE L!LedgerInit
  OBVIOUS
<1>1. \A c \in Counters : /\ pending[c] = 0 /\ counter[c] = 0 /\ seen[c] = 0 /\ lastSeen[c] = 0
                          /\ \A r \in Reporters : Unbooked(r, c) = 0 /\ Unanswered(r, c) = 0
  BY DEF Init, Unbooked, Unanswered, Idle, Zero
<1>2. billed = [c \in Counters |-> 0] /\ kernel.epoch = 0 /\ service.phase = "run"
  BY DEF Init, Zero
<1> QED BY <1>1, <1>2, ReportersAre DEF L!LedgerInit, L!None

\* The metering implements the promise of module Ledger: what the tracker, the reports and the
\* kernel's counters hold together is billed once, except for reports whose answer was lost.
THEOREM MeteringKeepsLedger == Spec => KeepsLedger
<1>1. Spec => []IInv
  BY MeteringInvariant
<1> QED BY <1>1, LedgerStart, LedgerStep, PTL DEF Spec, KeepsLedger, L!LedgerSpec

----------------------------------------------------------------------------
(* What the panel knows of addresses.                                      *)

\* A report that brings the addresses last flushed.
Fresh(r) == Carrying(r) /\ ~report[r].outdated

\* The buffer holds what the digest stands for, and so does every report or message that is not
\* marked older; the panel holds it, unless it is on its way or went astray.
AddressInv ==
  /\ DigestOf[alive.buf] = alive.digest
  /\ \A r \in Reporters :
       Fresh(r) /\ report[r].pc = "post" => DigestOf[report[r].view] = alive.digest
  /\ ~link.outdated =>
       \A i \in Waiting : (\A j \in Waiting : j <= i) => DigestOf[link.queue[i]] = alive.digest
  /\ ~missed /\ ~Coming => DigestOf[panel] = alive.digest

LEMMA ComingIs == Coming <=> (\E r \in Reporters : Fresh(r)) \/ (Waiting # {} /\ ~link.outdated)
BY DEF Coming, Fresh

\* A report that brings nothing new any more leaves the rest as it was.
LEMMA AddressFrame ==
  ASSUME AddressInv, link'.queue = link.queue, link'.outdated = link.outdated, panel' = panel,
         missed => missed', alive'.digest = alive.digest, alive'.buf = alive.buf,
         \A r \in Reporters : (~Fresh(r)' /\ ~Fresh(r)) \/ report'[r] = report[r]
  PROVE  AddressInv'
<1>1. Waiting' = Waiting
  BY DEF Waiting
<1>2. \A r \in Reporters : (Fresh(r)' <=> Fresh(r)) /\ (Fresh(r) => report'[r] = report[r])
  BY DEF Fresh, Carrying
<1>3. Coming' <=> Coming
  BY <1>1, <1>2, ComingIs DEF Coming, Fresh
<1> QED BY <1>1, <1>2, <1>3 DEF AddressInv

\* A refilled buffer leaves no report that was read before it new.
LEMMA RefillAges ==
  ASSUME TypeOK, ViewChanged, NEW r \in Reporters, report'[r] = Disturbed[r]
  PROVE  ~(Fresh(r)' /\ report'[r].pc = "post")
<1>1. /\ report'[r].pc = report[r].pc
      /\ report[r].pc = "post" => report'[r].outdated
  BY DisturbedType DEF TypeOK
<1> QED BY <1>1 DEF Fresh

\* The addresses leave the tracker for a report, whatever else is under way.
LEMMA BeginAddresses ==
  ASSUME TypeOK, AddressInv, NEW r \in Reporters, BeginReport(r), ~Carrying(r), UNCHANGED panel
  PROVE  AddressInv'
<1> DEFINE new == [Idle EXCEPT !.pc = "spawned", !.traffic = pending, !.carries = ViewChanged]
<1>1. new \in ReportType /\ new.pc = "spawned" /\ new.carries = ViewChanged /\ ~new.outdated
  BY IdleType DEF TypeOK, Idle, ReportType, ViewChanged
<1> HIDE DEF new
<1>2. report'[r] = new /\ \A q \in Reporters \ {r} : report'[q] = Disturbed[q]
  BY <1>1, DisturbedType DEF TypeOK, BeginReport, new
<1>3. link \in LinkType /\ link' = [link EXCEPT !.outdated = @ \/ ViewChanged]
  BY DEF TypeOK, LinkType, BeginReport
<1>4. CASE ViewChanged
  <2>1. alive'.digest = DigestOf[alive.live] /\ alive'.buf = alive.live
    BY <1>4 DEF BeginReport, FlushAlive
  <2>2. Fresh(r)' /\ report'[r].pc = "spawned"
    BY <1>1, <1>2, <1>4 DEF Fresh, Carrying
  <2>3. Coming'
    BY <2>2 DEF Coming, Fresh
  <2>4. \A q \in Reporters \ {r} : ~(Fresh(q)' /\ report'[q].pc = "post")
    BY <1>2, <1>4, RefillAges
  <2>5. link'.outdated
    BY <1>3, <1>4 DEF LinkType
  <2> QED BY <2>1, <2>2, <2>3, <2>4, <2>5 DEF AddressInv
<1>5. CASE ~ViewChanged
  <2>1. alive' = alive /\ \A q \in Reporters \ {r} : report'[q] = report[q]
    BY <1>2, <1>5 DEF BeginReport, FlushAlive, Disturbed
  <2>2. ~Fresh(r)' /\ ~Fresh(r)
    BY <1>1, <1>2, <1>5 DEF Fresh, Carrying
  <2>3. link'.queue = link.queue /\ link'.outdated = link.outdated /\ (missed => missed')
    BY <1>3, <1>5 DEF LinkType, BeginReport
  <2> QED BY <2>1, <2>2, <2>3, AddressFrame
<1> QED BY <1>4, <1>5

\* The device ticker's message becomes the last of the channel and the only new one.
LEMMA DeviceAddresses ==
  ASSUME TypeOK, AddressInv, DeviceTick
  PROVE  AddressInv'
<1>1. /\ ViewChanged /\ Send /\ report' = Disturbed /\ (missed' <=> ~Coming')
      /\ alive'.digest = DigestOf[alive.live] /\ alive'.buf = alive.live /\ alive.live \in Views
  BY DEF DeviceTick, FlushAlive, TypeOK
<1>2. \A r \in Reporters : ~(Fresh(r)' /\ report'[r].pc = "post")
  BY <1>1, RefillAges
<1>3. ASSUME ~link'.outdated, NEW i \in Waiting', \A j \in Waiting' : j <= i
      PROVE  DigestOf[link'.queue[i]] = alive'.digest
  <2> DEFINE n == Len(link.queue)
             T == Views \cup {"other"}
  <2>1. link.queue \in Seq(T) /\ n \in Nat /\ alive.live \in T
    BY <1>1 DEF TypeOK
  <2>2. link'.queue = Append(link.queue, alive.live)
    BY <1>1, <1>3 DEF Send, TypeOK
  <2>3. DOMAIN link'.queue = 1 .. n + 1 /\ link'.queue[n + 1] = alive.live
    BY <2>1, <2>2
  <2>4. n + 1 \in Waiting' /\ \A j \in Waiting' : j \in 1 .. n + 1
    BY <1>1, <2>1, <2>3, ViewAssumption DEF Waiting
  <2>5. i = n + 1
    BY <1>3, <2>1, <2>4
  <2> QED BY <1>1, <2>3, <2>5
<1> QED BY <1>1, <1>2, <1>3 DEF AddressInv

\* A report on its way: the buffer is read, the addresses are told or lost.
LEMMA ReportAddresses ==
  ASSUME IInv, AddressInv, NEW r \in Reporters, ReportStep(r)
  PROVE  AddressInv'
<1>1. report \in [Reporters -> ReportType]
  BY DEF IInv, TypeOK
<1>2. CASE ReadBuffer(r)
  <2>1. PICK pc \in {"reading", "post"} :
          report' = [report EXCEPT ![r].pc = pc] /\ (report[r].carries => pc = "reading")
    BY <1>2 DEF ReadBuffer
  <2>2. /\ report'[r].pc = pc /\ report'[r].carries = report[r].carries
        /\ report'[r].outdated = report[r].outdated
        /\ \A q \in Reporters \ {r} : report'[q] = report[q]
    BY <1>1, <2>1, SetPc DEF Pcs
  <2>3. report[r].pc = "spawned" /\ UNCHANGED <<link, panel, alive, missed>>
    BY <1>2 DEF ReadBuffer, At
  <2>4. /\ \A q \in Reporters : Fresh(q)' <=> Fresh(q)
        /\ Fresh(r)' => report'[r].pc # "post"
    BY <2>1, <2>2, <2>3 DEF Fresh, Carrying
  <2>5. Waiting' = Waiting
    BY <2>3 DEF Waiting
  <2>6. Coming' <=> Coming
    BY <2>3, <2>4, <2>5, ComingIs DEF Coming, Fresh
  <2> QED BY <2>2, <2>3, <2>4, <2>5, <2>6 DEF AddressInv
<1>3. CASE BufferRead(r)
  <2>1. report[r].pc = "reading" /\ UNCHANGED <<link, panel, alive, missed>>
    BY <1>3 DEF BufferRead, At
  <2>2. PICK v : /\ report' = [report EXCEPT ![r].pc = "post", ![r].view = v]
                 /\ ~report[r].outdated => v = alive.buf
    BY <1>3 DEF BufferRead
  <2>3. /\ report'[r].pc = "post" /\ report'[r].view = v
        /\ report'[r].carries = report[r].carries /\ report'[r].outdated = report[r].outdated
        /\ \A q \in Reporters \ {r} : report'[q] = report[q]
    BY <1>1, <2>2 DEF ReportType
  <2>4. \A q \in Reporters : Fresh(q)' <=> Fresh(q)
    BY <2>1, <2>3 DEF Fresh, Carrying
  <2>5. Waiting' = Waiting
    BY <2>1 DEF Waiting
  <2>6. Coming' <=> Coming
    BY <2>1, <2>4, <2>5, ComingIs DEF Coming, Fresh
  <2>7. Fresh(r)' => DigestOf[report'[r].view] = alive.digest
    BY <2>2, <2>3 DEF Fresh, AddressInv
  <2> QED BY <2>1, <2>3, <2>4, <2>5, <2>6, <2>7 DEF AddressInv
<1>4. CASE MapFault(r)
  BY <1>4, AddressFrame DEF MapFault
<1>5. CASE Arrive(r)
  <2> DEFINE told == report[r].carries /\ report[r].view # NoView
  <2>1. /\ report' = [report EXCEPT ![r].pc = "arrived", ![r].booked = TRUE]
        /\ report[r].pc = "post" /\ UNCHANGED <<link, alive>>
        /\ panel' = (IF told THEN report[r].view ELSE panel)
        /\ missed' = (missed \/ ((IF told THEN report[r].outdated ELSE Fresh(r)) /\ ~Coming'))
    BY <1>5 DEF Arrive, At, Astray, Fresh
  <2>2. report'[r].pc = "arrived" /\ \A q \in Reporters \ {r} : report'[q] = report[q]
    BY <1>1, <2>1 DEF ReportType
  <2>3. ~Fresh(r)' /\ \A q \in Reporters \ {r} : Fresh(q)' <=> Fresh(q)
    BY <2>2 DEF Fresh, Carrying
  <2>4. Waiting' = Waiting
    BY <2>1 DEF Waiting
  <2>5. ASSUME ~missed', ~Coming' PROVE DigestOf[panel'] = alive'.digest
    <3>1. CASE told
      <4>1. Fresh(r)
        BY <2>1, <2>5, <3>1 DEF Fresh, Carrying
      <4> QED BY <2>1, <3>1, <4>1 DEF AddressInv
    <3>2. CASE ~told
      <4>1. ~missed /\ ~Fresh(r)
        BY <2>1, <2>5, <3>2
      <4>2. ~Coming
        BY <2>1, <2>3, <2>4, <2>5, <4>1, ComingIs DEF Coming, Fresh
      <4> QED BY <2>1, <3>2, <4>1, <4>2 DEF AddressInv
    <3> QED BY <3>1, <3>2
  <2> QED BY <2>1, <2>2, <2>3, <2>4, <2>5 DEF AddressInv
<1>6. CASE Fail(r)
  <2>1. /\ report' = [report EXCEPT ![r].pc = "failed"] /\ UNCHANGED <<link, panel, alive>>
        /\ missed' = (missed \/ (Fresh(r) /\ ~Coming'))
    BY <1>6 DEF Fail, Astray, Fresh
  <2>2. report'[r].pc = "failed" /\ \A q \in Reporters \ {r} : report'[q] = report[q]
    BY <1>1, <2>1, SetPc DEF Pcs
  <2>3. ~Fresh(r)' /\ \A q \in Reporters \ {r} : Fresh(q)' <=> Fresh(q)
    BY <2>2 DEF Fresh, Carrying
  <2>4. Waiting' = Waiting
    BY <2>1 DEF Waiting
  <2>5. ASSUME ~missed', ~Coming' PROVE ~missed /\ ~Coming
    <3>1. ~missed /\ ~Fresh(r)
      BY <2>1, <2>5
    <3> QED BY <2>1, <2>3, <2>4, <2>5, <3>1, ComingIs DEF Coming, Fresh
  <2> QED BY <2>1, <2>2, <2>3, <2>4, <2>5 DEF AddressInv
<1> QED BY <1>2, <1>3, <1>4, <1>5, <1>6 DEF ReportStep

\* A report that is over was not under way any more.
LEMMA EndAddresses ==
  ASSUME IInv, AddressInv, Succeed \/ Restore \/ Release \/ FinishShutdown
  PROVE  AddressInv'
<1> DEFINE done == [Idle EXCEPT !.pc = "done"]
<1>1. PICK r \in Reporters, new \in {done, Idle} :
        /\ report' = [report EXCEPT ![r] = new]
        /\ report[r].pc \in {"arrived", "failed", "done"}
        /\ UNCHANGED <<link, panel, alive, missed>>
  <2>1. CASE Succeed \/ Restore
    BY <2>1, ReportersAre DEF Succeed, Restore, At
  <2>2. CASE Release \/ FinishShutdown
    BY <2>2, ReportersAre DEF Release, FinishShutdown, At
  <2> QED BY <2>1, <2>2
<1>2. new \in ReportType /\ new.pc \in {"idle", "done"}
  <2>1. Idle.pc = "idle"
    BY DEF Idle
  <2> QED BY <1>1, <2>1, DoneType, IdleType
<1>3. report'[r] = new /\ \A q \in Reporters \ {r} : report'[q] = report[q]
  BY <1>1, <1>2, Replaced DEF IInv, TypeOK
<1>4. ~Fresh(r) /\ ~Fresh(r)'
  BY <1>1, <1>2, <1>3 DEF Fresh, Carrying
<1> QED BY <1>1, <1>3, <1>4, AddressFrame

\* The writer: a dropped connection loses what waits, a written message is told.
LEMMA LinkAddresses ==
  ASSUME IInv, AddressInv, LinkOpens \/ LinkCloses \/ Clutter \/ WriteMessage
  PROVE  AddressInv'
<1> DEFINE T == Views \cup {"other"}
<1>1. link.queue \in Seq(T) /\ link \in LinkType
  BY DEF IInv, TypeOK, LinkType
<1>2. CASE LinkOpens
  <2>1. /\ link'.queue = link.queue /\ link'.outdated = link.outdated
        /\ UNCHANGED <<report, panel, alive, missed>>
    BY <1>1, <1>2 DEF LinkOpens, LinkType
  <2> QED BY <2>1, AddressFrame
<1>3. CASE LinkCloses
  <2>1. /\ UNCHANGED <<report, panel, alive>> /\ link'.outdated = link.outdated
        /\ link'.queue \in {<<>>, link.queue}
        /\ missed' = (missed \/ (Waiting # {} /\ ~link.outdated /\ ~Coming'))
    BY <1>1, <1>3 DEF LinkCloses, LinkType, Astray
  <2>2. Waiting' = {} \/ (Waiting' = Waiting /\ link'.queue = link.queue)
    BY <2>1 DEF Waiting
  <2>3. \A r \in Reporters : Fresh(r)' <=> Fresh(r)
    BY <2>1 DEF Fresh, Carrying
  <2>4. ASSUME ~missed', ~Coming' PROVE ~missed /\ ~Coming
    <3>1. ~missed /\ ~(Waiting # {} /\ ~link.outdated)
      BY <2>1, <2>4
    <3>2. \A r \in Reporters : ~Fresh(r)
      BY <2>3, <2>4 DEF Coming, Fresh
    <3> QED BY <3>1, <3>2, ComingIs
  <2> QED BY <2>1, <2>2, <2>3, <2>4 DEF AddressInv
<1>4. CASE Clutter
  <2>1. /\ link'.queue = Append(link.queue, "other") /\ link'.outdated = link.outdated
        /\ UNCHANGED <<report, panel, alive, missed>>
    BY <1>1, <1>4 DEF Clutter, LinkType
  <2>2. /\ Len(link.queue) \in Nat /\ DOMAIN link.queue = 1 .. Len(link.queue)
        /\ DOMAIN link'.queue = 1 .. Len(link.queue) + 1
        /\ link'.queue[Len(link.queue) + 1] = "other"
        /\ \A i \in 1 .. Len(link.queue) : link'.queue[i] = link.queue[i]
    BY <1>1, <2>1
  <2>3. Waiting' = Waiting
    BY <2>2 DEF Waiting
  <2>4. \A i \in Waiting : link'.queue[i] = link.queue[i]
    BY <2>2 DEF Waiting
  <2>5. \A r \in Reporters : Fresh(r)' <=> Fresh(r)
    BY <2>1 DEF Fresh, Carrying
  <2>6. Coming' <=> Coming
    BY <2>1, <2>3, <2>5, ComingIs DEF Coming, Fresh
  <2> QED BY <2>1, <2>3, <2>4, <2>5, <2>6 DEF AddressInv
<1>5. CASE WriteMessage
  <2>1. /\ link'.queue = Tail(link.queue) /\ link.queue # <<>> /\ link'.outdated = link.outdated
        /\ panel' = (IF Head(link.queue) = "other" THEN panel ELSE Head(link.queue))
        /\ UNCHANGED <<report, alive>>
        /\ missed' = (missed \/ (Head(link.queue) # "other" /\ link.outdated /\ ~Coming'))
    BY <1>1, <1>5 DEF WriteMessage, LinkType, Astray
  <2> DEFINE n == Len(link.queue)
  <2>2. /\ n \in Nat \ {0} /\ DOMAIN link.queue = 1 .. n /\ DOMAIN link'.queue = 1 .. n - 1
        /\ \A i \in 1 .. n - 1 : link'.queue[i] = link.queue[i + 1]
        /\ Head(link.queue) = link.queue[1]
    BY <1>1, <2>1
  <2> HIDE DEF n
  <2>3. \A i \in Nat \ {0} : i \in Waiting' <=> i + 1 \in Waiting
    BY <2>2 DEF Waiting
  <2>4. \A i \in Waiting' : i \in Nat \ {0} /\ link'.queue[i] = link.queue[i + 1]
    BY <2>2 DEF Waiting
  <2>5. \A r \in Reporters : Fresh(r)' <=> Fresh(r)
    BY <2>1 DEF Fresh, Carrying
  <2>6. \A i \in Waiting : i \in 1 .. n /\ (i # 1 => i - 1 \in Waiting')
    BY <2>2, <2>3 DEF Waiting
  <2>7. ASSUME ~link'.outdated, NEW i \in Waiting', \A j \in Waiting' : j <= i
        PROVE  DigestOf[link'.queue[i]] = alive'.digest
    <3>1. \A j \in Waiting : j <= i + 1
      BY <2>2, <2>4, <2>6, <2>7
    <3>2. i + 1 \in Waiting
      BY <2>3, <2>4
    <3> QED BY <2>1, <2>4, <2>7, <3>1, <3>2 DEF AddressInv
  <2>8. ASSUME ~missed', ~Coming' PROVE DigestOf[panel'] = alive'.digest
    <3>1. \A r \in Reporters : ~Fresh(r)
      BY <2>5, <2>8 DEF Coming, Fresh
    <3>2. Waiting' = {} \/ link.outdated
      BY <2>1, <2>8 DEF Coming
    <3>3. CASE Head(link.queue) = "other"
      <4>1. 1 \notin Waiting
        BY <2>2, <3>3 DEF Waiting
      <4>2. Waiting' = {} => Waiting = {}
        BY <2>6, <4>1
      <4>3. ~Coming
        BY <3>1, <3>2, <4>2, ComingIs
      <4> QED BY <2>1, <2>8, <3>3, <4>3 DEF AddressInv
    <3>4. CASE Head(link.queue) # "other"
      <4>1. ~link.outdated /\ Waiting' = {}
        BY <2>1, <2>8, <3>2, <3>4
      <4>2. 1 \in Waiting
        BY <2>2, <3>4 DEF Waiting
      <4>3. \A j \in Waiting : j <= 1
        BY <2>6, <4>1
      <4> QED BY <2>1, <2>2, <3>4, <4>1, <4>2, <4>3 DEF AddressInv
    <3> QED BY <3>3, <3>4
  <2>9. \A r \in Reporters : report'[r] = report[r]
    BY <2>1
  <2> QED BY <2>1, <2>5, <2>7, <2>8, <2>9 DEF AddressInv
<1> QED BY <1>2, <1>3, <1>4, <1>5

LEMMA AddressStep == IInv /\ AddressInv /\ [Next]_vars => AddressInv'
<1> SUFFICES ASSUME IInv, AddressInv, [Next]_vars PROVE AddressInv'
  OBVIOUS
<1>1. CASE World \/ Tick \/ AccessTick \/ UNCHANGED vars
  <2>1. /\ UNCHANGED <<report, link, panel, missed>>
        /\ alive'.digest = alive.digest /\ alive'.buf = alive.buf
    BY <1>1 DEF World, Use, UseDraining, Connections, RenewKernel, EditUsers, Tick, AccessTick,
                vars, IInv, TypeOK
  <2> QED BY <2>1, AddressFrame
<1>2. CASE ReportTick
  <2>1. CASE service.skip > 0
    BY <1>2, <2>1, AddressFrame DEF ReportTick
  <2>2. CASE ~(service.skip > 0)
    <3>1. BeginReport("async") /\ ~Carrying("async") /\ UNCHANGED panel
      BY <1>2, <2>2 DEF ReportTick, Carrying
    <3> QED BY <3>1, BeginAddresses, ReportersAre DEF IInv
  <2> QED BY <2>1, <2>2
<1>3. CASE Shutdown
  <2>1. BeginReport("sync") /\ ~Carrying("sync") /\ UNCHANGED panel
    BY <1>3 DEF Shutdown, Carrying, Running, IInv, Phases
  <2> QED BY <2>1, BeginAddresses, ReportersAre DEF IInv
<1>4. CASE DeviceTick
  BY <1>4, DeviceAddresses DEF IInv
<1>5. CASE \E r \in Reporters : ReportStep(r)
  BY <1>5, ReportAddresses
<1>6. CASE Succeed \/ Restore \/ Release \/ FinishShutdown
  BY <1>6, EndAddresses
<1>7. CASE LinkOpens \/ LinkCloses \/ Clutter \/ WriteMessage
  BY <1>7, LinkAddresses
<1> QED BY <1>1, <1>2, <1>3, <1>4, <1>5, <1>6, <1>7 DEF Next

\* Once every report and message with addresses has arrived, the panel knows the addresses the
\* tracker flushed last, however reports and device ticks overlapped (FlushAliveIPs,
\* sendDeviceBatch), unless these addresses were lost or older ones were heard after them.
THEOREM AddressesAreKnown == Spec => []AddressesKnown
<1>1. Init => AddressInv
  BY ReportersAre DEF Init, AddressInv, Fresh, Carrying, Waiting, Idle
<1>2. AddressInv => AddressesKnown
  <2>1. ~InFlight => ~Coming
    BY ComingIs DEF InFlight, Fresh
  <2> QED BY <2>1 DEF AddressInv, AddressesKnown
<1> QED BY <1>1, <1>2, AddressStep, MeteringInvariant, PTL DEF Spec
=============================================================================
