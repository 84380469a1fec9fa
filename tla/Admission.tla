----------------------------- MODULE Admission -----------------------------
(***************************************************************************)
(* Connections of one user entering and leaving through a device gate,     *)
(* while the service changes the user's limits, a kernel is restarted and  *)
(* the loop reads who is connected.  Every connection is a goroutine of    *)
(* the kernel; a step is what it does under one lock or in one atomic      *)
(* access.  With sing-box a connection also fetches the user's bandwidth   *)
(* bucket (internal/limiter/speedtracker.go).                              *)
(*                                                                         *)
(* Bounds: a cell or a bucket can only be made while Cells and Buckets     *)
(* have one that nothing refers to.                                        *)
(***************************************************************************)
EXTENDS DeviceGate

CONSTANTS
  Conns,      \* goroutines, each for one connection at a time
  Profiles,   \* what the panel may set for the user: device limit and speed
  Kernels,    \* which kernels to look at
  Buckets,    \* bandwidth buckets
  Budgets     \* how often the environment may act, by kind: the choices

BudgetKinds == {"open", "profile", "start", "world"}
ASSUME ConnAssumption == IsFiniteSet(Conns)
ASSUME ProfileAssumption == Profiles \subseteq [limit : Limits, speed : Nat]
ASSUME KernelAssumption == Kernels \subseteq {"xray", "singbox"}
ASSUME BudgetAssumption == Budgets \subseteq [BudgetKinds -> Nat]

Speeds   == {p.speed : p \in Profiles} \cup {0}
NoBucket == "none"

VARIABLES
  kernel,   \* "xray" or "singbox"
  gate,     \* the LimitDispatcher, or the ConnTracker's statistics
  conn,     \* the goroutines
  limits,   \* the Limiter's entry, and how far the loop is with handing it on
  world,    \* sing-box: the panel's view of the user's addresses
  bucket,   \* SpeedTracker: the user's bucket, every bucket's speed; history: deleted ones
  reading,  \* the loop ranges over the limited table, unlocked
  fault,    \* history: somebody wrote that table meanwhile
  crashed,  \* a write to a nil map ended the process
  budget

vars == <<kernel, gate, conn, limits, world, bucket, reading, fault, crashed, budget>>

Fresh == [pc |-> "new", ip |-> 0, tcp |-> TRUE, limit |-> 0, cell |-> NoCell, local |-> {},
          way |-> "none", speed |-> 0, bucket |-> NoBucket]

Init ==
  /\ kernel \in Kernels
  /\ gate = NewGate
  /\ conn = [c \in Conns |-> Fresh]
  /\ \E p \in Profiles : limits = [user |-> p, step |-> "kernel"]
  /\ world = Unknown
  /\ bucket = [current |-> NoBucket, speed |-> [b \in Buckets |-> 0], retired |-> {}]
  /\ reading = FALSE /\ fault = FALSE /\ crashed = FALSE
  /\ budget \in Budgets

Spend(kind) == budget[kind] > 0 /\ budget' = [budget EXCEPT ![kind] = @ - 1]

At(k, c, pc) == ~crashed /\ kernel = k /\ conn[c].pc = pc

\* A connection's step: what it remembers, and what becomes of the gate.
Move(c, k) == conn' = [conn EXCEPT ![c] = k] /\ UNCHANGED <<kernel, limits, world, budget, reading>>
Go(c, pc) == [conn[c] EXCEPT !.pc = pc]

\* A step that writes the limited table; the loop may be reading it.
WritesTable(g) == gate' = g /\ fault' = (fault \/ reading)

KeepsTable == UNCHANGED <<gate, fault>>

----------------------------------------------------------------------------
(* Somebody connects.                                                      *)

Open(c, ip, tcp) ==
  /\ ~crashed /\ conn[c].pc = "new" /\ Spend("open")
  /\ conn' = [conn EXCEPT ![c] = [Fresh EXCEPT !.pc = "look", !.ip = ip, !.tcp = tcp]]
  /\ UNCHANGED <<kernel, gate, limits, world, bucket, reading, fault, crashed>>

----------------------------------------------------------------------------
(* xray: checkDeviceLimit and delConn.                                     *)

\* The limit is read under the read lock.
ReadLimit(c) ==
  /\ At("xray", c, "look")
  /\ Move(c, [conn[c] EXCEPT !.limit = gate.limit,
                             !.pc = IF gate.limit > 0 THEN "check"
                                    ELSE IF conn[c].tcp THEN "store" ELSE "open"])
  /\ KeepsTable /\ UNCHANGED <<bucket, crashed>>

\* Without a limit: find or make the cell, then add to it.
StoreFree(c) ==
  LET held == {conn[d].cell : d \in Conns}
      x == CellFor(gate, conn[c].ip, held)
  IN /\ At("xray", c, "store")
     /\ gate.store[conn[c].ip] # NoCell \/ Unused(gate, held) # {}
     /\ Move(c, [Go(c, "add") EXCEPT !.cell = x])
     /\ gate' = StoreCell(gate, conn[c].ip, x)
     /\ UNCHANGED <<fault, bucket, crashed>>

AddFree(c) ==
  /\ At("xray", c, "add")
  /\ Move(c, [Go(c, "dispatch") EXCEPT !.cell = NoCell, !.way = "free"])
  /\ gate' = AddToCell(gate, conn[c].cell, 1)
  /\ UNCHANGED <<fault, bucket, crashed>>

\* With a limit: a decision under the read lock, which is released before it is acted on.
CheckLimited(c) ==
  /\ At("xray", c, "check")
  /\ LET known == Holds(gate, conn[c].ip)
         room  == HasRoom(gate, conn[c].limit)
     IN Move(c, Go(c, IF ~known /\ ~room THEN "decide"
                      ELSE IF ~conn[c].tcp THEN "dispatch"
                      ELSE IF known THEN "bump" ELSE "enter"))
  /\ KeepsTable /\ UNCHANGED <<bucket, crashed>>

\* The address was known: its entry is written, and is expected to be there.
Bump(c) ==
  /\ At("xray", c, "bump")
  /\ IF gate.entry
       THEN /\ Move(c, [Go(c, "dispatch") EXCEPT !.way = "limited"])
            /\ WritesTable(CountIn(gate, conn[c].ip, 1))
            /\ UNCHANGED crashed
       ELSE /\ crashed' = TRUE
            /\ UNCHANGED <<kernel, gate, conn, limits, world, reading, fault, budget>>
  /\ UNCHANGED bucket

\* There was room.
Enter(c) ==
  /\ At("xray", c, "enter")
  /\ Move(c, [Go(c, "dispatch") EXCEPT !.way = "limited"])
  /\ WritesTable(CountIn(gate, conn[c].ip, 1))
  /\ UNCHANGED <<bucket, crashed>>

\* A bug: the number of addresses is compared wrongly.
DecideStrict(c) ==
  LET refused == Refuses(gate, conn[c].ip, conn[c].limit - 1)
      tcp == conn[c].tcp /\ ~refused
  IN /\ At("xray", c, "decide")
     /\ Move(c, [conn[c] EXCEPT !.pc = IF refused THEN "refused" ELSE "dispatch",
                                !.way = IF tcp THEN "limited" ELSE "none"])
     /\ WritesTable(CountIn(gate, conn[c].ip, IF tcp THEN 1 ELSE 0))
     /\ UNCHANGED <<bucket, crashed>>

\* Over the limit, or the first address: decided again under the write lock.
Decide(c) ==
  LET refused == Refuses(gate, conn[c].ip, conn[c].limit)
      tcp == conn[c].tcp /\ ~refused
  IN /\ At("xray", c, "decide")
     /\ Move(c, [conn[c] EXCEPT !.pc = IF refused THEN "refused" ELSE "dispatch",
                                !.way = IF tcp THEN "limited" ELSE "none"])
     /\ WritesTable(CountIn(gate, conn[c].ip, IF tcp THEN 1 ELSE 0))
     /\ UNCHANGED <<bucket, crashed>>

\* The inner dispatcher takes the connection, or refuses it and it is taken out again.
Dispatch(c) ==
  /\ At("xray", c, "dispatch")
  /\ \E pc \in {"open", IF conn[c].tcp THEN "leave" ELSE "new"} :
       Move(c, IF pc = "new" THEN Fresh ELSE Go(c, pc))
  /\ KeepsTable /\ UNCHANGED <<bucket, crashed>>

Close(c) ==
  /\ At("xray", c, "open")
  /\ Move(c, IF conn[c].tcp THEN Go(c, "leave") ELSE Fresh)
  /\ KeepsTable /\ UNCHANGED <<bucket, crashed>>

\* delConn looks among the cells first, if the user ever had one.
Leave(c) ==
  LET x == gate.store[conn[c].ip]
  IN /\ At("xray", c, "leave")
     /\ Move(c, IF ~gate.free THEN Go(c, "uncount")
                ELSE IF x = NoCell THEN Fresh ELSE [Go(c, "sub") EXCEPT !.cell = x])
     /\ KeepsTable /\ UNCHANGED <<bucket, crashed>>

Uncount(c) ==
  /\ At("xray", c, "uncount")
  /\ Move(c, Fresh)
  /\ WritesTable(CountOut(gate, conn[c].ip))
  /\ UNCHANGED <<bucket, crashed>>

\* A bug: the counter is looked at, and never decreased.
SubFreeNot(c) ==
  /\ At("xray", c, "sub")
  /\ Move(c, IF gate.cell[conn[c].cell] <= 0 THEN Go(c, "drop") ELSE Fresh)
  /\ UNCHANGED <<gate, fault, bucket, crashed>>

SubFree(c) ==
  LET left == gate.cell[conn[c].cell] - 1
  IN /\ At("xray", c, "sub")
     /\ Move(c, IF left <= 0 THEN [Go(c, "drop") EXCEPT !.way = "none", !.cell = NoCell] ELSE Fresh)
     /\ gate' = AddToCell(gate, conn[c].cell, -1)
     /\ UNCHANGED <<fault, bucket, crashed>>

\* The entry is deleted by its address, whatever cell is there by now.
DropFree(c) ==
  /\ At("xray", c, "drop")
  /\ Move(c, Fresh)
  /\ gate' = DropCell(gate, conn[c].ip)
  /\ UNCHANGED <<fault, bucket, crashed>>

XrayStep(c) ==
  \/ ReadLimit(c) \/ StoreFree(c) \/ AddFree(c) \/ CheckLimited(c) \/ Bump(c)
  \/ Enter(c) \/ Decide(c) \/ Dispatch(c) \/ Close(c) \/ Leave(c)
  \/ Uncount(c) \/ SubFree(c) \/ DropFree(c)

----------------------------------------------------------------------------
(* sing-box: RoutedConnection, checkDeviceGate, GetLimiter and Close.      *)

\* deviceLimitFunc asks the Limiter itself.
LookUpLimit(c) ==
  /\ At("singbox", c, "look")
  /\ Move(c, [Go(c, "snapshot") EXCEPT !.limit = limits.user.limit])
  /\ KeepsTable /\ UNCHANGED <<bucket, crashed>>

SnapshotLocal(c) ==
  /\ At("singbox", c, "snapshot")
  /\ Move(c, [Go(c, "gate") EXCEPT !.local = Counted(gate)])
  /\ KeepsTable /\ UNCHANGED <<bucket, crashed>>

PassGate(c) ==
  /\ At("singbox", c, "gate")
  /\ Move(c, Go(c, IF GateRefuses(conn[c].local, world, conn[c].ip, conn[c].limit)
                     THEN "refused" ELSE "join"))
  /\ KeepsTable /\ UNCHANGED <<bucket, crashed>>

Join(c) ==
  /\ At("singbox", c, "join")
  /\ Move(c, [Go(c, "bucket") EXCEPT !.way = "limited", !.local = {}])
  /\ gate' = AddConn(gate, conn[c].ip)
  /\ UNCHANGED <<fault, bucket, crashed>>

\* GetLimiter: the bucket if there is one,
FindBucket(c) ==
  /\ At("singbox", c, "bucket")
  /\ Move(c, IF bucket.current # NoBucket THEN [Go(c, "open") EXCEPT !.bucket = bucket.current]
                                          ELSE Go(c, "speed"))
  /\ KeepsTable /\ UNCHANGED <<bucket, crashed>>

\* otherwise the user's speed, under another lock,
ReadSpeed(c) ==
  /\ At("singbox", c, "speed")
  /\ Move(c, IF limits.user.speed = 0 THEN Go(c, "open")
             ELSE [Go(c, "make") EXCEPT !.speed = limits.user.speed])
  /\ KeepsTable /\ UNCHANGED <<bucket, crashed>>

Unheld == {b \in Buckets : b # bucket.current /\ \A c \in Conns : conn[c].bucket # b}

Made(b, speed) == [current |-> b, speed |-> [bucket.speed EXCEPT ![b] = speed],
                   retired |-> bucket.retired \ {b}]

\* A bug: two connections that found no bucket both store theirs.
MakeBucketUnchecked(c) ==
  LET b == CHOOSE x \in Unheld : TRUE
  IN /\ At("singbox", c, "make")
     /\ Move(c, [Go(c, "open") EXCEPT !.bucket = b])
     /\ bucket' = Made(b, conn[c].speed)
     /\ KeepsTable /\ UNCHANGED crashed

\* and a new bucket, unless another connection was faster.
MakeBucket(c) ==
  LET b == IF bucket.current # NoBucket THEN bucket.current ELSE CHOOSE x \in Unheld : TRUE
  IN /\ At("singbox", c, "make")
     /\ bucket.current # NoBucket \/ Unheld # {}
     /\ Move(c, [Go(c, "open") EXCEPT !.bucket = b])
     /\ bucket' = IF bucket.current # NoBucket THEN bucket ELSE Made(b, conn[c].speed)
     /\ KeepsTable /\ UNCHANGED crashed

\* A bug: Close may run twice, once for each direction.
CloseTwice(c) ==
  /\ At("singbox", c, "open")
  /\ Move(c, Fresh)
  /\ \E n \in {1, 2} : gate' = IF n = 1 THEN RemoveConn(gate, conn[c].ip)
                               ELSE RemoveConn(RemoveConn(gate, conn[c].ip), conn[c].ip)
  /\ UNCHANGED <<fault, bucket, crashed>>

\* The first Close counts.
CloseTracked(c) ==
  /\ At("singbox", c, "open")
  /\ Move(c, Fresh)
  /\ gate' = RemoveConn(gate, conn[c].ip)
  /\ UNCHANGED <<fault, bucket, crashed>>

SingStep(c) ==
  \/ LookUpLimit(c) \/ SnapshotLocal(c) \/ PassGate(c) \/ Join(c) \/ FindBucket(c)
  \/ ReadSpeed(c) \/ MakeBucket(c) \/ CloseTracked(c)

\* A refused connection is over.
Turned(c) ==
  /\ ~crashed /\ conn[c].pc = "refused"
  /\ Move(c, Fresh)
  /\ KeepsTable /\ UNCHANGED <<bucket, crashed>>

----------------------------------------------------------------------------
(* The service's loop.                                                     *)

LoopAt(step) == ~crashed /\ ~reading /\ limits.step = step

\* prepareUserState: first the Limiter,
SetProfile(p) ==
  /\ LoopAt("idle") /\ p # limits.user /\ Spend("profile")
  /\ limits' = [user |-> p, step |-> "buckets"]
  /\ UNCHANGED <<kernel, gate, conn, world, bucket, reading, fault, crashed>>

\* then UpdateBuckets: the bucket gets the new speed, or goes,
UpdateBuckets ==
  LET speed == limits.user.speed
      b == bucket.current
  IN /\ LoopAt("buckets")
     /\ limits' = [limits EXCEPT !.step = "kernel"]
     /\ bucket' = IF b = NoBucket THEN bucket
                  ELSE IF speed > 0 THEN [bucket EXCEPT !.speed[b] = speed]
                  ELSE [bucket EXCEPT !.current = NoBucket, !.retired = @ \cup {b}]
     /\ UNCHANGED <<kernel, gate, conn, world, reading, fault, crashed, budget>>

\* then the kernel; also the last step of xray's Start.
UpdateLimits ==
  /\ LoopAt("kernel")
  /\ limits' = [limits EXCEPT !.step = "idle"]
  /\ gate' = [gate EXCEPT !.limit = IF kernel = "xray" THEN limits.user.limit ELSE @]
  /\ UNCHANGED <<kernel, conn, world, bucket, reading, fault, crashed, budget>>

\* A new instance accepts connections before it is told the limits.  Those of the old one
\* go on with its gate.
StartKernel ==
  /\ LoopAt("idle") /\ Spend("start")
  /\ gate' = NewGate
  /\ conn' = [c \in Conns |-> Fresh]
  /\ limits' = [limits EXCEPT !.step = "kernel"]
  /\ UNCHANGED <<kernel, world, bucket, reading, fault, crashed>>

\* The panel's view arrives, is cleared, or is a minute old.
ChangeWorld(w) ==
  /\ ~crashed /\ ~reading /\ kernel = "singbox" /\ w # world /\ Spend("world")
  /\ world' = w
  /\ UNCHANGED <<kernel, gate, conn, limits, bucket, reading, fault, crashed>>

\* GetConnectionState takes a reference to the limited table under the lock,
BeginRead ==
  /\ kernel = "xray" /\ LoopAt("idle") /\ gate.entry
  /\ reading' = TRUE
  /\ UNCHANGED <<kernel, gate, conn, limits, world, bucket, fault, crashed, budget>>

\* and ranges over it without; the runtime aborts the process if it notices a write.
EndRead ==
  /\ ~crashed /\ reading
  /\ reading' = FALSE
  /\ crashed' \in {FALSE, fault}
  /\ fault' = FALSE
  /\ UNCHANGED <<kernel, gate, conn, limits, world, bucket, budget>>

Loop == \/ \E p \in Profiles : SetProfile(p)
        \/ UpdateBuckets \/ UpdateLimits \/ StartKernel \/ BeginRead \/ EndRead
        \/ \E w \in {v \in View : v.known \/ v = Unknown} : ChangeWorld(w)

Next == \/ Loop
        \/ \E c \in Conns : \/ \E ip \in Ips, tcp \in BOOLEAN : Open(c, ip, tcp)
                            \/ XrayStep(c) \/ SingStep(c) \/ Turned(c)

Spec == Init /\ [][Next]_vars

----------------------------------------------------------------------------
(* Properties.                                                             *)

Pcs == {"new", "look", "store", "add", "check", "bump", "enter", "decide", "dispatch", "open",
        "leave", "uncount", "sub", "drop", "refused", "snapshot", "gate", "join", "bucket",
        "speed", "make"}

ConnType == [pc : Pcs, ip : Ips \cup {0}, tcp : BOOLEAN, limit : Limits,
             cell : Cells \cup {NoCell}, local : SUBSET Ips, way : {"none", "limited", "free"},
             speed : Speeds, bucket : Buckets \cup {NoBucket}]

\* Types; a user without an entry has no counted addresses.
TypeOK ==
  /\ kernel \in {"xray", "singbox"}
  /\ gate \in Gate
  /\ kernel = "xray" /\ ~gate.entry => Counted(gate) = {}
  /\ conn \in [Conns -> ConnType]
  /\ limits \in [user : Profiles, step : {"idle", "buckets", "kernel"}]
  /\ world \in View
  /\ bucket \in [current : Buckets \cup {NoBucket}, speed : [Buckets -> Speeds],
                 retired : SUBSET Buckets]
  /\ reading \in BOOLEAN /\ fault \in BOOLEAN /\ crashed \in BOOLEAN
  /\ budget \in [BudgetKinds -> Nat]

Using(ip, way) == {c \in Conns : conn[c].ip = ip /\ conn[c].way = way}

\* An address is counted once for each connection that entered from it and has not left
\* (checkDeviceLimit, delConn, addConn, removeConn), whatever the order of the steps of
\* several connections; with xray, as long as the user never connected without a limit.
CountsAreExact ==
  kernel = "singbox" \/ ~gate.free =>
    \A ip \in Ips : gate.refs[ip] = Cardinality(Using(ip, "limited"))

\* The lock-free cells (unlimitedIPs) never claim more than there is: deletions that race
\* with additions lose addresses, they do not invent any.
CellsNeverInvent ==
  \A ip \in Ips : gate.store[ip] # NoCell =>
    gate.cell[gate.store[ip]] <= Cardinality(Using(ip, "free"))

\* xray turns a connection away only if as many other addresses as its limit allows are
\* connected at that moment (checkDeviceLimit's second decision).
Others(c) == {ip \in Ips \ {conn[c].ip} : Using(ip, "limited") # {}}
RefusalsAreJust ==
  [][\A c \in Conns : conn[c].pc = "decide" /\ conn'[c].pc = "refused" /\ ~gate.free
       => Cardinality(Others(c)) >= conn[c].limit]_vars

\* All connections of a user draw on one bucket, except those that hold a bucket deleted
\* since (GetLimiter creates it on demand, for several connections at once).
BucketIsShared ==
  \A c \in Conns : conn[c].bucket \in {NoBucket, bucket.current} \cup bucket.retired
=============================================================================
