--------------------------- MODULE AdmissionProofs ---------------------------
(***************************************************************************)
(* Theorems about Admission: the device gates count exactly the            *)
(* connections there are, in whatever order the steps of any number of     *)
(* connections are taken, and what follows from that.                      *)
(***************************************************************************)
EXTENDS Admission, FiniteSetTheorems, TLAPS

----------------------------------------------------------------------------
(* Operations on a gate.                                                   *)

LEMMA NewGateOK == NewGate \in Gate
BY DeviceLimitAssumption DEF NewGate, Gate

LEMMA CountInIs ==
  ASSUME NEW g \in Gate, NEW ip \in Ips, NEW n
  PROVE  CountIn(g, ip, n)
           = [limit |-> g.limit, entry |-> TRUE, refs |-> [g.refs EXCEPT ![ip] = @ + n],
              free |-> g.free, store |-> g.store, cell |-> g.cell]
<1> DEFINE h == CountIn(g, ip, n)
<1>1. g = [limit |-> g.limit, entry |-> g.entry, refs |-> g.refs,
           free |-> g.free, store |-> g.store, cell |-> g.cell]
  BY DEF Gate
<1>2. h = [g EXCEPT !.entry = TRUE, !.refs[ip] = @ + n]
  BY DEF CountIn
<1>3. /\ h.limit = g.limit /\ h.free = g.free /\ h.store = g.store /\ h.cell = g.cell
      /\ h.entry = TRUE /\ h.refs = [g.refs EXCEPT ![ip] = @ + n]
      /\ h = [limit |-> h.limit, entry |-> h.entry, refs |-> h.refs,
              free |-> h.free, store |-> h.store, cell |-> h.cell]
  BY <1>1, <1>2
<1> QED BY <1>3

LEMMA CountOutOK ==
  ASSUME NEW g \in Gate, NEW ip \in Ips, ~g.entry => Counted(g) = {}
  PROVE  LET h == CountOut(g, ip) IN
         /\ h \in Gate
         /\ h.limit = g.limit /\ h.free = g.free /\ h.store = g.store /\ h.cell = g.cell
         /\ h.refs[ip] = IF g.refs[ip] > 0 THEN g.refs[ip] - 1 ELSE 0
         /\ \A a \in Ips \ {ip} : h.refs[a] = g.refs[a]
         /\ ~h.entry => Counted(h) = {}
<1> DEFINE h == CountOut(g, ip)
<1>1. CASE ~g.entry
  <2>1. h = g /\ g.refs[ip] = 0
    BY <1>1 DEF CountOut, Counted, Gate
  <2> QED BY <2>1, <1>1 DEF Gate
<1>2. CASE g.entry
  <2> DEFINE left == Counted(g) \ (IF g.refs[ip] <= 1 THEN {ip} ELSE {})
  <2>1. h = [g EXCEPT !.refs[ip] = IF @ > 0 THEN @ - 1 ELSE 0, !.entry = left # {}]
    BY <1>2 DEF CountOut
  <2>2. g.refs \in [Ips -> Nat] /\ g = [limit |-> g.limit, entry |-> g.entry, refs |-> g.refs,
                                        free |-> g.free, store |-> g.store, cell |-> g.cell]
    BY DEF Gate
  <2>3. /\ h.limit = g.limit /\ h.free = g.free /\ h.store = g.store /\ h.cell = g.cell
        /\ h.entry = (left # {})
        /\ h.refs = [g.refs EXCEPT ![ip] = IF @ > 0 THEN @ - 1 ELSE 0]
        /\ h = [limit |-> h.limit, entry |-> h.entry, refs |-> h.refs,
                free |-> h.free, store |-> h.store, cell |-> h.cell]
    BY <2>1, <2>2
  <2> HIDE DEF h
  <2>4. /\ h.refs[ip] = IF g.refs[ip] > 0 THEN g.refs[ip] - 1 ELSE 0
        /\ \A a \in Ips \ {ip} : h.refs[a] = g.refs[a]
        /\ h.refs \in [Ips -> Nat]
    BY <2>2, <2>3
  <2>5. h \in Gate
    BY <2>3, <2>4 DEF Gate
  <2>6. Counted(h) = left
    BY <2>2, <2>4 DEF Counted
  <2> QED BY <2>3, <2>4, <2>5, <2>6 DEF h
<1> QED BY <1>1, <1>2 DEF Gate

LEMMA StoreCellIs ==
  ASSUME NEW g \in Gate, NEW ip \in Ips, NEW x \in Cells
  PROVE  StoreCell(g, ip, x)
           = [limit |-> g.limit, entry |-> g.entry, refs |-> g.refs, free |-> TRUE,
              store |-> [g.store EXCEPT ![ip] = x],
              cell |-> [g.cell EXCEPT ![x] = IF g.store[ip] = x THEN @ ELSE 0]]
<1> DEFINE h == StoreCell(g, ip, x)
<1>1. g = [limit |-> g.limit, entry |-> g.entry, refs |-> g.refs,
           free |-> g.free, store |-> g.store, cell |-> g.cell]
  BY DEF Gate
<1>2. h = [g EXCEPT !.free = TRUE, !.store[ip] = x, !.cell[x] = IF g.store[ip] = x THEN @ ELSE 0]
  BY DEF StoreCell
<1>3. /\ h.limit = g.limit /\ h.entry = g.entry /\ h.refs = g.refs /\ h.free = TRUE
      /\ h.store = [g.store EXCEPT ![ip] = x]
      /\ h.cell = [g.cell EXCEPT ![x] = IF g.store[ip] = x THEN @ ELSE 0]
      /\ h = [limit |-> h.limit, entry |-> h.entry, refs |-> h.refs,
              free |-> h.free, store |-> h.store, cell |-> h.cell]
  BY <1>1, <1>2
<1> QED BY <1>3

LEMMA AddToCellOK ==
  ASSUME NEW g \in Gate, NEW x \in Cells, NEW n \in Int
  PROVE  LET h == AddToCell(g, x, n) IN
         /\ h \in Gate
         /\ h.limit = g.limit /\ h.free = g.free /\ h.store = g.store /\ h.entry = g.entry
         /\ h.refs = g.refs
         /\ h.cell[x] = g.cell[x] + n /\ \A y \in Cells \ {x} : h.cell[y] = g.cell[y]
BY DEF Gate, AddToCell

LEMMA DropCellOK ==
  ASSUME NEW g \in Gate, NEW ip \in Ips
  PROVE  LET h == DropCell(g, ip) IN
         /\ h \in Gate
         /\ h.limit = g.limit /\ h.free = g.free /\ h.cell = g.cell /\ h.entry = g.entry
         /\ h.refs = g.refs
         /\ h.store[ip] = NoCell /\ \A a \in Ips \ {ip} : h.store[a] = g.store[a]
BY DEF Gate, DropCell

LEMMA TrackOK ==
  ASSUME NEW g \in Gate, NEW ip \in Ips, NEW h \in {AddConn(g, ip), RemoveConn(g, ip)}
  PROVE  /\ h \in Gate
         /\ h.limit = g.limit /\ h.free = g.free /\ h.store = g.store /\ h.cell = g.cell
         /\ h = AddConn(g, ip) => h.refs[ip] = g.refs[ip] + 1
         /\ h = RemoveConn(g, ip) => h.refs[ip] = IF g.refs[ip] > 0 THEN g.refs[ip] - 1 ELSE 0
         /\ \A a \in Ips \ {ip} : h.refs[a] = g.refs[a]
BY DEF Gate, AddConn, RemoveConn

----------------------------------------------------------------------------
(* Counting connections.                                                   *)

\* 1 if something is so, 0 if not: what one connection adds to a count.
One(is) == IF is THEN 1 ELSE 0

\* What a set of connections counts after one of them changed.
LEMMA CountChanges ==
  ASSUME NEW S \in SUBSET Conns, NEW T \in SUBSET Conns, NEW c \in Conns,
         \A d \in Conns \ {c} : d \in S <=> d \in T
  PROVE  /\ Cardinality(S) \in Nat /\ Cardinality(T) \in Nat
         /\ Cardinality(T) + One(c \in S) = Cardinality(S) + One(c \in T)
<1>1. IsFiniteSet(S) /\ IsFiniteSet(T)
  BY ConnAssumption, FS_Subset
<1>2. Cardinality(S) \in Nat /\ Cardinality(T) \in Nat
  BY <1>1, FS_CardinalityType
<1>3. CASE (c \in S) = (c \in T)
  <2>1. S = T
    BY <1>3
  <2> QED BY <1>2, <2>1 DEF One
<1>4. CASE c \in S /\ c \notin T
  <2>1. T = S \ {c}
    BY <1>4
  <2> QED BY <1>1, <1>2, <1>4, <2>1, FS_RemoveElement DEF One
<1>5. CASE c \notin S /\ c \in T
  <2>1. T = S \cup {c}
    BY <1>5
  <2> QED BY <1>1, <1>2, <1>5, <2>1, FS_AddElement DEF One
<1> QED BY <1>2, <1>3, <1>4, <1>5

----------------------------------------------------------------------------
(* The invariant.                                                          *)

XrayPcs == {"new", "look", "store", "add", "check", "bump", "enter", "decide", "dispatch",
            "open", "leave", "uncount", "sub", "drop", "refused"}
SingPcs == {"new", "look", "snapshot", "gate", "join", "bucket", "speed", "make", "open",
            "refused"}

\* How a connection is counted at each place of its way.  With xray only TCP is counted at
\* all, and one that is or was counted in a cell has left the user's entry there for good.
ProperXray(k, free) ==
  /\ k.pc \in XrayPcs
  /\ k.way = "none" <=> \/ k.pc \in {"new", "look", "store", "add", "check", "bump", "enter",
                                     "decide", "drop", "refused"}
                        \/ k.pc \in {"dispatch", "open"} /\ ~k.tcp
  /\ k.pc \in {"store", "add", "bump", "enter"} => k.tcp
  /\ k.pc = "uncount" => k.way = "limited"
  /\ k.way = "free" \/ k.pc \in {"add", "sub", "drop"} => free
  /\ k.pc \in {"add", "sub"} => k.cell # NoCell

ProperSing(k) ==
  /\ k.pc \in SingPcs
  /\ k.way = IF k.pc \in {"bucket", "speed", "make", "open"} THEN "limited" ELSE "none"

Proper(k, free) ==
  /\ k.pc # "new" => k.ip \in Ips
  /\ kernel = "xray" => ProperXray(k, free)
  /\ kernel = "singbox" => ProperSing(k)

Records == \A c \in Conns : Proper(conn[c], gate.free)

\* A cell belongs to one address, whoever holds it.
Owners ==
  \A ip \in Ips : gate.store[ip] # NoCell =>
    /\ \A a \in Ips : gate.store[a] = gate.store[ip] => a = ip
    /\ \A c \in Conns : conn[c].cell = gate.store[ip] => conn[c].ip = ip

Limited(k, ip) == k.ip = ip /\ k.way = "limited"

\* A connection that will take itself out of the cell stored for its address now, unless
\* that goes first.
Committed(k, ip, g) == k.ip = ip /\ k.way = "free" /\ (k.pc = "sub" => k.cell = g.store[ip])

CellsBounded ==
  \A ip \in Ips : gate.store[ip] # NoCell =>
    gate.cell[gate.store[ip]] <= Cardinality({c \in Conns : Committed(conn[c], ip, gate)})

IInv == TypeOK /\ Records /\ CountsAreExact /\ Owners /\ CellsBounded /\ BucketIsShared

----------------------------------------------------------------------------
(* What a step of a connection does.                                       *)

\* The table of limited addresses moves with the connection that is counted in it.
RefsFollow(c, k) ==
  kernel = "singbox" \/ ~gate'.free =>
    \A ip \in Ips : gate'.refs[ip] + One(Limited(conn[c], ip)) = gate.refs[ip] + One(Limited(k, ip))

\* A cell is given up, or new and empty, or holds no more than before for the connections
\* that will take themselves out of it.
CellsFollow(c, k) ==
  \A ip \in Ips : gate'.store[ip] # NoCell =>
    /\ k.cell = gate'.store[ip] => k.ip = ip
    /\ \/ /\ gate'.store[ip] = gate.store[ip]
          /\ gate'.cell[gate.store[ip]] + One(Committed(conn[c], ip, gate))
               <= gate.cell[gate.store[ip]] + One(Committed(k, ip, gate'))
       \/ /\ gate'.cell[gate'.store[ip]] = 0
          /\ \A a \in Ips : gate.store[a] # gate'.store[ip]
          /\ \A a \in Ips \ {ip} : gate'.store[a] = gate.store[a]
          /\ \A d \in Conns \ {c} : conn[d].cell # gate'.store[ip]

Effect(c, k) ==
  /\ k \in ConnType /\ conn' = [conn EXCEPT ![c] = k]
  /\ UNCHANGED <<kernel, limits, world, reading>>
  /\ fault' \in BOOLEAN /\ crashed' \in BOOLEAN
  /\ gate' \in Gate /\ (gate.free => gate'.free)
  /\ kernel = "xray" /\ ~gate'.entry => Counted(gate') = {}
  /\ Proper(k, gate'.free) /\ RefsFollow(c, k) /\ CellsFollow(c, k)

Known(c) ==
  /\ conn[c] \in ConnType /\ conn \in [Conns -> ConnType]
  /\ gate \in Gate /\ (kernel = "xray" /\ ~gate.entry => Counted(gate) = {})
  /\ fault \in BOOLEAN /\ crashed \in BOOLEAN /\ reading \in BOOLEAN
  /\ Proper(conn[c], gate.free)
  /\ Owners

LEMMA Knowing == ASSUME IInv, NEW c \in Conns PROVE Known(c)
BY DEF IInv, TypeOK, Records, Known

LEMMA FreshType == Fresh \in ConnType /\ Proper(Fresh, TRUE) /\ \A free : Proper(Fresh, free)
BY DeviceLimitAssumption DEF Fresh, ConnType, Pcs, Proper, ProperXray, ProperSing, XrayPcs, SingPcs,
   Speeds

\* A step that leaves the gate alone.
LEMMA Looks ==
  ASSUME NEW c \in Conns, Known(c), NEW k \in ConnType, conn' = [conn EXCEPT ![c] = k],
         UNCHANGED <<kernel, gate, limits, world, reading, fault>>, crashed' \in BOOLEAN,
         Proper(k, gate.free),
         \A ip \in Ips :
           (Limited(conn[c], ip) <=> Limited(k, ip)) \/ (kernel = "xray" /\ gate.free),
         \A ip \in Ips : gate.store[ip] # NoCell =>
           /\ Committed(conn[c], ip, gate) => Committed(k, ip, gate)
           /\ k.cell = gate.store[ip] => k.ip = ip
  PROVE  Effect(c, k)
<1>1. RefsFollow(c, k)
  BY DEF RefsFollow, Known, One
<1>2. CellsFollow(c, k)
  BY DEF CellsFollow, Known, One, Gate
<1> QED BY <1>1, <1>2 DEF Effect, Known

----------------------------------------------------------------------------
(* xray: steps that look.                                                  *)

Like(k, r) == /\ k.ip = r.ip /\ k.tcp = r.tcp /\ k.limit = r.limit /\ k.local = r.local
              /\ k.speed = r.speed /\ k.bucket = r.bucket

LEMMA GoFields ==
  ASSUME NEW c \in Conns, conn[c] \in ConnType, NEW pc \in Pcs
  PROVE  /\ Go(c, pc) \in ConnType /\ Go(c, pc).pc = pc /\ Go(c, pc).cell = conn[c].cell
         /\ Go(c, pc).way = conn[c].way /\ Like(Go(c, pc), conn[c])
BY DEF ConnType, Like, Go

LEMMA MoreFields ==
  ASSUME NEW r \in ConnType, NEW k, NEW pc \in Pcs, NEW cell \in Cells \cup {NoCell},
         NEW way \in {"none", "limited", "free"},
         k = [r EXCEPT !.pc = pc, !.way = way, !.cell = cell]
  PROVE  k \in ConnType /\ k.pc = pc /\ k.cell = cell /\ k.way = way /\ Like(k, r)
BY DEF ConnType, Like

\* A step that only goes on to another place.
LEMMA Goes ==
  ASSUME NEW c \in Conns, Known(c), NEW pc \in Pcs, conn' = [conn EXCEPT ![c] = Go(c, pc)],
         UNCHANGED <<kernel, gate, limits, world, reading, budget, fault>>, crashed' \in BOOLEAN,
         conn[c].pc # "new", pc # "sub",
         kernel = "xray" => ProperXray(Go(c, pc), gate.free),
         kernel = "singbox" => ProperSing(Go(c, pc))
  PROVE  Effect(c, Go(c, pc))
<1> DEFINE k == Go(c, pc)
<1>1. k \in ConnType /\ k.pc = pc /\ k.cell = conn[c].cell /\ k.way = conn[c].way
      /\ k.ip = conn[c].ip
  BY GoFields DEF Known, Like
<1>2. Proper(k, gate.free)
  BY <1>1 DEF Proper, Known
<1>3. \A ip \in Ips : (Limited(conn[c], ip) <=> Limited(k, ip))
  BY <1>1 DEF Limited
<1>4. \A ip \in Ips : gate.store[ip] # NoCell =>
        /\ Committed(conn[c], ip, gate) => Committed(k, ip, gate)
        /\ k.cell = gate.store[ip] => k.ip = ip
  BY <1>1 DEF Committed, Known, Owners
<1> HIDE DEF k
<1> QED BY <1>1, <1>2, <1>3, <1>4, Looks DEF k

\* A connection is over, and was not counted, or only where nothing is claimed any more.
LEMMA Ends ==
  ASSUME NEW c \in Conns, Known(c), conn' = [conn EXCEPT ![c] = Fresh],
         UNCHANGED <<kernel, gate, limits, world, reading, budget, fault>>, crashed' \in BOOLEAN,
         \A ip \in Ips : ~Limited(conn[c], ip) \/ (kernel = "xray" /\ gate.free),
         \A ip \in Ips : gate.store[ip] # NoCell => ~Committed(conn[c], ip, gate)
  PROVE  Effect(c, Fresh)
<1>1. \A ip \in Ips : ~Limited(Fresh, ip)
  BY DEF Limited, Fresh
<1>2. Fresh.cell = NoCell
  BY DEF Fresh
<1> QED BY <1>1, <1>2, FreshType, Looks DEF Known

LEMMA ReadLimitEffect ==
  ASSUME NEW c \in Conns, Known(c), ReadLimit(c)
  PROVE  \E k \in ConnType : Effect(c, k)
<1> DEFINE pc == IF gate.limit > 0 THEN "check" ELSE IF conn[c].tcp THEN "store" ELSE "open"
           k == [conn[c] EXCEPT !.limit = gate.limit, !.pc = pc]
<1>1. /\ conn' = [conn EXCEPT ![c] = k] /\ kernel = "xray" /\ conn[c].pc = "look"
      /\ UNCHANGED <<kernel, gate, limits, world, reading, budget, fault, crashed>>
  BY DEF ReadLimit, At, Move, KeepsTable
<1>2. /\ k \in ConnType /\ k.pc = pc /\ k.cell = conn[c].cell /\ k.way = conn[c].way
      /\ k.ip = conn[c].ip /\ k.tcp = conn[c].tcp
  BY ZenonT(30) DEF Known, ConnType, Gate, Pcs
<1> HIDE DEF k
<1>3. conn[c].way = "none" /\ conn[c].ip \in Ips
  BY <1>1 DEF Known, Proper, ProperXray
<1>4. Proper(k, gate.free)
  BY <1>1, <1>2, <1>3 DEF Proper, ProperXray, XrayPcs
<1>5. \A ip \in Ips : (Limited(conn[c], ip) <=> Limited(k, ip))
  BY <1>2 DEF Limited
<1>6. \A ip \in Ips : gate.store[ip] # NoCell =>
        /\ Committed(conn[c], ip, gate) => Committed(k, ip, gate)
        /\ k.cell = gate.store[ip] => k.ip = ip
  BY <1>2, <1>3 DEF Committed, Known, Owners
<1> HIDE DEF pc
<1> QED BY <1>1, <1>2, <1>4, <1>5, <1>6, Looks DEF Known

LEMMA CheckLimitedEffect ==
  ASSUME NEW c \in Conns, Known(c), CheckLimited(c)
  PROVE  \E k \in ConnType : Effect(c, k)
<1>1. PICK pc \in {"decide", "dispatch", "bump", "enter"} :
        /\ conn' = [conn EXCEPT ![c] = Go(c, pc)] /\ kernel = "xray" /\ conn[c].pc = "check"
        /\ pc = "dispatch" => ~conn[c].tcp
        /\ pc \in {"bump", "enter"} => conn[c].tcp
        /\ UNCHANGED <<kernel, gate, limits, world, reading, budget, fault, crashed>>
  BY Zenon DEF CheckLimited, At, Move, KeepsTable
<1>2. pc \in Pcs /\ conn[c].way = "none"
  BY <1>1 DEF Pcs, Known, Proper, ProperXray
<1>3. ProperXray(Go(c, pc), gate.free)
  BY <1>1, <1>2, GoFields DEF ProperXray, XrayPcs, Known, Like
<1>4. Effect(c, Go(c, pc))
  BY <1>1, <1>2, <1>3, Goes DEF Known
<1> QED BY <1>4 DEF Effect

LEMMA DispatchEffect ==
  ASSUME NEW c \in Conns, Known(c), Dispatch(c) \/ Close(c)
  PROVE  \E k \in ConnType : Effect(c, k)
<1>1. PICK pc \in {"open", "leave", "new"} :
        /\ conn' = [conn EXCEPT ![c] = IF pc = "new" THEN Fresh ELSE Go(c, pc)]
        /\ kernel = "xray" /\ conn[c].pc \in {"dispatch", "open"}
        /\ pc = "leave" => conn[c].tcp
        /\ pc = "new" => ~conn[c].tcp
        /\ UNCHANGED <<kernel, gate, limits, world, reading, budget, fault, crashed>>
  BY DEF Dispatch, Close, At, Move, KeepsTable
<1>2. pc \in Pcs /\ (conn[c].way = "none" <=> ~conn[c].tcp) /\ (conn[c].way = "free" => gate.free)
  BY <1>1 DEF Pcs, Known, Proper, ProperXray
<1>3. CASE pc = "new"
  <2>1. Effect(c, Fresh)
    BY <1>1, <1>2, <1>3, Ends DEF Known, Limited, Committed
  <2> QED BY <2>1 DEF Effect
<1>4. CASE pc # "new"
  <2>1. ProperXray(Go(c, pc), gate.free)
    BY <1>1, <1>2, <1>4, GoFields DEF ProperXray, XrayPcs, Known, Like
  <2>2. Effect(c, Go(c, pc))
    BY <1>1, <1>2, <1>4, <2>1, Goes DEF Known
  <2> QED BY <2>2 DEF Effect
<1> QED BY <1>3, <1>4

LEMMA LeaveEffect ==
  ASSUME NEW c \in Conns, Known(c), Leave(c)
  PROVE  \E k \in ConnType : Effect(c, k)
<1> DEFINE x == gate.store[conn[c].ip]
<1>1. /\ conn' = [conn EXCEPT ![c] = IF ~gate.free THEN Go(c, "uncount")
                                     ELSE IF x = NoCell THEN Fresh
                                     ELSE [Go(c, "sub") EXCEPT !.cell = x]]
      /\ kernel = "xray" /\ conn[c].pc = "leave"
      /\ UNCHANGED <<kernel, gate, limits, world, reading, budget, fault, crashed>>
  BY DEF Leave, At, Move, KeepsTable
<1>2. /\ conn[c].way \in {"limited", "free"} /\ (conn[c].way = "free" => gate.free)
      /\ conn[c].ip \in Ips /\ x \in Cells \cup {NoCell}
  BY <1>1 DEF Known, Proper, ProperXray, ConnType, Gate
<1> HIDE DEF x
<1>3. CASE ~gate.free
  <2>1. ProperXray(Go(c, "uncount"), gate.free)
    BY <1>1, <1>2, <1>3, GoFields DEF ProperXray, XrayPcs, Known, Like, Pcs
  <2>2. Effect(c, Go(c, "uncount"))
    BY <1>1, <1>2, <1>3, <2>1, Goes DEF Known, Pcs
  <2> QED BY <2>2 DEF Effect
<1>4. CASE gate.free /\ x = NoCell
  <2>1. Effect(c, Fresh)
    BY <1>1, <1>2, <1>4, Ends DEF Known, Committed, x
  <2> QED BY <2>1 DEF Effect
<1>5. CASE gate.free /\ x # NoCell
  <2> DEFINE k == [conn[c] EXCEPT !.pc = "sub", !.cell = x]
  <2>1. conn' = [conn EXCEPT ![c] = k]
    BY <1>1, <1>5 DEF Go
  <2>2. /\ k \in ConnType /\ k.pc = "sub" /\ k.cell = x /\ k.way = conn[c].way
        /\ k.ip = conn[c].ip /\ k.tcp = conn[c].tcp
    BY <1>2 DEF Known, ConnType, Pcs
  <2> HIDE DEF k
  <2>3. Proper(k, gate.free)
    BY <1>1, <1>2, <1>5, <2>2 DEF Proper, ProperXray, XrayPcs
  <2>4. \A ip \in Ips : gate.store[ip] # NoCell =>
          /\ Committed(conn[c], ip, gate) => Committed(k, ip, gate)
          /\ k.cell = gate.store[ip] => k.ip = ip
    BY <1>2, <2>2 DEF Committed, Known, Owners, x
  <2>5. Effect(c, k)
    BY <1>1, <1>5, <2>1, <2>2, <2>3, <2>4, Looks DEF Known
  <2> QED BY <2>2, <2>5
<1> QED BY <1>3, <1>4, <1>5

LEMMA TurnedEffect ==
  ASSUME NEW c \in Conns, Known(c), Turned(c), kernel \in {"xray", "singbox"}
  PROVE  \E k \in ConnType : Effect(c, k)
<1>1. /\ conn' = [conn EXCEPT ![c] = Fresh] /\ conn[c].pc = "refused"
      /\ UNCHANGED <<kernel, gate, limits, world, reading, budget, fault, crashed>>
  BY DEF Turned, Move, KeepsTable
<1>2. conn[c].way = "none"
  BY <1>1 DEF Known, Proper, ProperXray, ProperSing
<1>3. Effect(c, Fresh)
  BY <1>1, <1>2, Ends DEF Known, Limited, Committed
<1> QED BY <1>3 DEF Effect

----------------------------------------------------------------------------
(* xray: steps that count.                                                 *)

\* A step that leaves the cells alone.
LEMMA CellsStay ==
  ASSUME NEW c \in Conns, Known(c), NEW k \in ConnType, gate' \in Gate,
         gate'.store = gate.store, gate'.cell = gate.cell, k.cell \in {conn[c].cell, NoCell},
         k.cell # NoCell => k.ip = conn[c].ip,
         \A ip \in Ips : ~Committed(conn[c], ip, gate)
  PROVE  CellsFollow(c, k)
BY DEF CellsFollow, Known, Owners, One, Gate

LEMMA CountsIn ==
  ASSUME NEW c \in Conns, Known(c), NEW k \in ConnType, conn' = [conn EXCEPT ![c] = k],
         UNCHANGED <<kernel, limits, world, reading, budget>>, crashed' \in BOOLEAN,
         fault' \in BOOLEAN, NEW n \in {0, 1}, conn[c].ip \in Ips,
         gate' = CountIn(gate, conn[c].ip, n), kernel = "xray",
         k.ip = conn[c].ip, k.cell = conn[c].cell, conn[c].way = "none",
         k.way = IF n = 1 THEN "limited" ELSE "none", ProperXray(k, gate.free)
  PROVE  Effect(c, k)
<1>0. gate \in Gate
  BY DEF Known
<1>1. /\ gate' \in Gate /\ gate'.free = gate.free
      /\ gate'.store = gate.store /\ gate'.cell = gate.cell
      /\ gate'.refs[conn[c].ip] = gate.refs[conn[c].ip] + n
      /\ \A a \in Ips \ {conn[c].ip} : gate'.refs[a] = gate.refs[a]
  <2>1. gate' = [limit |-> gate.limit, entry |-> TRUE,
                 refs |-> [gate.refs EXCEPT ![conn[c].ip] = @ + n],
                 free |-> gate.free, store |-> gate.store, cell |-> gate.cell]
    BY <1>0, CountInIs
  <2> QED BY <1>0, <2>1 DEF Gate
<1>2. RefsFollow(c, k)
  <2>1. \A ip \in Ips : ~Limited(conn[c], ip) /\ (Limited(k, ip) <=> ip = conn[c].ip /\ n = 1)
    BY DEF Limited
  <2>2. \A ip \in Ips : gate.refs[ip] \in Nat
    BY DEF Known, Gate
  <2> QED BY <1>1, <2>1, <2>2 DEF RefsFollow, One
<1>3. CellsFollow(c, k)
  BY <1>1, CellsStay DEF Committed
<1>4. gate'.entry = TRUE
  BY <1>0, CountInIs
<1> QED BY <1>1, <1>2, <1>3, <1>4 DEF Effect, Proper

LEMMA BumpEffect ==
  ASSUME NEW c \in Conns, Known(c), Bump(c) \/ Enter(c)
  PROVE  \E k \in ConnType : Effect(c, k)
<1>1. kernel = "xray" /\ conn[c].pc \in {"bump", "enter"}
  BY DEF Bump, Enter, At
<1>2. conn[c].way = "none" /\ conn[c].tcp /\ conn[c].ip \in Ips
  BY <1>1 DEF Known, Proper, ProperXray
<1>3. CASE Bump(c) /\ ~gate.entry
  <2>1. /\ UNCHANGED <<kernel, gate, conn, limits, world, reading, fault, budget>>
        /\ crashed' \in BOOLEAN
    BY <1>3 DEF Bump
  <2>2. conn' = [conn EXCEPT ![c] = conn[c]]
    BY <2>1 DEF Known
  <2>3. \A ip \in Ips : gate.store[ip] # NoCell =>
          (conn[c].cell = gate.store[ip] => conn[c].ip = ip)
    BY DEF Known, Owners
  <2>4. conn[c] \in ConnType /\ Proper(conn[c], gate.free)
    BY DEF Known
  <2>5. Effect(c, conn[c])
    BY <2>1, <2>2, <2>3, <2>4, Looks
  <2> QED BY <2>4, <2>5
<1>4. CASE gate.entry \/ Enter(c)
  <2> DEFINE k == [conn[c] EXCEPT !.pc = "dispatch", !.way = "limited"]
  <2>1. /\ conn' = [conn EXCEPT ![c] = k] /\ gate' = CountIn(gate, conn[c].ip, 1)
        /\ UNCHANGED <<kernel, limits, world, reading, budget, crashed>>
        /\ fault' = (fault \/ reading)
    BY <1>4 DEF Bump, Enter, Move, WritesTable, Go
  <2>2. /\ k \in ConnType /\ k.pc = "dispatch" /\ k.way = "limited" /\ k.cell = conn[c].cell
        /\ k.ip = conn[c].ip /\ k.tcp = conn[c].tcp
    BY DEF Known, ConnType, Pcs
  <2> HIDE DEF k
  <2>3. ProperXray(k, gate.free)
    BY <1>2, <2>2 DEF ProperXray, XrayPcs
  <2>4. crashed' \in BOOLEAN /\ fault' \in BOOLEAN
    BY <2>1 DEF Known
  <2>5. Effect(c, k)
    BY <1>1, <1>2, <2>1, <2>2, <2>3, <2>4, CountsIn
  <2> QED BY <2>2, <2>5
<1> QED BY <1>3, <1>4

LEMMA DecideEffect ==
  ASSUME NEW c \in Conns, Known(c), Decide(c)
  PROVE  \E k \in ConnType : Effect(c, k)
<1> DEFINE refused == Refuses(gate, conn[c].ip, conn[c].limit)
           tcp == conn[c].tcp /\ ~refused
           pc == IF refused THEN "refused" ELSE "dispatch"
           way == IF tcp THEN "limited" ELSE "none"
           n == IF tcp THEN 1 ELSE 0
           k == [conn[c] EXCEPT !.pc = pc, !.way = way]
<1>1. /\ conn' = [conn EXCEPT ![c] = k] /\ gate' = CountIn(gate, conn[c].ip, n)
      /\ UNCHANGED <<kernel, limits, world, reading, budget, crashed>>
      /\ fault' = (fault \/ reading) /\ kernel = "xray" /\ conn[c].pc = "decide"
  BY DEF Decide, Move, WritesTable, At
<1>2. conn[c].way = "none" /\ conn[c].ip \in Ips /\ conn[c].tcp \in BOOLEAN
  BY <1>1 DEF Known, Proper, ProperXray, ConnType
<1> HIDE DEF refused
<1>3. /\ k \in ConnType /\ k.pc = pc /\ k.way = way /\ k.cell = conn[c].cell
      /\ k.ip = conn[c].ip /\ k.tcp = conn[c].tcp
  BY ZenonT(30) DEF Known, ConnType, Pcs
<1> HIDE DEF k
<1>4. ProperXray(k, gate.free)
  BY <1>2, <1>3 DEF ProperXray, XrayPcs
<1>5. crashed' \in BOOLEAN /\ fault' \in BOOLEAN /\ n \in {0, 1}
      /\ way = IF n = 1 THEN "limited" ELSE "none"
  BY <1>1, <1>2 DEF Known
<1> HIDE DEF tcp, pc, n, way
<1>6. Effect(c, k)
  BY <1>1, <1>2, <1>3, <1>4, <1>5, CountsIn
<1> QED BY <1>3, <1>6

\* A connection that is counted finds its address counted.
LEMMA CountedWhileUsing ==
  ASSUME NEW c \in Conns, Known(c), CountsAreExact, kernel = "singbox" \/ ~gate.free,
         conn[c].way = "limited", conn[c].ip \in Ips
  PROVE  gate.refs[conn[c].ip] \in Nat /\ gate.refs[conn[c].ip] > 0
<1> DEFINE S == Using(conn[c].ip, "limited")
<1>1. gate.refs[conn[c].ip] = Cardinality(S)
  BY DEF CountsAreExact
<1>2. c \in S /\ S \in SUBSET Conns
  BY DEF Using
<1>3. IsFiniteSet(S)
  BY <1>2, ConnAssumption, FS_Subset
<1>4. gate.refs[conn[c].ip] \in Nat
  BY DEF Known, Gate
<1> HIDE DEF S
<1>5. Cardinality(S) # 0
  BY <1>2, <1>3, FS_EmptySet
<1> QED BY <1>1, <1>4, <1>5

LEMMA UncountEffect ==
  ASSUME NEW c \in Conns, Known(c), Uncount(c), CountsAreExact
  PROVE  \E k \in ConnType : Effect(c, k)
<1>1. /\ conn' = [conn EXCEPT ![c] = Fresh] /\ gate' = CountOut(gate, conn[c].ip)
      /\ UNCHANGED <<kernel, limits, world, reading, budget, crashed>>
      /\ fault' = (fault \/ reading) /\ kernel = "xray" /\ conn[c].pc = "uncount"
  BY DEF Uncount, Move, WritesTable, At
<1>2. conn[c].way = "limited" /\ conn[c].ip \in Ips
  BY <1>1 DEF Known, Proper, ProperXray
<1>3. /\ gate' \in Gate /\ gate'.free = gate.free
      /\ gate'.store = gate.store /\ gate'.cell = gate.cell
      /\ gate'.refs[conn[c].ip] = IF gate.refs[conn[c].ip] > 0 THEN gate.refs[conn[c].ip] - 1 ELSE 0
      /\ \A a \in Ips \ {conn[c].ip} : gate'.refs[a] = gate.refs[a]
      /\ ~gate'.entry => Counted(gate') = {}
  BY <1>1, <1>2, CountOutOK DEF Known
<1>4. RefsFollow(c, Fresh)
  <2> SUFFICES ASSUME ~gate.free
               PROVE  RefsFollow(c, Fresh)
    BY <1>1, <1>3 DEF RefsFollow
  <2>1. \A ip \in Ips : ~Limited(Fresh, ip) /\ (Limited(conn[c], ip) <=> ip = conn[c].ip)
    BY <1>2 DEF Limited, Fresh
  <2>2. \A ip \in Ips : gate.refs[ip] \in Nat
    BY DEF Known, Gate
  <2>3. gate.refs[conn[c].ip] > 0
    BY <1>2, CountedWhileUsing
  <2> QED BY <1>2, <1>3, <2>1, <2>2, <2>3 DEF RefsFollow, One
<1>5. CellsFollow(c, Fresh)
  BY <1>2, <1>3, FreshType, CellsStay DEF Committed, Fresh
<1>6. Effect(c, Fresh)
  BY <1>1, <1>3, <1>4, <1>5, FreshType DEF Effect, Known
<1> QED BY <1>6, FreshType

----------------------------------------------------------------------------
(* xray: steps that concern the cells.                                     *)

LEMMA StoreFreeEffect ==
  ASSUME NEW c \in Conns, Known(c), StoreFree(c)
  PROVE  \E k \in ConnType : Effect(c, k)
<1> DEFINE ip == conn[c].ip
           held == {conn[d].cell : d \in Conns}
           x == CellFor(gate, ip, held)
           k == [conn[c] EXCEPT !.pc = "add", !.cell = x]
<1>1. /\ conn' = [conn EXCEPT ![c] = k] /\ gate' = StoreCell(gate, ip, x)
      /\ gate.store[ip] # NoCell \/ Unused(gate, held) # {}
      /\ UNCHANGED <<kernel, limits, world, reading, budget, fault, crashed>>
      /\ kernel = "xray" /\ conn[c].pc = "store"
  BY DEF StoreFree, Move, At, Go
<1>2. conn[c].way = "none" /\ ip \in Ips /\ conn[c].tcp
  BY <1>1 DEF Known, Proper, ProperXray
<1>3. gate.store[ip] \in Cells \cup {NoCell}
  BY <1>2 DEF Known, Gate
<1>4. \/ gate.store[ip] # NoCell /\ x = gate.store[ip]
      \/ gate.store[ip] = NoCell /\ x \in Unused(gate, held)
  BY <1>1 DEF CellFor
<1>5. x \in Cells /\ x # NoCell
  BY <1>3, <1>4, CellAssumption DEF Unused, NoCell
<1>6. CASE gate.store[ip] # NoCell
  <2> HIDE DEF x
  <2>1. /\ gate' \in Gate /\ gate'.free /\ gate'.entry = gate.entry /\ gate'.refs = gate.refs
        /\ \A a \in Ips : gate'.store[a] = gate.store[a]
        /\ \A y \in Cells : gate'.cell[y] = gate.cell[y]
    <3>1. gate' = [limit |-> gate.limit, entry |-> gate.entry, refs |-> gate.refs, free |-> TRUE,
                   store |-> [gate.store EXCEPT ![ip] = x],
                   cell |-> [gate.cell EXCEPT ![x] = IF gate.store[ip] = x THEN @ ELSE 0]]
      BY <1>1, <1>2, <1>5, StoreCellIs, ZenonT(30) DEF Known
    <3> QED BY <1>2, <1>4, <1>5, <1>6, <3>1 DEF Known, Gate
  <2>2. /\ k \in ConnType /\ k.pc = "add" /\ k.cell = x /\ k.way = conn[c].way
        /\ k.ip = ip /\ k.tcp = conn[c].tcp
    BY <1>5 DEF Known, ConnType, Pcs
  <2> HIDE DEF k
  <2>3. CellsFollow(c, k)
    BY <1>2, <1>4, <1>6, <2>1, <2>2 DEF CellsFollow, Committed, Known, Owners, One, Gate
  <2>4. Proper(k, gate'.free)
    BY <1>1, <1>2, <1>5, <2>1, <2>2 DEF Proper, ProperXray, XrayPcs
  <2>5. RefsFollow(c, k)
    BY <1>1, <2>1 DEF RefsFollow
  <2>6. Counted(gate') = Counted(gate)
    BY <2>1 DEF Counted
  <2>7. Effect(c, k)
    BY <1>1, <2>1, <2>2, <2>3, <2>4, <2>5, <2>6 DEF Effect, Known
  <2> QED BY <2>2, <2>7
<1>7. CASE gate.store[ip] = NoCell
  <2>1. /\ \A d \in Conns : conn[d].cell # x
        /\ \A a \in Ips : gate.store[a] # x
    BY <1>4, <1>7 DEF Unused
  <2> HIDE DEF x
  <2>2. /\ gate' \in Gate /\ gate'.free /\ gate'.entry = gate.entry /\ gate'.refs = gate.refs
        /\ gate'.store[ip] = x /\ \A a \in Ips \ {ip} : gate'.store[a] = gate.store[a]
        /\ gate'.cell[x] = 0 /\ \A y \in Cells \ {x} : gate'.cell[y] = gate.cell[y]
    <3>1. gate' = [limit |-> gate.limit, entry |-> gate.entry, refs |-> gate.refs, free |-> TRUE,
                   store |-> [gate.store EXCEPT ![ip] = x],
                   cell |-> [gate.cell EXCEPT ![x] = IF gate.store[ip] = x THEN @ ELSE 0]]
      BY <1>1, <1>2, <1>5, StoreCellIs, ZenonT(30) DEF Known
    <3> QED BY <1>2, <1>5, <2>1, <3>1 DEF Known, Gate
  <2>3. /\ k \in ConnType /\ k.pc = "add" /\ k.cell = x /\ k.way = conn[c].way
        /\ k.ip = ip /\ k.tcp = conn[c].tcp
    BY <1>5 DEF Known, ConnType, Pcs
  <2> HIDE DEF k
  <2>4. CellsFollow(c, k)
    <3> SUFFICES ASSUME NEW a \in Ips, gate'.store[a] # NoCell
                 PROVE  /\ k.cell = gate'.store[a] => k.ip = a
                        /\ \/ /\ gate'.store[a] = gate.store[a]
                              /\ gate'.cell[gate.store[a]] + One(Committed(conn[c], a, gate))
                                   <= gate.cell[gate.store[a]] + One(Committed(k, a, gate'))
                           \/ /\ gate'.cell[gate'.store[a]] = 0
                              /\ \A b \in Ips : gate.store[b] # gate'.store[a]
                              /\ \A b \in Ips \ {a} : gate'.store[b] = gate.store[b]
                              /\ \A d \in Conns \ {c} : conn[d].cell # gate'.store[a]
      BY DEF CellsFollow
    <3>1. CASE a = ip
      <4>1. gate'.store[ip] = x /\ gate'.cell[x] = 0
        BY <2>2
      <4>2. gate'.store[a] = x /\ gate'.cell[gate'.store[a]] = 0
        BY <3>1, <4>1
      <4> QED BY <2>1, <2>2, <2>3, <3>1, <4>2
    <3>2. CASE a # ip
      <4>1. gate'.store[a] = gate.store[a] /\ gate.store[a] \in Cells /\ gate.store[a] # x
        BY <1>2, <2>1, <2>2, <3>2 DEF Known, Gate
      <4>2. gate'.cell[gate.store[a]] = gate.cell[gate.store[a]]
            /\ gate.cell[gate.store[a]] \in Int
        BY <2>2, <4>1 DEF Known, Gate
      <4>3. ~Committed(conn[c], a, gate) /\ ~Committed(k, a, gate')
        BY <1>2, <2>3 DEF Committed
      <4> QED BY <2>3, <3>2, <4>1, <4>2, <4>3 DEF One
    <3> QED BY <3>1, <3>2
  <2>5. Proper(k, gate'.free)
    BY <1>1, <1>2, <1>5, <2>2, <2>3 DEF Proper, ProperXray, XrayPcs
  <2>6. RefsFollow(c, k)
    BY <1>1, <2>2 DEF RefsFollow
  <2>7. Counted(gate') = Counted(gate)
    BY <2>2 DEF Counted
  <2>8. Effect(c, k)
    BY <1>1, <2>2, <2>3, <2>4, <2>5, <2>6, <2>7 DEF Effect, Known
  <2> QED BY <2>3, <2>8
<1> QED BY <1>6, <1>7

\* One more or one less in the connection's cell; k is the connection afterwards.
LEMMA CellMoves ==
  ASSUME NEW c \in Conns, Known(c), NEW k \in ConnType, conn' = [conn EXCEPT ![c] = k],
         NEW n \in {1, -1}, gate' = AddToCell(gate, conn[c].cell, n), conn[c].cell \in Cells,
         UNCHANGED <<kernel, limits, world, reading, budget, fault, crashed>>,
         kernel = "xray", gate.free, Proper(k, TRUE), k.cell = NoCell,
         n = 1 => \A ip \in Ips : ~Committed(conn[c], ip, gate),
         n = 1 => \A ip \in Ips : gate.store[ip] = conn[c].cell => Committed(k, ip, gate),
         \A ip \in Ips : gate.store[ip] # conn[c].cell => ~Committed(conn[c], ip, gate),
         k.pc # "sub"
  PROVE  Effect(c, k)
<1>1. gate' \in Gate /\ gate'.free /\ gate'.entry = gate.entry /\ gate'.refs = gate.refs
      /\ gate'.store = gate.store /\ gate'.cell[conn[c].cell] = gate.cell[conn[c].cell] + n
      /\ \A y \in Cells \ {conn[c].cell} : gate'.cell[y] = gate.cell[y]
  BY AddToCellOK DEF Known
<1>2. \A ip \in Ips : Committed(k, ip, gate') <=> Committed(k, ip, gate)
  BY DEF Committed
<1>3. \A ip \in Ips : gate.store[ip] # NoCell => gate.store[ip] \in Cells
                       /\ gate.cell[gate.store[ip]] \in Int
  BY DEF Known, Gate
<1>4. CellsFollow(c, k)
  <2> SUFFICES ASSUME NEW ip \in Ips, gate.store[ip] # NoCell
               PROVE  gate'.cell[gate.store[ip]] + One(Committed(conn[c], ip, gate))
                        <= gate.cell[gate.store[ip]] + One(Committed(k, ip, gate'))
    BY <1>1 DEF CellsFollow
  <2>1. CASE gate.store[ip] = conn[c].cell
    BY <1>1, <1>2, <1>3, <2>1 DEF One
  <2>2. CASE gate.store[ip] # conn[c].cell
    BY <1>1, <1>2, <1>3, <2>2 DEF One
  <2> QED BY <2>1, <2>2
<1>5. RefsFollow(c, k)
  BY <1>1 DEF RefsFollow
<1>6. Counted(gate') = Counted(gate)
  BY <1>1 DEF Counted
<1> QED BY <1>1, <1>4, <1>5, <1>6 DEF Effect, Known

LEMMA AddFreeEffect ==
  ASSUME NEW c \in Conns, Known(c), AddFree(c)
  PROVE  \E k \in ConnType : Effect(c, k)
<1> DEFINE k == [conn[c] EXCEPT !.pc = "dispatch", !.cell = NoCell, !.way = "free"]
<1>1. /\ conn' = [conn EXCEPT ![c] = k] /\ gate' = AddToCell(gate, conn[c].cell, 1)
      /\ UNCHANGED <<kernel, limits, world, reading, budget, fault, crashed>>
      /\ kernel = "xray" /\ conn[c].pc = "add"
  BY DEF AddFree, Move, At, Go
<1>2. /\ conn[c].way = "none" /\ conn[c].ip \in Ips /\ conn[c].tcp /\ gate.free
      /\ conn[c].cell \in Cells
  BY <1>1 DEF Known, Proper, ProperXray, ConnType
<1>3. /\ k \in ConnType /\ k.pc = "dispatch" /\ k.cell = NoCell /\ k.way = "free"
      /\ k.ip = conn[c].ip /\ k.tcp = conn[c].tcp
  BY DEF Known, ConnType, Pcs
<1> HIDE DEF k
<1>4. Proper(k, TRUE)
  BY <1>1, <1>2, <1>3 DEF Proper, ProperXray, XrayPcs
<1>5. \A ip \in Ips : ~Committed(conn[c], ip, gate)
  BY <1>2 DEF Committed
<1>6. \A ip \in Ips : gate.store[ip] = conn[c].cell => Committed(k, ip, gate)
  BY <1>2, <1>3, CellAssumption DEF Committed, Known, Owners, NoCell
<1>7. Effect(c, k)
  BY <1>1, <1>2, <1>3, <1>4, <1>5, <1>6, CellMoves
<1> QED BY <1>3, <1>7

LEMMA SubFreeEffect ==
  ASSUME NEW c \in Conns, Known(c), SubFree(c)
  PROVE  \E k \in ConnType : Effect(c, k)
<1> DEFINE left == gate.cell[conn[c].cell] - 1
           drop == [conn[c] EXCEPT !.pc = "drop", !.way = "none", !.cell = NoCell]
<1>1. /\ conn' = [conn EXCEPT ![c] = IF left <= 0 THEN drop ELSE Fresh]
      /\ gate' = AddToCell(gate, conn[c].cell, -1)
      /\ UNCHANGED <<kernel, limits, world, reading, budget, fault, crashed>>
      /\ kernel = "xray" /\ conn[c].pc = "sub"
  BY DEF SubFree, Move, At, Go
<1>2. conn[c].ip \in Ips /\ gate.free /\ conn[c].cell \in Cells
  BY <1>1 DEF Known, Proper, ProperXray, ConnType
<1>3. \A ip \in Ips : gate.store[ip] # conn[c].cell => ~Committed(conn[c], ip, gate)
  BY <1>1 DEF Committed
<1>0. -1 \in {1, -1} /\ ~(-1 = 1)
  OBVIOUS
<1>4. CASE left <= 0
  <2>1. conn' = [conn EXCEPT ![c] = drop]
    BY <1>1, <1>4
  <2>2. /\ drop \in ConnType /\ drop.pc = "drop" /\ drop.cell = NoCell /\ drop.way = "none"
        /\ drop.ip = conn[c].ip
    BY DEF Known, ConnType, Pcs
  <2> HIDE DEF drop, left
  <2>3. Proper(drop, TRUE)
    BY <1>1, <1>2, <2>2 DEF Proper, ProperXray, XrayPcs
  <2>5. drop.pc # "sub"
    BY <2>2
  <2>6. Effect(c, drop)
    BY <1>0, <1>1, <1>2, <1>3, <2>1, <2>2, <2>3, <2>5, CellMoves, Zenon
  <2> QED BY <2>2, <2>6
<1>5. CASE ~(left <= 0)
  <2>1. conn' = [conn EXCEPT ![c] = Fresh]
    BY <1>1, <1>5
  <2>2. Fresh.pc # "sub" /\ Fresh.cell = NoCell
    BY DEF Fresh
  <2> HIDE DEF left
  <2>3. Effect(c, Fresh)
    BY <1>0, <1>1, <1>2, <1>3, <2>1, <2>2, FreshType, CellMoves, Zenon
  <2> QED BY <2>3, FreshType
<1> QED BY <1>4, <1>5

LEMMA DropFreeEffect ==
  ASSUME NEW c \in Conns, Known(c), DropFree(c)
  PROVE  \E k \in ConnType : Effect(c, k)
<1>1. /\ conn' = [conn EXCEPT ![c] = Fresh] /\ gate' = DropCell(gate, conn[c].ip)
      /\ UNCHANGED <<kernel, limits, world, reading, budget, fault, crashed>>
      /\ kernel = "xray" /\ conn[c].pc = "drop"
  BY DEF DropFree, Move, At
<1>2. conn[c].ip \in Ips /\ gate.free /\ conn[c].way = "none"
  BY <1>1 DEF Known, Proper, ProperXray
<1>3. gate' \in Gate /\ gate'.free /\ gate'.entry = gate.entry /\ gate'.refs = gate.refs
      /\ gate'.cell = gate.cell
      /\ gate'.store[conn[c].ip] = NoCell
      /\ \A a \in Ips \ {conn[c].ip} : gate'.store[a] = gate.store[a]
  BY <1>1, <1>2, DropCellOK DEF Known
<1>4. CellsFollow(c, Fresh)
  <2>1. \A ip \in Ips : /\ ~Committed(conn[c], ip, gate) /\ ~Committed(Fresh, ip, gate')
                         /\ (gate.cell[gate.store[ip]] \in Int \/ gate.store[ip] = NoCell)
    BY <1>2 DEF Committed, Fresh, Known, Gate
  <2>2. Fresh.cell = NoCell
    BY DEF Fresh
  <2> QED BY <1>2, <1>3, <2>1, <2>2 DEF CellsFollow, One
<1>5. RefsFollow(c, Fresh)
  BY <1>1, <1>3 DEF RefsFollow
<1>6. Counted(gate') = Counted(gate)
  BY <1>3 DEF Counted
<1>7. Effect(c, Fresh)
  BY <1>1, <1>3, <1>4, <1>5, <1>6, FreshType DEF Effect, Known
<1> QED BY <1>7, FreshType

----------------------------------------------------------------------------
(* sing-box.                                                               *)

\* A step that leaves the gate alone and does not count.
LEMMA SingGoes ==
  ASSUME NEW c \in Conns, Known(c), NEW k \in ConnType, conn' = [conn EXCEPT ![c] = k],
         UNCHANGED <<kernel, gate, limits, world, reading, budget, fault, crashed>>,
         kernel = "singbox", conn[c].pc # "new", ProperSing(k),
         k.ip = conn[c].ip, k.way = conn[c].way, k.cell = conn[c].cell
  PROVE  Effect(c, k)
<1>1. Proper(k, gate.free)
  BY DEF Proper, Known
<1>2. \A ip \in Ips : (Limited(conn[c], ip) <=> Limited(k, ip))
  BY DEF Limited
<1>3. \A ip \in Ips : gate.store[ip] # NoCell =>
        /\ Committed(conn[c], ip, gate) => Committed(k, ip, gate)
        /\ k.cell = gate.store[ip] => k.ip = ip
  <2>1. conn[c].way # "free"
    BY DEF Known, Proper, ProperSing
  <2> QED BY <2>1 DEF Committed, Known, Owners
<1> QED BY <1>1, <1>2, <1>3, Looks DEF Known

LEMMA LookUpLimitEffect ==
  ASSUME IInv, NEW c \in Conns, Known(c), LookUpLimit(c)
  PROVE  \E k \in ConnType : Effect(c, k)
<1> DEFINE k == [conn[c] EXCEPT !.pc = "snapshot", !.limit = limits.user.limit]
<1>1. /\ conn' = [conn EXCEPT ![c] = k] /\ kernel = "singbox" /\ conn[c].pc = "look"
      /\ UNCHANGED <<kernel, gate, limits, world, reading, budget, fault, crashed>>
  BY DEF LookUpLimit, At, Move, KeepsTable, Go
<1>2. limits.user.limit \in Limits
  BY ProfileAssumption DEF IInv, TypeOK
<1>3. /\ k \in ConnType /\ k.pc = "snapshot" /\ k.way = conn[c].way /\ k.cell = conn[c].cell
      /\ k.ip = conn[c].ip
  BY <1>2 DEF Known, ConnType, Pcs
<1> HIDE DEF k
<1>4. ProperSing(k)
  BY <1>1, <1>3 DEF Known, Proper, ProperSing, SingPcs
<1>5. Effect(c, k)
  BY <1>1, <1>3, <1>4, SingGoes
<1> QED BY <1>3, <1>5

LEMMA SnapshotEffect ==
  ASSUME NEW c \in Conns, Known(c), SnapshotLocal(c)
  PROVE  \E k \in ConnType : Effect(c, k)
<1> DEFINE k == [conn[c] EXCEPT !.pc = "gate", !.local = Counted(gate)]
<1>1. /\ conn' = [conn EXCEPT ![c] = k] /\ kernel = "singbox" /\ conn[c].pc = "snapshot"
      /\ UNCHANGED <<kernel, gate, limits, world, reading, budget, fault, crashed>>
  BY DEF SnapshotLocal, At, Move, KeepsTable, Go
<1>2. Counted(gate) \in SUBSET Ips
  BY DEF Counted
<1>3. /\ k \in ConnType /\ k.pc = "gate" /\ k.way = conn[c].way /\ k.cell = conn[c].cell
      /\ k.ip = conn[c].ip
  BY <1>2 DEF Known, ConnType, Pcs
<1> HIDE DEF k
<1>4. ProperSing(k)
  BY <1>1, <1>3 DEF Known, Proper, ProperSing, SingPcs
<1>5. Effect(c, k)
  BY <1>1, <1>3, <1>4, SingGoes
<1> QED BY <1>3, <1>5

LEMMA PassGateEffect ==
  ASSUME NEW c \in Conns, Known(c), PassGate(c)
  PROVE  \E k \in ConnType : Effect(c, k)
<1>1. PICK pc \in {"refused", "join"} :
        /\ conn' = [conn EXCEPT ![c] = Go(c, pc)] /\ kernel = "singbox" /\ conn[c].pc = "gate"
        /\ UNCHANGED <<kernel, gate, limits, world, reading, budget, fault, crashed>>
  BY Zenon DEF PassGate, At, Move, KeepsTable
<1>2. /\ Go(c, pc) \in ConnType /\ Go(c, pc).pc = pc /\ Go(c, pc).way = conn[c].way
      /\ Go(c, pc).cell = conn[c].cell /\ Go(c, pc).ip = conn[c].ip
  BY GoFields DEF Known, Like, Pcs
<1>3. ProperSing(Go(c, pc))
  BY <1>1, <1>2 DEF Known, Proper, ProperSing, SingPcs
<1>4. Effect(c, Go(c, pc))
  BY <1>1, <1>2, <1>3, SingGoes
<1> QED BY <1>2, <1>4

\* Whatever bucket a connection gets, it is counted as before.
LEMMA GetsBucket ==
  ASSUME NEW c \in Conns, Known(c), NEW pc \in {"open", "speed", "make"},
         NEW b \in Buckets \cup {NoBucket}, NEW s \in Speeds,
         conn' = [conn EXCEPT ![c] = [conn[c] EXCEPT !.pc = pc, !.bucket = b, !.speed = s]],
         kernel = "singbox", conn[c].pc \in {"bucket", "speed", "make"},
         UNCHANGED <<kernel, gate, limits, world, reading, budget, fault, crashed>>
  PROVE  \E k \in ConnType : Effect(c, k)
<1> DEFINE k == [conn[c] EXCEPT !.pc = pc, !.bucket = b, !.speed = s]
<1>1. /\ k \in ConnType /\ k.pc = pc /\ k.way = conn[c].way /\ k.cell = conn[c].cell
      /\ k.ip = conn[c].ip
  BY DEF Known, ConnType, Pcs
<1>2. conn' = [conn EXCEPT ![c] = k] /\ conn[c].pc # "new"
  OBVIOUS
<1> HIDE DEF k
<1>3. ProperSing(k)
  BY <1>1 DEF Known, Proper, ProperSing, SingPcs
<1>4. Effect(c, k)
  BY <1>1, <1>2, <1>3, SingGoes
<1> QED BY <1>1, <1>4

LEMMA BucketEffect ==
  ASSUME IInv, NEW c \in Conns, Known(c), FindBucket(c) \/ ReadSpeed(c) \/ MakeBucket(c)
  PROVE  \E k \in ConnType : Effect(c, k)
<1> DEFINE Got(pc, b, s) == [conn[c] EXCEPT !.pc = pc, !.bucket = b, !.speed = s]
<1>1. /\ bucket.current \in Buckets \cup {NoBucket} /\ limits.user.speed \in Speeds
      /\ conn[c].bucket \in Buckets \cup {NoBucket} /\ conn[c].speed \in Speeds
      /\ kernel = "singbox" /\ conn[c].pc \in {"bucket", "speed", "make"}
      /\ UNCHANGED <<kernel, gate, limits, world, reading, budget, fault, crashed>>
  BY DEF IInv, TypeOK, Speeds, Known, ConnType, FindBucket, ReadSpeed, MakeBucket, At, Move,
         KeepsTable
<1>2. \A pc \in {"open", "speed", "make"} :
        /\ Go(c, pc) = Got(pc, conn[c].bucket, conn[c].speed)
        /\ \A b \in Buckets \cup {NoBucket} :
             [Go(c, pc) EXCEPT !.bucket = b] = Got(pc, b, conn[c].speed)
        /\ \A s \in Speeds : [Go(c, pc) EXCEPT !.speed = s] = Got(pc, conn[c].bucket, s)
  BY DEF Go, Known, ConnType
<1>3. SUFFICES \E pc \in {"open", "speed", "make"}, b \in Buckets \cup {NoBucket}, s \in Speeds :
                 conn' = [conn EXCEPT ![c] = Got(pc, b, s)]
  BY <1>1, GetsBucket
<1> HIDE DEF Got
<1>4. CASE FindBucket(c)
  <2>1. CASE bucket.current # NoBucket
    <3>1. conn' = [conn EXCEPT ![c] = [Go(c, "open") EXCEPT !.bucket = bucket.current]]
      BY <1>4, <2>1 DEF FindBucket, Move
    <3>2. [Go(c, "open") EXCEPT !.bucket = bucket.current]
            = Got("open", bucket.current, conn[c].speed)
      BY <1>1, <1>2
    <3>3. conn' = [conn EXCEPT ![c] = Got("open", bucket.current, conn[c].speed)]
      BY <3>1, <3>2, Zenon
    <3> QED BY <1>1, <3>3, Zenon
  <2>2. CASE bucket.current = NoBucket
    <3>1. conn' = [conn EXCEPT ![c] = Go(c, "speed")]
      BY <1>4, <2>2 DEF FindBucket, Move
    <3>2. conn' = [conn EXCEPT ![c] = Got("speed", conn[c].bucket, conn[c].speed)]
      BY <1>2, <3>1
    <3> QED BY <1>1, <3>2, Zenon
  <2> QED BY <2>1, <2>2
<1>5. CASE ReadSpeed(c)
  <2>1. CASE limits.user.speed = 0
    <3>1. conn' = [conn EXCEPT ![c] = Go(c, "open")]
      BY <1>5, <2>1 DEF ReadSpeed, Move
    <3>2. conn' = [conn EXCEPT ![c] = Got("open", conn[c].bucket, conn[c].speed)]
      BY <1>2, <3>1
    <3> QED BY <1>1, <3>2, Zenon
  <2>2. CASE limits.user.speed # 0
    <3>1. conn' = [conn EXCEPT ![c] = [Go(c, "make") EXCEPT !.speed = limits.user.speed]]
      BY <1>5, <2>2 DEF ReadSpeed, Move
    <3>2. [Go(c, "make") EXCEPT !.speed = limits.user.speed]
            = Got("make", conn[c].bucket, limits.user.speed)
      BY <1>1, <1>2
    <3>3. conn' = [conn EXCEPT ![c] = Got("make", conn[c].bucket, limits.user.speed)]
      BY <3>1, <3>2, Zenon
    <3> QED BY <1>1, <3>3, Zenon
  <2> QED BY <2>1, <2>2
<1>6. CASE MakeBucket(c)
  <2> DEFINE x == IF bucket.current # NoBucket THEN bucket.current ELSE CHOOSE y \in Unheld : TRUE
  <2>1. /\ conn' = [conn EXCEPT ![c] = [Go(c, "open") EXCEPT !.bucket = x]]
        /\ bucket.current # NoBucket \/ Unheld # {}
    BY <1>6 DEF MakeBucket, Move
  <2>2. x \in Buckets \cup {NoBucket}
    BY <1>1, <2>1 DEF Unheld
  <2> HIDE DEF x
  <2>3. [Go(c, "open") EXCEPT !.bucket = x] = Got("open", x, conn[c].speed)
    BY <1>1, <1>2, <2>2
  <2>4. conn' = [conn EXCEPT ![c] = Got("open", x, conn[c].speed)]
    BY <2>1, <2>3, Zenon
  <2> QED BY <1>1, <2>2, <2>4, Zenon
<1> QED BY <1>4, <1>5, <1>6

LEMMA JoinEffect ==
  ASSUME NEW c \in Conns, Known(c), Join(c)
  PROVE  \E k \in ConnType : Effect(c, k)
<1> DEFINE k == [conn[c] EXCEPT !.pc = "bucket", !.way = "limited", !.local = {}]
<1>1. /\ conn' = [conn EXCEPT ![c] = k] /\ kernel = "singbox" /\ conn[c].pc = "join"
      /\ gate' = AddConn(gate, conn[c].ip)
      /\ UNCHANGED <<kernel, limits, world, reading, budget, fault, crashed>>
  BY DEF Join, At, Move, Go
<1>2. conn[c].way = "none" /\ conn[c].ip \in Ips
  BY <1>1 DEF Known, Proper, ProperSing
<1>3. /\ k \in ConnType /\ k.pc = "bucket" /\ k.way = "limited" /\ k.cell = conn[c].cell
      /\ k.ip = conn[c].ip
  BY DEF Known, ConnType, Pcs
<1> HIDE DEF k
<1>4. ProperSing(k)
  BY <1>3 DEF ProperSing, SingPcs
<1>5. /\ gate' \in Gate /\ gate'.free = gate.free
      /\ gate'.store = gate.store /\ gate'.cell = gate.cell
      /\ gate'.refs[conn[c].ip] = gate.refs[conn[c].ip] + 1
      /\ \A a \in Ips \ {conn[c].ip} : gate'.refs[a] = gate.refs[a]
  BY <1>1, <1>2, TrackOK DEF Known
<1>6. RefsFollow(c, k)
  <2>1. \A ip \in Ips : ~Limited(conn[c], ip) /\ (Limited(k, ip) <=> ip = conn[c].ip)
    BY <1>2, <1>3 DEF Limited
  <2>2. \A ip \in Ips : gate.refs[ip] \in Nat
    BY DEF Known, Gate
  <2> QED BY <1>2, <1>5, <2>1, <2>2 DEF RefsFollow, One
<1>7. CellsFollow(c, k)
  BY <1>2, <1>3, <1>5, CellsStay DEF Committed
<1>8. Effect(c, k)
  BY <1>1, <1>2, <1>3, <1>4, <1>5, <1>6, <1>7 DEF Effect, Proper, Known
<1> QED BY <1>3, <1>8

LEMMA CloseTrackedEffect ==
  ASSUME NEW c \in Conns, Known(c), CloseTracked(c), CountsAreExact
  PROVE  \E k \in ConnType : Effect(c, k)
<1>1. /\ conn' = [conn EXCEPT ![c] = Fresh] /\ gate' = RemoveConn(gate, conn[c].ip)
      /\ UNCHANGED <<kernel, limits, world, reading, budget, fault, crashed>>
      /\ kernel = "singbox" /\ conn[c].pc = "open"
  BY DEF CloseTracked, Move, At
<1>2. conn[c].way = "limited" /\ conn[c].ip \in Ips
  BY <1>1 DEF Known, Proper, ProperSing
<1>3. gate.refs[conn[c].ip] \in Nat /\ gate.refs[conn[c].ip] > 0
  BY <1>1, <1>2, CountedWhileUsing
<1>4. /\ gate' \in Gate /\ gate'.free = gate.free
      /\ gate'.store = gate.store /\ gate'.cell = gate.cell
      /\ gate'.refs[conn[c].ip] = gate.refs[conn[c].ip] - 1
      /\ \A a \in Ips \ {conn[c].ip} : gate'.refs[a] = gate.refs[a]
  BY <1>1, <1>2, <1>3, TrackOK DEF Known
<1>5. RefsFollow(c, Fresh)
  <2>1. \A ip \in Ips : ~Limited(Fresh, ip) /\ (Limited(conn[c], ip) <=> ip = conn[c].ip)
    BY <1>2 DEF Limited, Fresh
  <2>2. \A ip \in Ips : gate.refs[ip] \in Nat
    BY DEF Known, Gate
  <2> QED BY <1>2, <1>4, <2>1, <2>2 DEF RefsFollow, One
<1>6. CellsFollow(c, Fresh)
  BY <1>2, <1>4, FreshType, CellsStay DEF Committed, Fresh
<1>7. Effect(c, Fresh)
  BY <1>1, <1>4, <1>5, <1>6, FreshType DEF Effect, Known
<1> QED BY <1>7, FreshType

----------------------------------------------------------------------------
(* Every step of a connection has such an effect, and that keeps the invariant. *)

LEMMA OpenEffect ==
  ASSUME NEW c \in Conns, Known(c), NEW ip \in Ips, NEW tcp \in BOOLEAN, Open(c, ip, tcp),
         kernel \in {"xray", "singbox"}
  PROVE  \E k \in ConnType : Effect(c, k)
<1> DEFINE k == [Fresh EXCEPT !.pc = "look", !.ip = ip, !.tcp = tcp]
<1>1. /\ conn' = [conn EXCEPT ![c] = k] /\ conn[c].pc = "new"
      /\ UNCHANGED <<kernel, gate, limits, world, reading, fault, crashed>>
  BY DEF Open
<1>2. /\ k \in ConnType /\ k.pc = "look" /\ k.ip = ip /\ k.way = "none" /\ k.cell = NoCell
  BY DeviceLimitAssumption DEF Fresh, ConnType, Pcs, Speeds
<1> HIDE DEF k
<1>3. conn[c].way = "none"
  BY <1>1 DEF Known, Proper, ProperXray, ProperSing
<1>4. Proper(k, gate.free)
  BY <1>2 DEF Proper, ProperXray, ProperSing, XrayPcs, SingPcs
<1>5. Effect(c, k)
  BY <1>1, <1>2, <1>3, <1>4, Looks DEF Known, Limited, Committed
<1> QED BY <1>2, <1>5

LEMMA StepEffect ==
  ASSUME IInv, NEW c \in Conns,
         \/ \E ip \in Ips, tcp \in BOOLEAN : Open(c, ip, tcp)
         \/ XrayStep(c) \/ SingStep(c) \/ Turned(c)
  PROVE  \E k \in ConnType : Effect(c, k)
<1>1. Known(c)
  BY Knowing
<1>2. CountsAreExact /\ kernel \in {"xray", "singbox"}
  BY DEF IInv, TypeOK
<1>3. CASE XrayStep(c)
  BY <1>1, <1>2, <1>3, ReadLimitEffect, StoreFreeEffect, AddFreeEffect, CheckLimitedEffect,
     BumpEffect, DecideEffect, DispatchEffect, LeaveEffect, UncountEffect, SubFreeEffect,
     DropFreeEffect, Zenon DEF XrayStep
<1>4. CASE SingStep(c)
  BY <1>1, <1>2, <1>4, LookUpLimitEffect, SnapshotEffect, PassGateEffect, JoinEffect,
     BucketEffect, CloseTrackedEffect, Zenon DEF SingStep
<1> QED BY <1>1, <1>2, <1>3, <1>4, OpenEffect, TurnedEffect, Zenon

LEMMA EffectKeepsRecords ==
  ASSUME IInv, NEW c \in Conns, NEW k \in ConnType, Effect(c, k)
  PROVE  Records'
<1>1. /\ conn' = [conn EXCEPT ![c] = k] /\ kernel' = kernel /\ (gate.free => gate'.free)
      /\ Proper(k, gate'.free) /\ conn \in [Conns -> ConnType]
  BY DEF Effect, IInv, TypeOK
<1> SUFFICES ASSUME NEW d \in Conns
             PROVE  Proper(conn[d], gate.free)'
  BY DEF Records
<1>2. CASE d = c
  <2>1. conn'[d] = k
    BY <1>1, <1>2
  <2> QED BY <1>1, <2>1 DEF Proper, ProperXray, ProperSing
<1>3. CASE d # c
  <2>1. conn'[d] = conn[d]
    BY <1>1, <1>3
  <2>2. Proper(conn[d], gate.free)
    BY DEF IInv, Records
  <2> QED BY <1>1, <2>1, <2>2 DEF Proper, ProperXray, ProperSing
<1> QED BY <1>2, <1>3

LEMMA EffectKeepsCounts ==
  ASSUME IInv, NEW c \in Conns, NEW k \in ConnType, Effect(c, k)
  PROVE  CountsAreExact'
<1> SUFFICES ASSUME kernel' = "singbox" \/ ~gate'.free, NEW ip \in Ips
             PROVE  gate'.refs[ip] = Cardinality(Using(ip, "limited")')
  BY DEF CountsAreExact
<1> DEFINE S == Using(ip, "limited")
           T == Using(ip, "limited")'
<1>1. /\ conn' = [conn EXCEPT ![c] = k] /\ conn \in [Conns -> ConnType] /\ kernel' = kernel
      /\ (gate.free => gate'.free) /\ gate \in Gate /\ gate' \in Gate
  BY DEF Effect, IInv, TypeOK
<1>2. gate'.refs[ip] + One(Limited(conn[c], ip)) = gate.refs[ip] + One(Limited(k, ip))
  BY <1>1 DEF Effect, RefsFollow
<1>3. gate.refs[ip] = Cardinality(S)
  BY <1>1 DEF IInv, CountsAreExact
<1>4. /\ S \in SUBSET Conns /\ T \in SUBSET Conns /\ \A d \in Conns \ {c} : d \in S <=> d \in T
      /\ (c \in S <=> Limited(conn[c], ip)) /\ (c \in T <=> Limited(k, ip))
  BY <1>1 DEF Using, Limited
<1> HIDE DEF S, T
<1>5. Cardinality(S) \in Nat /\ Cardinality(T) \in Nat
      /\ Cardinality(T) + One(c \in S) = Cardinality(S) + One(c \in T)
  BY <1>4, CountChanges
<1>6. One(c \in S) = One(Limited(conn[c], ip)) /\ One(c \in T) = One(Limited(k, ip))
  BY <1>4 DEF One
<1>7. gate'.refs[ip] \in Nat /\ One(c \in S) \in {0, 1} /\ One(c \in T) \in {0, 1}
  BY <1>1 DEF Gate, One
<1>8. gate'.refs[ip] = Cardinality(T)
  BY <1>2, <1>3, <1>5, <1>6, <1>7
<1> QED BY <1>8 DEF T

LEMMA EffectKeepsOwners ==
  ASSUME IInv, NEW c \in Conns, NEW k \in ConnType, Effect(c, k)
  PROVE  Owners'
<1>1. /\ conn' = [conn EXCEPT ![c] = k] /\ conn \in [Conns -> ConnType] /\ Owners
      /\ CellsFollow(c, k)
  BY DEF Effect, IInv, TypeOK
<1> SUFFICES ASSUME NEW ip \in Ips, gate'.store[ip] # NoCell
             PROVE  /\ \A a \in Ips : gate'.store[a] = gate'.store[ip] => a = ip
                    /\ \A d \in Conns : conn'[d].cell = gate'.store[ip] => conn'[d].ip = ip
  BY DEF Owners
<1> DEFINE Kept(a) == gate'.store[a] = gate.store[a]
           New(a) == /\ \A b \in Ips : gate.store[b] # gate'.store[a]
                     /\ \A b \in Ips \ {a} : gate'.store[b] = gate.store[b]
                     /\ \A d \in Conns \ {c} : conn[d].cell # gate'.store[a]
<1>2. \A a \in Ips : gate'.store[a] # NoCell => Kept(a) \/ New(a)
  BY <1>1 DEF CellsFollow
<1>3. k.cell = gate'.store[ip] => k.ip = ip
  BY <1>1 DEF CellsFollow
<1>4. ASSUME NEW a \in Ips, gate'.store[a] = gate'.store[ip]
      PROVE  a = ip
  <2>1. CASE Kept(ip) /\ Kept(a)
    BY <1>1, <1>4, <2>1 DEF Owners
  <2>2. CASE New(ip) \/ New(a)
    BY <1>4, <2>2
  <2> QED BY <1>2, <1>4, <2>1, <2>2
<1>5. ASSUME NEW d \in Conns, conn'[d].cell = gate'.store[ip]
      PROVE  conn'[d].ip = ip
  <2>1. CASE d = c
    BY <1>1, <1>3, <1>5, <2>1
  <2>2. CASE d # c
    <3>1. conn'[d] = conn[d]
      BY <1>1, <2>2
    <3>2. Kept(ip)
      BY <1>2, <1>5, <2>2, <3>1
    <3> QED BY <1>1, <1>5, <3>1, <3>2 DEF Owners
  <2> QED BY <2>1, <2>2
<1> QED BY <1>4, <1>5

LEMMA EffectKeepsBound ==
  ASSUME IInv, NEW c \in Conns, NEW k \in ConnType, Effect(c, k)
  PROVE  CellsBounded'
<1> SUFFICES ASSUME NEW ip \in Ips, gate'.store[ip] # NoCell
             PROVE  gate'.cell[gate'.store[ip]]
                      <= Cardinality({d \in Conns : Committed(conn'[d], ip, gate')})
  BY DEF CellsBounded, Committed
<1> DEFINE S == {d \in Conns : Committed(conn[d], ip, gate)}
           T == {d \in Conns : Committed(conn'[d], ip, gate')}
<1>1. /\ conn' = [conn EXCEPT ![c] = k] /\ conn \in [Conns -> ConnType]
      /\ gate \in Gate /\ gate' \in Gate /\ CellsFollow(c, k)
  BY DEF Effect, IInv, TypeOK
<1>2. S \in SUBSET Conns /\ T \in SUBSET Conns
      /\ (c \in S <=> Committed(conn[c], ip, gate)) /\ (c \in T <=> Committed(k, ip, gate'))
  BY <1>1
<1>3. gate'.store[ip] \in Cells /\ gate'.cell[gate'.store[ip]] \in Int
  BY <1>1 DEF Gate
<1>4. IsFiniteSet(T) /\ Cardinality(T) \in Nat
  BY <1>2, ConnAssumption, FS_Subset, FS_CardinalityType
<1>5. CASE gate'.cell[gate'.store[ip]] = 0
  BY <1>4, <1>5
<1>6. CASE /\ gate'.store[ip] = gate.store[ip]
           /\ gate'.cell[gate.store[ip]] + One(Committed(conn[c], ip, gate))
                <= gate.cell[gate.store[ip]] + One(Committed(k, ip, gate'))
  <2>1. gate.cell[gate.store[ip]] \in Int /\ gate.cell[gate.store[ip]] <= Cardinality(S)
    BY <1>1, <1>3, <1>6 DEF Gate, IInv, CellsBounded
  <2>2. \A d \in Conns \ {c} : d \in S <=> d \in T
    BY <1>1, <1>6 DEF Committed
  <2> HIDE DEF S, T
  <2>3. Cardinality(S) \in Nat
        /\ Cardinality(T) + One(c \in S) = Cardinality(S) + One(c \in T)
    BY <1>2, <2>2, CountChanges
  <2>4. One(c \in S) = One(Committed(conn[c], ip, gate))
    BY <1>2 DEF One
  <2>5. One(c \in T) = One(Committed(k, ip, gate'))
    BY <1>2 DEF One
  <2>6. One(c \in S) \in {0, 1} /\ One(c \in T) \in {0, 1}
    BY DEF One
  <2>7. gate'.cell[gate'.store[ip]] <= Cardinality(T)
    BY <1>3, <1>4, <1>6, <2>1, <2>3, <2>4, <2>5, <2>6
  <2> QED BY <2>7 DEF T
<1>7. \/ gate'.cell[gate'.store[ip]] = 0
      \/ /\ gate'.store[ip] = gate.store[ip]
         /\ gate'.cell[gate.store[ip]] + One(Committed(conn[c], ip, gate))
              <= gate.cell[gate.store[ip]] + One(Committed(k, ip, gate'))
  BY <1>1 DEF CellsFollow
<1> QED BY <1>5, <1>6, <1>7

----------------------------------------------------------------------------
(* Buckets.                                                                *)

BucketType ==
  bucket \in [current : Buckets \cup {NoBucket}, speed : [Buckets -> Speeds],
              retired : SUBSET Buckets]

\* A step that fetches no bucket.
LEMMA BucketsStay ==
  ASSUME TypeOK, BucketIsShared, bucket' = bucket, NEW c \in Conns,
         conn'[c].bucket \in {conn[c].bucket, NoBucket},
         \A d \in Conns \ {c} : conn'[d] = conn[d]
  PROVE  BucketType' /\ BucketIsShared'
<1>1. BucketType'
  BY DEF TypeOK, BucketType
<1>2. BucketIsShared'
  BY DEF BucketIsShared
<1> QED BY <1>1, <1>2

LEMMA FetchesNone ==
  ASSUME TypeOK, NEW c \in Conns,
         \/ \E ip \in Ips, tcp \in BOOLEAN : Open(c, ip, tcp)
         \/ XrayStep(c) \/ Turned(c)
         \/ LookUpLimit(c) \/ SnapshotLocal(c) \/ PassGate(c) \/ Join(c) \/ CloseTracked(c)
  PROVE  /\ bucket' = bucket /\ conn'[c].bucket \in {conn[c].bucket, NoBucket}
         /\ \A d \in Conns \ {c} : conn'[d] = conn[d]
<1>1. conn \in [Conns -> ConnType] /\ conn[c] \in ConnType
  BY DEF TypeOK
<1>2. Fresh.bucket = NoBucket
  BY DEF Fresh
<1>3. CASE \E ip \in Ips, tcp \in BOOLEAN : Open(c, ip, tcp)
  BY <1>1, <1>3 DEF Open, Fresh
<1>4. CASE ReadLimit(c)
  BY <1>1, <1>4 DEF ReadLimit, Move, ConnType
<1>5. CASE StoreFree(c)
  BY <1>1, <1>5 DEF StoreFree, Move, ConnType, Go
<1>6. CASE AddFree(c)
  BY <1>1, <1>6 DEF AddFree, Move, ConnType, Go
<1>7. CASE CheckLimited(c)
  BY <1>1, <1>7 DEF CheckLimited, Move, ConnType, Go
<1>8. CASE Bump(c) /\ ~gate.entry
  BY <1>8 DEF Bump
<1>9. CASE Bump(c) /\ gate.entry
  <2>1. /\ conn' = [conn EXCEPT ![c] = [Go(c, "dispatch") EXCEPT !.way = "limited"]]
        /\ bucket' = bucket
    BY <1>9, Zenon DEF Bump, Move
  <2> QED BY <1>1, <2>1 DEF ConnType, Go
<1>10. CASE Enter(c)
  BY <1>1, <1>10 DEF Enter, Move, ConnType, Go
<1>11. CASE Decide(c)
  BY <1>1, <1>11 DEF Decide, Move, ConnType
<1>12. CASE Dispatch(c) \/ Close(c) \/ Uncount(c) \/ DropFree(c)
  BY <1>1, <1>2, <1>12 DEF Dispatch, Close, Uncount, DropFree, Move, ConnType, Go
<1>13. CASE Leave(c)
  BY <1>1, <1>2, <1>13 DEF Leave, Move, ConnType, Go
<1>14. CASE SubFree(c)
  BY <1>1, <1>2, <1>14 DEF SubFree, Move, ConnType, Go
<1>15. CASE Turned(c) \/ CloseTracked(c)
  BY <1>1, <1>2, <1>15 DEF Turned, CloseTracked, Move
<1>16. CASE LookUpLimit(c)
  BY <1>1, <1>16 DEF LookUpLimit, Move, ConnType, Go
<1>17. CASE SnapshotLocal(c)
  BY <1>1, <1>17 DEF SnapshotLocal, Move, ConnType, Go
<1>18. CASE PassGate(c)
  BY <1>1, <1>18 DEF PassGate, Move, ConnType, Go
<1>19. CASE Join(c)
  BY <1>1, <1>19 DEF Join, Move, ConnType, Go
<1> QED BY <1>3, <1>4, <1>5, <1>6, <1>7, <1>8, <1>9, <1>10,
           <1>11, <1>12, <1>13, <1>14, <1>15, <1>16, <1>17, <1>18, <1>19 DEF XrayStep

\* A connection that fetches a bucket gets the current one, or none yet.
LEMMA FetchesCurrent ==
  ASSUME IInv, NEW c \in Conns, FindBucket(c) \/ ReadSpeed(c) \/ MakeBucket(c)
  PROVE  BucketType' /\ BucketIsShared'
<1>1. /\ conn \in [Conns -> ConnType] /\ conn[c] \in ConnType /\ BucketType /\ BucketIsShared
      /\ limits.user.speed \in Speeds /\ TypeOK
  BY DEF IInv, TypeOK, BucketType, Speeds
<1>2. CASE ReadSpeed(c)
  <2>1. /\ bucket' = bucket /\ conn'[c].bucket = conn[c].bucket
        /\ \A d \in Conns \ {c} : conn'[d] = conn[d]
    BY <1>1, <1>2 DEF ReadSpeed, Move, ConnType, Go
  <2> QED BY <1>1, <2>1, BucketsStay
<1>3. CASE FindBucket(c)
  <2>1. /\ bucket' = bucket /\ conn'[c].bucket \in {conn[c].bucket, bucket.current}
        /\ \A d \in Conns \ {c} : conn'[d] = conn[d]
    BY <1>1, <1>3 DEF FindBucket, Move, ConnType, Go
  <2> QED BY <1>1, <2>1 DEF BucketType, BucketIsShared
<1>4. CASE MakeBucket(c) /\ bucket.current # NoBucket
  <2>1. /\ bucket' = bucket /\ conn'[c].bucket = bucket.current
        /\ \A d \in Conns \ {c} : conn'[d] = conn[d]
    BY <1>1, <1>4 DEF MakeBucket, Move, ConnType, Go
  <2> QED BY <1>1, <2>1 DEF BucketType, BucketIsShared
<1>5. CASE MakeBucket(c) /\ bucket.current = NoBucket
  <2> DEFINE b == CHOOSE x \in Unheld : TRUE
  <2>1. /\ bucket' = Made(b, conn[c].speed)
        /\ conn' = [conn EXCEPT ![c] = [Go(c, "open") EXCEPT !.bucket = b]]
        /\ Unheld # {}
    BY <1>5 DEF MakeBucket, Move
  <2>2. b \in Unheld
    BY <2>1
  <2>3. b \in Buckets /\ \A d \in Conns : conn[d].bucket # b
    BY <2>2 DEF Unheld
  <2> HIDE DEF b
  <2>4. conn'[c].bucket = b /\ \A d \in Conns \ {c} : conn'[d] = conn[d]
    BY <1>1, <2>1 DEF ConnType, Go
  <2>5. bucket'.current = b /\ bucket'.retired = bucket.retired \ {b}
        /\ bucket'.speed = [bucket.speed EXCEPT ![b] = conn[c].speed]
        /\ bucket' = [current |-> bucket'.current, speed |-> bucket'.speed,
                      retired |-> bucket'.retired]
    BY <2>1 DEF Made
  <2>6. BucketType'
    <3>1. bucket'.current \in Buckets \cup {NoBucket} /\ bucket'.retired \in SUBSET Buckets
          /\ bucket'.speed \in [Buckets -> Speeds]
      BY <1>1, <2>3, <2>5 DEF BucketType, ConnType
    <3> QED BY <2>5, <3>1 DEF BucketType
  <2>7. BucketIsShared'
    BY <1>1, <1>5, <2>3, <2>4, <2>5 DEF BucketIsShared
  <2> QED BY <2>6, <2>7
<1> QED BY <1>2, <1>3, <1>4, <1>5

----------------------------------------------------------------------------
(* The service's loop.                                                     *)

GateParts ==
  /\ gate \in Gate /\ (kernel = "xray" /\ ~gate.entry => Counted(gate) = {})
  /\ conn \in [Conns -> ConnType]
  /\ Records /\ CountsAreExact /\ Owners /\ CellsBounded

\* Whoever only changes a limit, or nothing, changes no count.
LEMMA GateStays ==
  ASSUME IInv, UNCHANGED <<kernel, conn>>, gate' \in Gate,
         gate'.entry = gate.entry, gate'.refs = gate.refs, gate'.free = gate.free,
         gate'.store = gate.store, gate'.cell = gate.cell
  PROVE  GateParts'
<1>1. Records' /\ Owners'
  BY DEF IInv, Records, Proper, ProperXray, ProperSing, Owners
<1>2. CountsAreExact'
  BY DEF IInv, CountsAreExact, Using
<1>3. CellsBounded'
  BY DEF IInv, CellsBounded, Committed
<1>4. Counted(gate') = Counted(gate)
  BY DEF Counted
<1> QED BY <1>1, <1>2, <1>3, <1>4 DEF GateParts, IInv, TypeOK

LEMMA NewGateKeeps ==
  ASSUME conn' = [c \in Conns |-> Fresh], gate' = NewGate
  PROVE  GateParts'
<1>0. NewGate \in Gate
  BY NewGateOK
<1>1. gate' \in Gate /\ ~gate'.free
      /\ \A ip \in Ips : gate'.refs[ip] = 0 /\ gate'.store[ip] = NoCell
  BY <1>0 DEF NewGate
<1>2. \A c \in Conns : conn'[c] = Fresh
  OBVIOUS
<1>3. conn' \in [Conns -> ConnType]
  BY <1>2, FreshType
<1>4. Records'
  <2>1. Fresh.pc = "new" /\ Fresh.way = "none"
    BY DEF Fresh
  <2> QED BY <1>1, <1>2, <2>1 DEF Records, Proper, ProperXray, ProperSing, XrayPcs, SingPcs
<1>5. CountsAreExact'
  <2>1. \A ip \in Ips : Using(ip, "limited")' = {}
    BY <1>2 DEF Using, Fresh
  <2>2. Cardinality({}) = 0
    BY FS_EmptySet
  <2> QED BY <1>1, <2>1, <2>2 DEF CountsAreExact
<1>6. Owners' /\ CellsBounded'
  BY <1>1 DEF Owners, CellsBounded
<1>7. Counted(gate') = {}
  BY <1>1 DEF Counted
<1> QED BY <1>1, <1>3, <1>4, <1>5, <1>6, <1>7 DEF GateParts

LEMMA SpendType ==
  ASSUME TypeOK, NEW kind \in BudgetKinds, Spend(kind)
  PROVE  budget' \in [BudgetKinds -> Nat]
BY DEF TypeOK, Spend

LEMMA StepKeepsInv ==
  ASSUME IInv, NEW c \in Conns,
         \/ \E ip \in Ips, tcp \in BOOLEAN : Open(c, ip, tcp)
         \/ XrayStep(c) \/ SingStep(c) \/ Turned(c)
  PROVE  IInv'
<1>1. PICK k \in ConnType : Effect(c, k)
  BY StepEffect
<1>2. Records' /\ CountsAreExact' /\ Owners' /\ CellsBounded'
  BY <1>1, EffectKeepsRecords, EffectKeepsCounts, EffectKeepsOwners, EffectKeepsBound
<1>3. BucketType' /\ BucketIsShared'
  <2>1. CASE FindBucket(c) \/ ReadSpeed(c) \/ MakeBucket(c)
    BY <2>1, FetchesCurrent
  <2>2. CASE ~(FindBucket(c) \/ ReadSpeed(c) \/ MakeBucket(c))
    <3>1. TypeOK /\ BucketIsShared
      BY DEF IInv
    <3>2. /\ bucket' = bucket /\ conn'[c].bucket \in {conn[c].bucket, NoBucket}
          /\ \A d \in Conns \ {c} : conn'[d] = conn[d]
      BY <2>2, <3>1, FetchesNone DEF SingStep
    <3> QED BY <3>1, <3>2, BucketsStay
  <2> QED BY <2>1, <2>2
<1>4. budget' \in [BudgetKinds -> Nat]
  <2>1. budget \in [BudgetKinds -> Nat]
    BY DEF IInv, TypeOK
  <2>2. CASE \E ip \in Ips, tcp \in BOOLEAN : Open(c, ip, tcp)
    <3>1. Spend("open")
      BY <2>2 DEF Open
    <3> QED BY <3>1, SpendType DEF IInv, BudgetKinds
  <2>3. CASE XrayStep(c) \/ SingStep(c) \/ Turned(c)
    <3>1. budget' = budget
      BY <2>3 DEF XrayStep, SingStep, Turned, ReadLimit, StoreFree, AddFree, CheckLimited, Bump,
             Enter, Decide, Dispatch, Close, Leave, Uncount, SubFree, DropFree, LookUpLimit,
             SnapshotLocal, PassGate, Join, FindBucket, ReadSpeed, MakeBucket, CloseTracked, Move
    <3> QED BY <2>1, <3>1
  <2> QED BY <2>2, <2>3
<1>5. TypeOK'
  <2>1. conn' = [conn EXCEPT ![c] = k] /\ conn \in [Conns -> ConnType]
        /\ UNCHANGED <<kernel, limits, world, reading>>
        /\ fault' \in BOOLEAN /\ crashed' \in BOOLEAN /\ gate' \in Gate
        /\ (kernel = "xray" /\ ~gate'.entry => Counted(gate') = {})
    BY <1>1 DEF Effect, IInv, TypeOK
  <2>2. conn' \in [Conns -> ConnType]
    BY <2>1
  <2>3. kernel' \in {"xray", "singbox"} /\ world' \in View /\ reading' \in BOOLEAN
        /\ limits' \in [user : Profiles, step : {"idle", "buckets", "kernel"}]
    BY <2>1 DEF IInv, TypeOK
  <2> QED BY <1>3, <1>4, <2>1, <2>2, <2>3 DEF TypeOK, BucketType
<1> QED BY <1>2, <1>3, <1>5 DEF IInv

\* What is left of the type invariant.
RestType ==
  /\ kernel \in {"xray", "singbox"}
  /\ limits \in [user : Profiles, step : {"idle", "buckets", "kernel"}]
  /\ world \in View
  /\ reading \in BOOLEAN /\ fault \in BOOLEAN /\ crashed \in BOOLEAN
  /\ budget \in [BudgetKinds -> Nat]

LEMMA PartsMake ==
  ASSUME GateParts, RestType, BucketType, BucketIsShared
  PROVE  IInv
BY DEF GateParts, RestType, BucketType, IInv, TypeOK

LEMMA PartsMakeNext ==
  ASSUME GateParts', RestType', BucketType', BucketIsShared'
  PROVE  IInv'
BY DEF GateParts, RestType, BucketType, IInv, TypeOK

LEMMA LoopKeepsInv ==
  ASSUME IInv, Loop
  PROVE  IInv'
<1>1. TypeOK /\ BucketIsShared /\ GateParts /\ RestType /\ BucketType
  BY DEF IInv, TypeOK, GateParts, RestType, BucketType
<1>2. {"profile", "start", "world"} \subseteq BudgetKinds
  BY DEF BudgetKinds
<1>3. ASSUME bucket' = bucket, \/ conn' = conn
                               \/ conn' = [c \in Conns |-> Fresh]
      PROVE  BucketType' /\ BucketIsShared'
  BY <1>1, <1>3 DEF BucketType, BucketIsShared, Fresh
<1>4. CASE \E p \in Profiles : SetProfile(p)
  <2>1. PICK p \in Profiles : SetProfile(p)
    BY <1>4
  <2>2. /\ UNCHANGED <<kernel, gate, conn, world, bucket, reading, fault, crashed>>
        /\ limits' = [user |-> p, step |-> "buckets"] /\ Spend("profile")
    BY <2>1 DEF SetProfile
  <2>3. RestType'
    BY <1>1, <1>2, <2>2, SpendType DEF RestType
  <2>4. GateParts'
    BY <1>1, <2>2, GateStays DEF GateParts
  <2> QED BY <1>3, <2>2, <2>3, <2>4, PartsMakeNext
<1>5. CASE UpdateBuckets
  <2>1. /\ UNCHANGED <<kernel, gate, conn, world, reading, fault, crashed, budget>>
        /\ limits' = [limits EXCEPT !.step = "kernel"]
    BY <1>5 DEF UpdateBuckets
  <2>2. RestType'
    BY <1>1, <2>1 DEF RestType
  <2>3. GateParts'
    BY <1>1, <2>1, GateStays DEF GateParts
  <2>4. limits.user.speed \in Speeds
    BY <1>1 DEF RestType, Speeds
  <2>5. BucketType' /\ BucketIsShared'
    <3> DEFINE b == bucket.current
    <3>1. CASE b = NoBucket
      <4>1. bucket' = bucket
        BY <1>5, <3>1 DEF UpdateBuckets
      <4> QED BY <1>3, <2>1, <4>1
    <3>2. CASE b # NoBucket /\ limits.user.speed > 0
      <4>1. bucket' = [bucket EXCEPT !.speed[b] = limits.user.speed]
        BY <1>5, <3>2 DEF UpdateBuckets
      <4>2. /\ bucket'.current = b /\ bucket'.retired = bucket.retired /\ BucketType'
        BY <1>1, <2>4, <4>1 DEF BucketType
      <4> QED BY <1>1, <2>1, <4>2 DEF BucketIsShared
    <3>3. CASE b # NoBucket /\ ~(limits.user.speed > 0)
      <4>1. bucket' = [bucket EXCEPT !.current = NoBucket, !.retired = @ \cup {b}]
        BY <1>5, <3>3 DEF UpdateBuckets
      <4>2. /\ bucket'.current = NoBucket /\ bucket'.retired = bucket.retired \cup {b}
            /\ BucketType'
        BY <1>1, <3>3, <4>1 DEF BucketType
      <4> QED BY <1>1, <2>1, <4>2 DEF BucketIsShared
    <3> QED BY <3>1, <3>2, <3>3
  <2> QED BY <2>2, <2>3, <2>5, PartsMakeNext
<1>6. CASE UpdateLimits
  <2>1. /\ UNCHANGED <<kernel, conn, world, bucket, reading, fault, crashed, budget>>
        /\ limits' = [limits EXCEPT !.step = "idle"]
        /\ gate' = [gate EXCEPT !.limit = IF kernel = "xray" THEN limits.user.limit ELSE @]
    BY <1>6 DEF UpdateLimits
  <2>2. RestType'
    BY <1>1, <2>1 DEF RestType
  <2>3. limits.user.limit \in Limits
    BY <1>1, ProfileAssumption DEF RestType
  <2>4. GateParts'
    <3>1. gate \in Gate
      BY <1>1 DEF GateParts
    <3>2. gate' \in Gate /\ gate'.entry = gate.entry /\ gate'.refs = gate.refs
          /\ gate'.free = gate.free /\ gate'.store = gate.store /\ gate'.cell = gate.cell
      BY <2>1, <2>3, <3>1 DEF Gate
    <3> QED BY <2>1, <3>2, GateStays
  <2> QED BY <1>3, <2>1, <2>2, <2>4, PartsMakeNext
<1>7. CASE StartKernel
  <2>1. /\ UNCHANGED <<kernel, world, bucket, reading, fault, crashed>> /\ Spend("start")
        /\ limits' = [limits EXCEPT !.step = "kernel"]
        /\ gate' = NewGate /\ conn' = [c \in Conns |-> Fresh]
    BY <1>7 DEF StartKernel
  <2>2. RestType'
    BY <1>1, <1>2, <2>1, SpendType DEF RestType
  <2>3. GateParts'
    BY <2>1, NewGateKeeps
  <2> QED BY <1>3, <2>1, <2>2, <2>3, PartsMakeNext
<1>8. CASE \E w \in View : ChangeWorld(w)
  <2>1. PICK w \in View : ChangeWorld(w)
    BY <1>8
  <2>2. /\ UNCHANGED <<kernel, gate, conn, limits, bucket, reading, fault, crashed>>
        /\ world' = w /\ Spend("world")
    BY <2>1 DEF ChangeWorld
  <2>3. RestType'
    BY <1>1, <1>2, <2>2, SpendType DEF RestType
  <2>4. GateParts'
    BY <1>1, <2>2, GateStays DEF GateParts
  <2> QED BY <1>3, <2>2, <2>3, <2>4, PartsMakeNext
<1>9. CASE BeginRead \/ EndRead
  <2>1. /\ UNCHANGED <<kernel, gate, conn, limits, world, bucket, budget>>
        /\ reading' \in BOOLEAN /\ fault' \in BOOLEAN /\ crashed' \in BOOLEAN
    BY <1>1, <1>9 DEF BeginRead, EndRead, RestType
  <2>2. RestType'
    BY <1>1, <2>1 DEF RestType
  <2>3. GateParts'
    BY <1>1, <2>1, GateStays DEF GateParts
  <2> QED BY <1>3, <2>1, <2>2, <2>3, PartsMakeNext
<1> QED BY <1>4, <1>5, <1>6, <1>7, <1>8, <1>9 DEF Loop

LEMMA InitInv == Init => IInv
<1> SUFFICES ASSUME Init PROVE IInv
  OBVIOUS
<1>1. GateParts
  <2>0. NewGate \in Gate
    BY NewGateOK
  <2>1. gate \in Gate /\ ~gate.free
        /\ \A ip \in Ips : gate.refs[ip] = 0 /\ gate.store[ip] = NoCell
    BY <2>0 DEF NewGate, Init
  <2>2. conn \in [Conns -> ConnType] /\ \A c \in Conns : conn[c] = Fresh
    BY FreshType DEF Init
  <2>3. Records
    <3>1. Fresh.pc = "new" /\ Fresh.way = "none"
      BY DEF Fresh
    <3> QED BY <2>1, <2>2, <3>1 DEF Records, Proper, ProperXray, ProperSing, XrayPcs, SingPcs
  <2>4. CountsAreExact
    <3>1. \A ip \in Ips : Using(ip, "limited") = {}
      BY <2>2 DEF Using, Fresh
    <3>2. Cardinality({}) = 0
      BY FS_EmptySet
    <3> QED BY <2>1, <3>1, <3>2 DEF CountsAreExact
  <2>5. Owners /\ CellsBounded
    BY <2>1 DEF Owners, CellsBounded
  <2>6. Counted(gate) = {}
    BY <2>1 DEF Counted
  <2> QED BY <2>1, <2>2, <2>3, <2>4, <2>5, <2>6 DEF GateParts
<1>2. RestType
  <2>1. limits \in [user : Profiles, step : {"idle", "buckets", "kernel"}]
    BY DEF Init
  <2>2. world \in View
    BY DEF Init, Unknown, View
  <2> QED BY <2>1, <2>2, KernelAssumption, BudgetAssumption DEF Init, RestType
<1>3. BucketType
  BY DEF Init, BucketType, Speeds
<1>4. BucketIsShared
  BY DEF Init, BucketIsShared, Fresh
<1> QED BY <1>1, <1>2, <1>3, <1>4, PartsMake

LEMMA NextKeepsInv == IInv /\ [Next]_vars => IInv'
<1> SUFFICES ASSUME IInv, [Next]_vars PROVE IInv'
  OBVIOUS
<1>1. CASE Loop
  BY <1>1, LoopKeepsInv
<1>2. CASE \E c \in Conns : \/ \E ip \in Ips, tcp \in BOOLEAN : Open(c, ip, tcp)
                            \/ XrayStep(c) \/ SingStep(c) \/ Turned(c)
  BY <1>2, StepKeepsInv
<1>3. CASE UNCHANGED vars
  <2>1. UNCHANGED <<kernel, conn, gate, limits, world, reading, fault, crashed, budget, bucket>>
    BY <1>3 DEF vars
  <2>2. GateParts'
    BY <2>1, GateStays DEF IInv, TypeOK
  <2>3. RestType' /\ BucketType' /\ BucketIsShared'
    BY <2>1 DEF IInv, TypeOK, RestType, BucketType, BucketIsShared
  <2> QED BY <2>2, <2>3, PartsMakeNext
<1> QED BY <1>1, <1>2, <1>3 DEF Next

----------------------------------------------------------------------------
(* Theorems.                                                               *)

\* Every reachable state satisfies the inductive invariant.
LEMMA SpecInv == Spec => []IInv
BY InitInv, NextKeepsInv, PTL DEF Spec

\* Every reachable state has the types of TypeOK: the gate never holds a negative count, and
\* an xray user without an entry in limitedIPs has no counted address (checkDeviceLimit,
\* delConn and addConn, removeConn, for any number of connections, addresses and limits).
THEOREM AdmissionTypeCorrect == Spec => []TypeOK
BY SpecInv, PTL DEF IInv

\* Whatever the order in which connections enter and leave, an address is counted once for
\* each connection that entered from it and has not left.
THEOREM CountsStayExact == Spec => []CountsAreExact
BY SpecInv, PTL DEF IInv

\* Deletions from unlimitedIPs by address, racing with additions, may forget connections
\* but never make a stored counter exceed the connections there are.
THEOREM CellsClaimNoMore == Spec => []CellsNeverInvent
<1>1. IInv => CellsNeverInvent
  <2> SUFFICES ASSUME IInv, NEW ip \in Ips, gate.store[ip] # NoCell
               PROVE  gate.cell[gate.store[ip]] <= Cardinality(Using(ip, "free"))
    BY DEF CellsNeverInvent
  <2> DEFINE S == {c \in Conns : Committed(conn[c], ip, gate)}
             T == Using(ip, "free")
  <2>1. gate.cell[gate.store[ip]] \in Int /\ gate.cell[gate.store[ip]] <= Cardinality(S)
    BY DEF IInv, CellsBounded, TypeOK, Gate
  <2>2. T \in SUBSET Conns /\ S \in SUBSET T
    BY DEF Using, Committed
  <2> HIDE DEF S, T
  <2>3. IsFiniteSet(T) /\ IsFiniteSet(S) /\ Cardinality(S) <= Cardinality(T)
    BY <2>2, ConnAssumption, FS_Subset
  <2>4. Cardinality(S) \in Nat /\ Cardinality(T) \in Nat
    BY <2>3, FS_CardinalityType
  <2>5. gate.cell[gate.store[ip]] <= Cardinality(T)
    BY <2>1, <2>3, <2>4
  <2> QED BY <2>5 DEF T
<1> QED BY <1>1, SpecInv, PTL

\* All connections of a user draw on the current bucket or on one deleted since, however
\* many of them found none and made one at once (GetLimiter).
THEOREM OneBucketIsShared == Spec => []BucketIsShared
BY SpecInv, PTL DEF IInv

\* Only the second decision refuses.
LEMMA OnlyDecideRefuses ==
  ASSUME IInv, Next, NEW c \in Conns, conn[c].pc = "decide", conn'[c].pc = "refused"
  PROVE  Decide(c)
<1>1. conn \in [Conns -> ConnType] /\ \A d \in Conns : conn[d] \in ConnType
  BY DEF IInv, TypeOK
<1>2. CASE Loop
  <2>1. conn' = conn \/ conn' = [d \in Conns |-> Fresh]
    BY <1>2 DEF Loop, SetProfile, UpdateBuckets, UpdateLimits, StartKernel, BeginRead, EndRead,
           ChangeWorld
  <2>2. Fresh.pc = "new"
    BY DEF Fresh
  <2> QED BY <2>1, <2>2
<1>3. ASSUME NEW d \in Conns, d # c, \/ \E ip \in Ips, tcp \in BOOLEAN : Open(d, ip, tcp)
                                     \/ XrayStep(d) \/ SingStep(d) \/ Turned(d)
      PROVE  FALSE
  <2>1. PICK k \in ConnType : Effect(d, k)
    BY <1>3, StepEffect
  <2>2. conn'[c] = conn[c]
    BY <1>1, <1>3, <2>1 DEF Effect
  <2> QED BY <2>2
<1>4. CASE \/ \E ip \in Ips, tcp \in BOOLEAN : Open(c, ip, tcp)
           \/ XrayStep(c) \/ SingStep(c) \/ Turned(c)
  BY <1>4 DEF Open, XrayStep, SingStep, Turned, At, ReadLimit, StoreFree, AddFree, CheckLimited,
         Bump, Enter, Decide, Dispatch, Close, Leave, Uncount, SubFree, DropFree, LookUpLimit,
         SnapshotLocal, PassGate, Join, FindBucket, ReadSpeed, MakeBucket, CloseTracked
<1> QED BY <1>2, <1>3, <1>4 DEF Next

\* A connection is turned away only if, at that very moment, as many other addresses as the
\* limit allows have connections (the decision under checkDeviceLimit's write lock).
THEOREM OnlyJustRefusals == Spec => RefusalsAreJust
<1> DEFINE Just == \A c \in Conns : conn[c].pc = "decide" /\ conn'[c].pc = "refused" /\ ~gate.free
                     => Cardinality(Others(c)) >= conn[c].limit
<1>1. ASSUME IInv, Next PROVE Just
  <2> SUFFICES ASSUME NEW c \in Conns, conn[c].pc = "decide", conn'[c].pc = "refused", ~gate.free
               PROVE  Cardinality(Others(c)) >= conn[c].limit
    OBVIOUS
  <2>1. Decide(c)
    BY <1>1, OnlyDecideRefuses
  <2> DEFINE refused == Refuses(gate, conn[c].ip, conn[c].limit)
             pc == IF refused THEN "refused" ELSE "dispatch"
             way == IF conn[c].tcp /\ ~refused THEN "limited" ELSE "none"
  <2>2. conn' = [conn EXCEPT ![c] = [conn[c] EXCEPT !.pc = pc, !.way = way]]
    BY <2>1 DEF Decide, Move
  <2>3. conn[c] \in ConnType /\ conn \in [Conns -> ConnType]
    BY <1>1 DEF IInv, TypeOK
  <2>4. refused
    <3> HIDE DEF refused, way
    <3> SUFFICES ASSUME ~refused PROVE FALSE
      OBVIOUS
    <3>1. conn'[c].pc = "dispatch"
      BY <2>2, <2>3 DEF ConnType
    <3> QED BY <3>1
  <2>5. conn[c].ip \notin Counted(gate) /\ Cardinality(Counted(gate)) >= conn[c].limit
    BY <2>4 DEF Refuses
  <2>6. \A ip \in Ips : ip \in Counted(gate) <=> Using(ip, "limited") # {}
    <3> TAKE ip \in Ips
    <3>1. gate.refs[ip] = Cardinality(Using(ip, "limited"))
      BY <1>1 DEF IInv, CountsAreExact
    <3>2. Using(ip, "limited") \in SUBSET Conns
      BY DEF Using
    <3>3. IsFiniteSet(Using(ip, "limited"))
      BY <3>2, ConnAssumption, FS_Subset
    <3>4. /\ Cardinality(Using(ip, "limited")) \in Nat
          /\ Cardinality(Using(ip, "limited")) = 0 <=> Using(ip, "limited") = {}
      BY <3>3, FS_CardinalityType, FS_EmptySet
    <3> QED BY <3>1, <3>4 DEF Counted
  <2>7. Others(c) = Counted(gate)
    BY <2>5, <2>6 DEF Others, Counted
  <2> QED BY <2>5, <2>7
<1>2. IInv /\ [Next]_vars => [Just]_vars
  BY <1>1
<1> HIDE DEF Just
<1>3. Spec => [][Just]_vars
  BY <1>2, SpecInv, PTL DEF Spec
<1> QED BY <1>3 DEF RefusalsAreJust, Just
=============================================================================
