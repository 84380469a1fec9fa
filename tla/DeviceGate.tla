----------------------------- MODULE DeviceGate -----------------------------
(***************************************************************************)
(* Who may connect: the tables and decisions of the two device gates, as   *)
(* operations on a record; each is one critical section or one atomic      *)
(* access (internal/kernel/xray/dispatcher.go and singbox/conntracker.go). *)
(* Everything is about one user; users share locks, not entries.           *)
(*                                                                         *)
(* xray counts an address in one of two tables: `refs`, under a mutex,     *)
(* while the user has a limit, and otherwise in lock-free cells, whose     *)
(* entry for the user, once made, stays (`free`).  sing-box has only refs. *)
(***************************************************************************)
EXTENDS Integers, FiniteSets

CONSTANTS
  Ips,       \* source addresses, by their place in string order
  Limits,    \* device limits; 0 is none
  Cells      \* the counters of unlimitedIPs

ASSUME IpAssumption == Ips \subseteq Int /\ IsFiniteSet(Ips)
ASSUME DeviceLimitAssumption == 0 \in Limits /\ Limits \subseteq Nat
ASSUME CellAssumption == 0 \notin Cells /\ Cells \subseteq Nat

NoCell == 0

\* A dispatcher as the factory makes it: nobody has a limit yet.
NewGate == [limit |-> 0, entry |-> FALSE, refs |-> [ip \in Ips |-> 0],
            free |-> FALSE, store |-> [ip \in Ips |-> NoCell], cell |-> [x \in Cells |-> 0]]

Gate == [limit : Limits, entry : BOOLEAN, refs : [Ips -> Nat], free : BOOLEAN,
         store : [Ips -> Cells \cup {NoCell}], cell : [Cells -> Int]]

Counted(g) == {ip \in Ips : g.refs[ip] > 0}

\* Over the limit, the lowest addresses in string order are let in.
AmongLowest(ip, present, limit) == Cardinality({a \in present : a < ip}) < limit

----------------------------------------------------------------------------
(* xray: limited users.                                                    *)

Holds(g, ip) == g.entry /\ ip \in Counted(g)
HasRoom(g, limit) == g.entry /\ Cardinality(Counted(g)) < limit

Refuses(g, ip, limit) ==
  /\ ip \notin Counted(g)
  /\ Cardinality(Counted(g)) >= limit
  /\ ~AmongLowest(ip, Counted(g), limit)

\* A connection is counted, or none is (n = 0), and the user's entry is made all the same.
CountIn(g, ip, n) == [g EXCEPT !.entry = TRUE, !.refs[ip] = @ + n]

\* A bug: any address that goes takes the user's entry with it.
CountOutAll(g, ip) ==
  IF ~g.entry THEN g
  ELSE [g EXCEPT !.refs[ip] = IF @ > 0 THEN @ - 1 ELSE 0, !.entry = g.refs[ip] > 1]

\* The last address of a user takes the entry with it.
CountOut(g, ip) ==
  LET left == Counted(g) \ (IF g.refs[ip] <= 1 THEN {ip} ELSE {})
  IN IF ~g.entry THEN g
     ELSE [g EXCEPT !.refs[ip] = IF @ > 0 THEN @ - 1 ELSE 0, !.entry = left # {}]

----------------------------------------------------------------------------
(* xray: users without a limit.                                            *)

\* LoadOrStore: the stored cell, or one that nothing refers to.
Unused(g, held) == {x \in Cells \ held : \A a \in Ips : g.store[a] # x}
CellFor(g, ip, held) ==
  IF g.store[ip] # NoCell THEN g.store[ip] ELSE CHOOSE x \in Unused(g, held) : TRUE

StoreCell(g, ip, x) ==
  [g EXCEPT !.free = TRUE, !.store[ip] = x, !.cell[x] = IF g.store[ip] = x THEN @ ELSE 0]

AddToCell(g, x, n) == [g EXCEPT !.cell[x] = @ + n]
DropCell(g, ip) == [g EXCEPT !.store[ip] = NoCell]

----------------------------------------------------------------------------
(* sing-box.                                                               *)

\* The panel's view of the user's addresses; Unknown: missing, or older than a minute.
View == [known : BOOLEAN, ips : SUBSET Ips]
Unknown == [known |-> FALSE, ips |-> {}]

\* checkDeviceGate, for the local addresses and the panel's view read before.
GateRefuses(local, world, ip, limit) ==
  LET present == IF world.known THEN local \cup world.ips ELSE local
  IN /\ limit > 0
     /\ ip \notin present
     /\ Cardinality(present) >= limit
     /\ ~AmongLowest(ip, present, limit)

AddConn(g, ip) == [g EXCEPT !.refs[ip] = @ + 1]
RemoveConn(g, ip) == [g EXCEPT !.refs[ip] = IF @ > 0 THEN @ - 1 ELSE 0]
=============================================================================
