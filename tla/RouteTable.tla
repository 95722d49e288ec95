----------------------------- MODULE RouteTable -----------------------------
(***************************************************************************)
(* How internal/routes reads the route table of a device, one column after *)
(* another, and turns it into routes: snmp_provider.go, resolver.go,       *)
(* fingerprint.go.                                                         *)
(*                                                                         *)
(* An address is a number of Width bits, 0 stands for 0.0.0.0 and NoHop for*)
(* no next hop at all.  A mask is the length of its prefix.  An interface  *)
(* is its index, 0 when the row has none; its name follows from it.  A     *)
(* table is a set of rows with different keys; protocols are left out, they*)
(* are treated like metrics.                                               *)
(***************************************************************************)
EXTENDS Integers, Sequences, FiniteSets

CONSTANT Width

ASSUME WidthAssumption == Width \in Nat

NoHop     == -1
connected == 3
remote    == 4

(* The columns of a table are walked in the order of these fields. *)
RouteRow == [key : Nat, net : Nat, len : 0 .. Width, hop : Nat \union {NoHop}, if : Nat,
             type : Nat, metric : Nat]

Columns == 6

IsTable(rows) ==
  /\ rows \subseteq RouteRow /\ IsFiniteSet(rows)
  /\ \A a, b \in rows : a.key = b.key => a = b

(* What ensureRouteRow makes of a key whose other columns have no value. *)
rawRouteRow(key) ==
  [key |-> key, net |-> NoHop, len |-> NoHop, hop |-> NoHop, if |-> 0, type |-> 0,
   metric |-> 0]

Keys(table) == {row.key : row \in table}
RowOf(table, key) ==
  IF key \in Keys(table) THEN CHOOSE row \in table : row.key = key ELSE rawRouteRow(key)

(* walkIPCidrRoutes: the table is old while the first n columns are walked and
   new after that. *)
WalkColumns(old, new, n) ==
  LET read(i) == IF i <= n THEN old ELSE new
      cell(i, key) == RowOf(read(i), key)
  IN  {[key |-> key, net |-> cell(1, key).net, len |-> cell(2, key).len,
        hop |-> cell(3, key).hop, if |-> cell(4, key).if, type |-> cell(5, key).type,
        metric |-> cell(6, key).metric] :
         key \in UNION {Keys(read(i)) : i \in 1 .. Columns}}

(* Rows without a destination are dropped, a missing mask is that of a host. *)
finalizeRouteRows(rows) ==
  {[row EXCEPT !.len = IF @ = NoHop THEN Width ELSE @] :
     row \in {r \in rows : r.net # NoHop}}

PrefixContains(net, len, address) ==
  net \div 2 ^ (Width - len) = address \div 2 ^ (Width - len)

(* Mutant of TriedBefore: in the order of the table. *)
TriedBefore_AsRead(a, b) == a.key < b.key

(* The more specific of two connected routes, of equals the first of the table. *)
TriedBefore(a, b) == a.len > b.len \/ (a.len = b.len /\ a.key < b.key)

(* resolveMissingInterfaces: the first connected route that has an interface and
   contains the next hop. *)
ResolvedInterface(row, rows) ==
  LET fits == {c \in rows : /\ c.type = connected /\ c.if # 0
                            /\ PrefixContains(c.net, c.len, row.hop)}
  IN  IF row.if # 0 \/ row.hop \in {NoHop, 0} \/ fits = {}
        THEN row.if
        ELSE (CHOOSE c \in fits : \A e \in fits \ {c} : TriedBefore(c, e)).if

(* An entry holds what sortRouteEntries compares and Fingerprint hashes. *)
Entry(row, rows) ==
  <<row.net, row.len, row.hop, ResolvedInterface(row, rows), row.metric, row.type>>

Before(a, b) == \E i \in 1 .. 6 : a[i] < b[i] /\ \A j \in 1 .. i - 1 : a[j] = b[j]

(* Rows with equal entries come in the order of the table. *)
RowBefore(a, b, rows) ==
  \/ Before(Entry(a, rows), Entry(b, rows))
  \/ Entry(a, rows) = Entry(b, rows) /\ a.key < b.key

(* The place of a row among the sorted ones (sortRouteEntries). *)
Rank(row, rows) == Cardinality({a \in rows : a = row \/ RowBefore(a, row, rows)})

resolveRoutes(rows) ==
  [i \in 1 .. Cardinality(rows) |-> Entry(CHOOSE row \in rows : Rank(row, rows) = i, rows)]

(* The hash is taken to be free of collisions. *)
Fingerprint(entries) == entries

IsDefault(entry) == entry[1] = 0 /\ entry[2] = 0
-----------------------------------------------------------------------------
(* What the routes of a table are, said without an order of rows. *)

(* The interfaces a route without one may get: those of the connected routes
   that contain its next hop, none of which is less specific than another. *)
MostSpecific(table, row) ==
  LET fits == {c \in table : /\ c.type = connected /\ c.if # 0
                             /\ PrefixContains(c.net, c.len, row.hop)}
  IN  {c.if : c \in {d \in fits : \A e \in fits : e.len <= d.len}}

InterfacesOf(table, row) ==
  IF row.if # 0 \/ row.hop \in {NoHop, 0} \/ MostSpecific(table, row) = {}
    THEN {row.if}
    ELSE MostSpecific(table, row)
=============================================================================
