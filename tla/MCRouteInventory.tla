-------------------------- MODULE MCRouteInventory --------------------------
(* Model values of the run of RouteInventory. *)
EXTENDS RouteInventory

CONSTANTS d1, d2

Row(key, net, len, hop, if, type) ==
  [key |-> key, net |-> net, len |-> len, hop |-> hop, if |-> if, type |-> type,
   metric |-> 1]

\* Addresses have three bits.  The next hop 5 is in 4/1 and in 4/2.
Default(if) == Row(1, 0, 0, 5, if, remote)
Wide        == Row(2, 4, 1, 0, 7, connected)
Narrow      == Row(3, 4, 2, 0, 8, connected)

TwoTargets == <<d1, d2>>

Table(cidr, legacy) == [cidr |-> cidr, legacy |-> legacy]

\* The second table of d1 reads the same from either of its forms.
TheTables ==
  [d \in {d1, d2} |->
     IF d = d1
       THEN {Table({Default(0), Wide, Narrow}, {}),
             Table({Default(0), Wide}, {Default(7), Wide})}
       ELSE {Table({}, {Wide})}]
=============================================================================
