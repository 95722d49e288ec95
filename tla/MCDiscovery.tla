---------------------------- MODULE MCDiscovery ----------------------------
(* Model values of the runs of Discovery: three candidates, two of which   *)
(* have the same name, and a device configured at the address of the first *)
(* with other fields.                                                      *)
EXTENDS Discovery

CONSTANTS a, a2, b, fa, fa2, fb, r1, r2, r3, q1, x1, x2, x3

MCFileOf    == (a :> fa) @@ (a2 :> fa2) @@ (b :> fb)
MCAddressOf == (r1 :> x1) @@ (r2 :> x2) @@ (r3 :> x3) @@ (q1 :> x1)
MCIdsTried  == (r1 :> <<a, a2, b>>) @@ (r2 :> <<a, a2, b>>) @@ (r3 :> <<b, a2, a>>)
=============================================================================
