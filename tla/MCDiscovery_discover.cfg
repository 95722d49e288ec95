\* Discoveries one after another on any directory that loads.
SPECIFICATION FairSpec
CONSTANTS
  a = a
  a2 = a2
  b = b
  fa = fa
  fa2 = fa2
  fb = fb
  r1 = r1
  r2 = r2
  r3 = r3
  q1 = q1
  x1 = x1
  x2 = x2
  x3 = x3
  Absent = Absent
  None = None
  Files = {fa, fa2, fb}
  DeviceIds = {a, a2, b}
  FileOf <- MCFileOf
  Revs = {r1, r2, r3, q1}
  BadRevs = {}
  Procs = {}
  Faults = {}
  Found = {r1, r2, r3}
  Addresses = {x1, x2, x3}
  AddressOf <- MCAddressOf
  IdsTried <- MCIdsTried
  Workers = {w1, w2}
  MaxNew = 2
INVARIANT EachIsProbedOnce
PROPERTIES AddsOnlyNew NamedDevicesStay DiscoveryEnds
