\* An agent, its watcher and device commands one at a time.
SPECIFICATION FairSpec
CONSTANTS
  a = a
  fa = fa
  fb = fb
  DeviceIds = {a}
  Files = {fa, fb}
  FileOf <- MCFileOf
  Revs = {1, 2}
  BadRevs = {2}
  Absent = Absent
  None = None
  Procs = {p1}
  Faults = {"io", "kill"}
INVARIANT NoChangeIsLost
PROPERTIES CommandLeavesValid CommandIsAtomic AgentCatchesUp
