\* Two devices, one named within the other, two addresses; every call may fail.
SPECIFICATION FairSpec
CONSTANTS
  d1 = d1
  d2 = d2
  a1 = a1
  a2 = a2
  Devices = {d1, d2}
  Matches <- MCMatches
  Addresses = {a1, a2}
  Configurations <- TwoConfigurations
  None = None
  SaveFails = TRUE
INVARIANTS OkMeansReceived CachesAreTrue
PROPERTIES ManagementCannotFail RelationIsEnsured TopologyIsPublishedUnlessUnsaved
