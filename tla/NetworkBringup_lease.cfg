SPECIFICATION Spec
CONSTANTS
  LinkSlices = 2
  DhcpSlices = 2
  NoSlice = NoSlice
INVARIANT AssignedMeansLease
