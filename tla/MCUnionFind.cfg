SPECIFICATION Spec
CONSTANT N = 5
INVARIANTS
  TypeOK
  Downhill
  ClustersAreComponents
PROPERTIES
  ImplementsPartition
  Termination
