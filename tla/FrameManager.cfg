CONSTANTS
  NumBins = 4
  Pages = 10
  MaxRequest = 9
SPECIFICATION Spec
INVARIANTS
  TablesAgree
  BuddiesPaired
  NoFalseExhaustion
PROPERTY
  ImplementsAllocator
