CONSTANTS
  k1 = k1
  k2 = k2
  k3 = k3
  v1 = v1
  v2 = v2
  run = run
  sleep = sleep
  queue = queue
  Junk = Junk
  NULL = NULL
  Key = {k1, k2, k3}
  Hash <- MCHash
  Rank <- MCRank
  MaxSize = 2
  Word = 16
  Length = 4
  Node <- MCNode
  List <- MCList
  Item = {v1, v2}
  Pool = {run, sleep}
  Sorted = sleep
  Queue = queue
SYMMETRY ItemSymmetry
SPECIFICATION Spec
INVARIANTS
  ListsSound
  BlocksAccounted
PROPERTY
  Implements
