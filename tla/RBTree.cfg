SPECIFICATION FairSpec
CONSTANT N = 7
INVARIANTS
  SearchTree
  WalksInOrder
  RedBlack
  DeleteAsserts
PROPERTY
  RebalancingEnds
