SPECIFICATION Spec
CONSTANTS
  List = {l1, l2}
  Link = {x1, x2, x3, x4}
  NULL = NULL
INVARIANTS
  RingsIntact
PROPERTY
  ListsSpec
