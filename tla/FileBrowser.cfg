SPECIFICATION Spec
CONSTANTS
  Nodes <- MCNodes
  NoNode = "none"
  Items <- MCItems
  Root = "/"
  Parent <- MCParent
  Above <- MCAbove
  Tree <- MCTree
  OpenedWith <- MCOpenedWith
  Typed = {"x"}
  MaxSwitches = 1
INVARIANTS TypeOK SkeletonsAwaited SelectionMeant RowsTellTruth
CHECK_DEADLOCK FALSE
