SPECIFICATION FairSpec
CONSTANTS
  Capacity = 3
  Addresses = {a, b, c, d}
  NoVM = NoVM
INVARIANTS TypeOK ParentOutlives ChildrenCounted LiveCounted
PROPERTIES RefinesTree RowsTellState EndedGoes
