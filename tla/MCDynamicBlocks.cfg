SPECIFICATION Spec
CONSTANTS
  Templates <- MCTemplates
  Key = {"a", "b", "c"}
  Val = {"x", "y"}
  Lists <- MCLists
  MaxWrites = 2
  MaxElements = 11
  MaxQueue = 1
INVARIANTS
  TypeOK
  TreeShowsModel
  NoOrphans
PROPERTIES
  RowsAreKeyed
