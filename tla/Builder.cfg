CONSTANTS
  i1 = i1
  agg = agg
  void = void
  none = none
  I1 = i1
  Void = void
  NoType = none
  TypeIds <- AllTypes
  ValTypes <- FirstClass
  Ops <- SomeOps
  Sigs <- SomeSigs
  MaxBlocks = 2
  MaxValues = 3
  MaxInsts = 2
  MaxArgs = 1
SPECIFICATION Spec
INVARIANTS
  TypeOK
  BuilderErrorsBounded
  EdgeArgsPrefix
  SameBlockUsesInOrder
  OperandsOlder
PROPERTIES
  BodyOnlyGrows
