CONSTANTS
  i1 = i1
  agg = agg
  void = void
  none = none
  I1 = i1
  Void = void
  NoType = none
  TypeIds <- AllTypes
  ValTypes <- FirstClass
  Ops <- ExtractOnly
  Sigs <- VoidSig
  MaxBlocks = 3
  MaxValues = 2
  MaxInsts = 1
  MaxArgs = 1
SPECIFICATION Spec
PROPERTIES
  VerifiedBodyStays
