CONSTANTS
  bool = bool
  void = void
  none = none
  zero = zero
  one = one
  junk = junk
  I1 = bool
  Void = void
  NoType = none
  TypeIds <- AllTypes
  ValTypes <- Types
  Programs <- Wired
  Data <- Bits
  Zero = zero
  Undef = junk
SPECIFICATION Spec
INVARIANTS
  TypeOK
  NoUninitializedLoad
PROPERTY
  ImplementsSsa
