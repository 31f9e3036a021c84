CONSTANTS
  int = int
  bool = bool
  void = void
  none = none
  I1 = bool
  Void = void
  NoType = none
  TypeIds <- AllTypes
  ValTypes <- Types
  Modules <- Printable
SPECIFICATION Spec
INVARIANTS
  ReadsBack
  PrintsTheSame
CHECK_DEADLOCK FALSE
