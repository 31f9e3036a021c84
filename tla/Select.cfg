CONSTANTS
  W8 = 2
  W16 = 3
  W32 = 4
  W64 = 6
  P32 = 2
  P64 = 3
  NaN = NaN
  Instructions <- Scalar
SPECIFICATION Spec
INVARIANT
  ComputesMeaning
CHECK_DEADLOCK FALSE
