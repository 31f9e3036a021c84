CONSTANTS
  Labels = {1, 2}
  Lens = {5}
  Longest = 6
  MinRel <- Back
  MaxRel = 7
  Limits = {2, 8}
  Codes <- Sections
SPECIFICATION FairSpec
INVARIANTS
  TypeOK
  ResultHolds
  SettledIsFinal
  FailsOnUndefined
  PassesSettle
PROPERTY
  Returns
