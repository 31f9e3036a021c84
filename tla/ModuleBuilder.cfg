CONSTANTS
  main = main
  dash = dash
  Idents <- Names
  NonIdents <- NotNames
  ScalarInputs <- SomeScalars
  TypeDataInputs <- HandMadeTypes
  ConstDataInputs <- HandMadeConsts
  Lengths <- SomeLengths
  LinkageInputs <- SomeLinkages
  IntValues <- SomeInts
  EmitOps <- SomeOps
  MaxEntries = 3
  MaxFunctions = 2
  MaxParams = 1
  MaxFields = 1
  MaxBlocks = 1
  MaxArgs = 1
SPECIFICATION Spec
CHECK_DEADLOCK FALSE
INVARIANTS
  TypeOK
  BuiltModulesTypeCheck
  SameShapeSameId
  ArenaMatchesBody
  BuilderAgreesWithVerifier
