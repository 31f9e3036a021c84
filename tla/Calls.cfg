CONSTANTS
  U64Max = 511
  I32Max = 319
  SseArgs = 1
  Types <- TypeTable
  GpArgs <- OneRegister
  Programs <- AllPrograms
SPECIFICATION Spec
INVARIANTS
  SlotsDisjoint
  SlotsAligned
  OutgoingBelowSlots
  FieldsInPlace
  ValuesInSlots
CHECK_DEADLOCK FALSE
