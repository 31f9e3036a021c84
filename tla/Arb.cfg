CONSTANTS
  Modules <- ToRead
  DamagedModules <- ToDamage
  DamageTo <- DamagedBytes
SPECIFICATION Spec
INVARIANTS
  TypeOK
  RoundTrip
  AcceptedIsCanonical
  AcceptedIsWellFormed
  CapacityJustified
