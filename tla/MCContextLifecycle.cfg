CONSTANTS
  ThreadCount = 2
  SlotInitialCapacity = 2
  MaxSlots = 3
SPECIFICATION Spec
INVARIANTS
  TypeOK NoBadFree HeapIsReachable SlotsComplete
PROPERTIES
  SlotsStable
