CONSTANTS
  Width = 6
  MaxCpus = 4
  Machines <- OnlyContainer
  Offsets = {0, 1, 2}
  Counts = {0, 1, 2, 3}
  SizeOfThread = 2
  SizeOfWork = 4
  SizeOfWorker = 8
  MaxAllocation = 40
  CacheLine = 4
  SizeOfSequence = 2
  Samples = {0, 1, 3}
SPECIFICATION Spec
INVARIANTS
  NoSharedCore
